------------------------- MODULE EngineConfigProofs -------------------------
(***************************************************************************)
(* Theorems about EngineConfig, for any service users and passwords and    *)
(* any number of requests at one time.                                     *)
(***************************************************************************)
EXTENDS EngineConfig, TLAPS

-----------------------------------------------------------------------------
(***************************************************************************)
(* What the proofs rest on.                                                *)
(***************************************************************************)

(* Each stage belongs to the operations that pass through it.              *)
StageKnown(h) ==
  /\ call[h].pc = "idle" <=> call[h].op = "none"
  /\ call[h].pc = "store" => call[h].op = "write" /\ call[h].mine \in Configs
  /\ call[h].pc = "drop" => call[h].op = "delete"
  /\ call[h].pc = "reset" => Changing(h)
  /\ call[h].pc \in {"client", "fill"} => call[h].op \in {"rotate", "request", "provision"}
  /\ call[h].pc = "save" \/ Rotating(h) => call[h].op = "rotate"
  /\ call[h].pc \in {"config", "bucket"} => call[h].op = "provision"
  /\ call[h].op = "rotate" => call[h].mine \in Configs
  /\ Rotating(h) => call[h].new \in Passwords

RotatesAlone ==
  \A g, h \in Handlers : call[g].op = "rotate" /\ Changing(h) => g = h

(* Who fills the cache holds the lock, and what it read is still stored,   *)
(* about to be dropped again, or what the operator was warned of.          *)
FillKnown(h) == call[h].pc = "fill" =>
  /\ client = NoConfig
  /\ call[h].read \in Configs
  /\ call[h].read = stored \/ Pending \/ warned
  /\ \A g \in Handlers : call[g].pc = "fill" => g = h

(* A rotation that is put back leaves storage as the cached client has it, *)
(* unless the operator was warned before.                                  *)
RotationKnown(h) == call[h].op = "rotate" =>
  /\ call[h].pc \in {"client", "fill"} => call[h].mine = stored
  /\ call[h].pc = "save" => call[h].mine = stored /\ (client = stored \/ warned)
  /\ Rotating(h) => client = call[h].mine \/ warned

(* What a write is about to store is what Selectel accepts, and a rotation *)
(* has stored the password it is about to set.                             *)
PasswordKnown(h) ==
  /\ call[h].pc = "store" => actual[call[h].mine.user] = call[h].mine.password
  /\ Rotating(h) => stored = [call[h].mine EXCEPT !.password = call[h].new]

(* The inductive invariant of the cache.                                   *)
Coherent ==
  /\ TypeOK
  /\ \A h \in Handlers : StageKnown(h) /\ FillKnown(h) /\ RotationKnown(h)
  /\ RotatesAlone
  /\ ClientFresh

(* The inductive invariant of the password.                                *)
LoginKnown == Coherent /\ \A h \in Handlers : PasswordKnown(h)

-----------------------------------------------------------------------------
LEMMA IdleTyped == /\ Idle \in Calls /\ Idle.pc = "idle" /\ Idle.op = "none"
                   /\ NoConfig \notin Configs
BY AbsentAssumption DEF Idle, Calls, NoConfig, Configs

LEMMA TypeStep == TypeOK /\ (\A h \in Handlers : StageKnown(h)) /\ [Next]_vars => TypeOK'
<1> SUFFICES ASSUME TypeOK, \A h \in Handlers : StageKnown(h), [Next]_vars PROVE TypeOK'
  OBVIOUS
<1> USE DEF TypeOK
<1>1. ASSUME NEW h \in Handlers, Administer(h) PROVE TypeOK'
  <2>1. ASSUME NEW u \in Users \cup {NoUser}, NEW p \in Chosen \cup {NoPassword},
               WriteBegin(h, u, p)
        PROVE  TypeOK'
    <3>1. Merge(stored, u, p) \in Configs
      BY <2>1, ConstantsAssumption DEF WriteBegin, Merge, Configs, NoConfig
    <3> QED BY <2>1, <3>1 DEF WriteBegin, Go, Idle, Calls, Changes
  <2>2. CASE WriteStore(h)
    BY <2>2 DEF WriteStore, Go, Calls
  <2>3. CASE DeleteBegin(h)
    BY <2>3 DEF DeleteBegin, Go, Idle, Calls, Changes
  <2>4. CASE DeleteStore(h)
    BY <2>4 DEF DeleteStore, Go, Calls
  <2>5. CASE InvalidateBegin(h)
    BY <2>5 DEF InvalidateBegin, Go, Idle, Calls, Changes
  <2>6. CASE Reset(h)
    BY <2>6, IdleTyped DEF Reset, Finish, Go
  <2> QED BY <1>1, <2>1, <2>2, <2>3, <2>4, <2>5, <2>6 DEF Administer
<1>2. ASSUME NEW c \in Calls PROVE WithClient(c) \in Calls
  BY <1>2, IdleTyped DEF WithClient, Calls
<1>3. ASSUME NEW h \in Handlers, GetClient(h) PROVE TypeOK'
  <2>1. CASE GetCached(h)
    BY <1>2, <2>1 DEF GetCached, Go
  <2>2. CASE GetMissing(h)
    BY <2>2, IdleTyped DEF GetMissing, Finish, Go
  <2>3. CASE GetRead(h)
    <3>1. [call[h] EXCEPT !.pc = "fill", !.read = stored] \in Calls
      BY DEF Calls
    <3> QED BY <2>3, <3>1 DEF GetRead, Go
  <2>4. CASE GetFill(h)
    BY <1>2, <2>4 DEF GetFill, Go, Calls
  <2> QED BY <1>3, <2>1, <2>2, <2>3, <2>4 DEF GetClient
<1>4. ASSUME NEW h \in Handlers, Use(h) PROVE TypeOK'
  <2>1. ASSUME NEW op \in {"request", "provision"}, UseBegin(h, op) PROVE TypeOK'
    BY <2>1 DEF UseBegin, Go, Idle, Calls
  <2>2. CASE ReadAgain(h)
    <3>1. [call[h] EXCEPT !.pc = "bucket", !.read = stored] \in Calls
      BY DEF Calls
    <3> QED BY <2>2, <3>1 DEF ReadAgain, Go
  <2>3. CASE UseEndpoint(h)
    BY <2>3, IdleTyped DEF UseEndpoint, Finish, Go
  <2> QED BY <1>4, <2>1, <2>2, <2>3 DEF Use
<1>5. ASSUME NEW h \in Handlers, RotateRoot(h) PROVE TypeOK'
  <2>1. CASE RotateBegin(h)
    BY <2>1 DEF RotateBegin, Go, Idle, Calls, Changes
  <2>2. ASSUME NEW p \in Passwords, RotateSave(h, p) PROVE TypeOK'
    <3>1. call[h].mine \in Configs
      BY <2>2 DEF RotateSave, StageKnown
    <3>2. [call[h].mine EXCEPT !.password = p] \in Configs
      BY <3>1 DEF Configs
    <3>3. p \in Passwords /\ stored' \in Configs
      BY <2>2, <3>2 DEF RotateSave
    <3>4. [call[h] EXCEPT !.pc = "patch", !.new = p] \in Calls
      BY <3>3 DEF Calls
    <3> QED BY <2>2, <3>3, <3>4 DEF RotateSave, Go
  <2>3. CASE RotatePatch(h)
    <3>1. actual' \in [Users -> Passwords]
      BY <2>3 DEF RotatePatch, Patch, StageKnown, Rotating
    <3> QED BY <2>3, <3>1 DEF RotatePatch, Patch, Go, Calls
  <2>4. CASE RotateRefused(h)
    BY <2>4 DEF RotateRefused, Go, Calls
  <2>5. CASE RotatePatchLost(h)
    <3>1. actual' \in [Users -> Passwords]
      BY <2>5 DEF RotatePatchLost, Patch, StageKnown, Rotating
    <3> QED BY <2>5, <3>1 DEF RotatePatchLost, Patch, Go, Calls
  <2>6. CASE RotateRestore(h)
    BY <2>6, IdleTyped DEF RotateRestore, Finish, Go, Calls
  <2>7. CASE RestoreRefused(h)
    BY <2>7, IdleTyped DEF RestoreRefused, Finish, Go, Calls
  <2> QED BY <1>5, <2>1, <2>2, <2>3, <2>4, <2>5, <2>6, <2>7 DEF RotateRoot
<1>6. ASSUME NEW h \in Handlers, Abort(h) PROVE TypeOK'
  BY <1>6, IdleTyped DEF Abort, Finish, Go
<1>7. CASE Die
  BY <1>7, IdleTyped DEF Die
<1>8. CASE UNCHANGED vars
  BY <1>8 DEF vars
<1>9. ASSUME NEW p \in Chosen, SetByHand(p) PROVE TypeOK'
  BY <1>9, ConstantsAssumption DEF SetByHand
<1> QED BY <1>1, <1>3, <1>4, <1>5, <1>6, <1>7, <1>8, <1>9 DEF Next

-----------------------------------------------------------------------------
(* Every stage is reached by the operations it belongs to, and only one    *)
(* rotation is under way, beside no other change of the configuration.     *)
LEMMA StageStep ==
  ASSUME TypeOK, \A h \in Handlers : StageKnown(h), [Next]_vars, NEW g \in Handlers
  PROVE  StageKnown(g)'
<1> USE DEF TypeOK
<1>0. StageKnown(g)
  OBVIOUS
<1>1. CASE UNCHANGED call
  BY <1>0, <1>1 DEF StageKnown, Changing, Rotating
<1>2. ASSUME NEW h \in Handlers, Finish(h) PROVE StageKnown(g)'
  BY <1>0, <1>2, IdleTyped DEF Finish, Go, StageKnown, Changing, Rotating, Changes
<1>3. ASSUME NEW h \in Handlers, Administer(h) PROVE StageKnown(g)'
  <2>1. ASSUME NEW u \in Users \cup {NoUser}, NEW p \in Chosen \cup {NoPassword},
               WriteBegin(h, u, p)
        PROVE  StageKnown(g)'
    <3>1. Merge(stored, u, p) \in Configs
      BY <2>1, ConstantsAssumption DEF WriteBegin, Merge, Configs, NoConfig
    <3> QED BY <1>0, <2>1, <3>1 DEF WriteBegin, Go, Idle, StageKnown, Changing, Rotating, Changes
  <2>2. CASE WriteStore(h)
    BY <1>0, <2>2 DEF WriteStore, Go, Calls, StageKnown, Changing, Rotating, Changes
  <2>3. CASE DeleteBegin(h)
    BY <1>0, <2>3 DEF DeleteBegin, Go, Idle, StageKnown, Changing, Rotating, Changes
  <2>4. CASE DeleteStore(h)
    BY <1>0, <2>4 DEF DeleteStore, Go, Calls, StageKnown, Changing, Rotating, Changes
  <2>5. CASE InvalidateBegin(h)
    BY <1>0, <2>5 DEF InvalidateBegin, Go, Idle, StageKnown, Changing, Rotating, Changes
  <2> QED BY <1>2, <1>3, <2>1, <2>2, <2>3, <2>4, <2>5 DEF Administer, Reset
<1>4. ASSUME NEW h \in Handlers, Go(h, WithClient(call[h])), call[h].pc \in {"client", "fill"}
      PROVE  StageKnown(g)'
  <2>1. StageKnown(h)
    OBVIOUS
  <2> QED BY <1>0, <1>4, <2>1, IdleTyped
          DEF WithClient, Go, Calls, StageKnown, Changing, Rotating, Changes
<1>5. ASSUME NEW h \in Handlers, GetClient(h) PROVE StageKnown(g)'
  <2>1. CASE GetRead(h)
    BY <1>0, <2>1 DEF GetRead, Go, Calls, StageKnown, Changing, Rotating, Changes
  <2> QED BY <1>2, <1>4, <1>5, <2>1 DEF GetClient, GetCached, GetMissing, GetFill
<1>6. ASSUME NEW h \in Handlers, Use(h) PROVE StageKnown(g)'
  <2>1. ASSUME NEW op \in {"request", "provision"}, UseBegin(h, op) PROVE StageKnown(g)'
    BY <1>0, <2>1 DEF UseBegin, Go, Idle, StageKnown, Changing, Rotating, Changes
  <2>2. CASE ReadAgain(h)
    BY <1>0, <2>2 DEF ReadAgain, Go, Calls, StageKnown, Changing, Rotating, Changes
  <2> QED BY <1>2, <1>6, <2>1, <2>2 DEF Use, UseEndpoint
<1>7. ASSUME NEW h \in Handlers, RotateRoot(h) PROVE StageKnown(g)'
  <2>1. CASE RotateBegin(h)
    BY <1>0, <2>1 DEF RotateBegin, Go, Idle, StageKnown, Changing, Rotating, Changes
  <2>2. ASSUME NEW p \in Passwords, RotateSave(h, p) PROVE StageKnown(g)'
    BY <1>0, <2>2 DEF RotateSave, Go, Calls, StageKnown, Changing, Rotating, Changes
  <2>3. CASE RotatePatch(h)
    BY <1>0, <2>3 DEF RotatePatch, Go, Calls, StageKnown, Changing, Rotating, Changes, Patch
  <2>4. CASE RotateRefused(h)
    BY <1>0, <2>4 DEF RotateRefused, Go, Calls, StageKnown, Changing, Rotating, Changes
  <2>5. CASE RotatePatchLost(h)
    BY <1>0, <2>5 DEF RotatePatchLost, Go, Calls, StageKnown, Changing, Rotating, Changes, Patch
  <2> QED BY <1>2, <1>7, <2>1, <2>2, <2>3, <2>4, <2>5
          DEF RotateRoot, RotateRestore, RestoreRefused
<1>8. CASE Die
  BY <1>8, IdleTyped DEF Die, StageKnown, Changing, Rotating, Changes
<1> QED BY <1>1, <1>2, <1>3, <1>5, <1>6, <1>7, <1>8 DEF Next, Abort, SetByHand, vars

(***************************************************************************)
(* An operation begins where MayBegin lets it, and no step turns one       *)
(* operation into another.                                                 *)
(***************************************************************************)
LEMMA OperationStep ==
  ASSUME TypeOK, [Next]_vars, NEW g \in Handlers
  PROVE  call'[g].op \in {call[g].op, "none"} \/
           (MayBegin(g, call'[g].op) /\ \A h \in Handlers : h # g => call'[h] = call[h])
<1> DEFINE Moves == call'[g].op \in {call[g].op, "none"} \/
             (MayBegin(g, call'[g].op) /\ \A h \in Handlers : h # g => call'[h] = call[h])
<1> USE DEF TypeOK
<1>1. ASSUME UNCHANGED call PROVE Moves
  BY <1>1
<1>2. ASSUME NEW h \in Handlers, NEW c \in Calls, Go(h, c), c.op \in {call[h].op, "none"}
      PROVE  Moves
  BY <1>2 DEF Go
<1>3. ASSUME NEW h \in Handlers, Finish(h) PROVE Moves
  BY <1>2, <1>3, IdleTyped DEF Finish
<1>4. ASSUME NEW h \in Handlers, NEW c, Go(h, c), MayBegin(h, c.op) PROVE Moves
  BY <1>4 DEF Go
<1>5. ASSUME NEW h \in Handlers, Administer(h) PROVE Moves
  <2>1. ASSUME NEW u \in Users \cup {NoUser}, NEW p \in Chosen \cup {NoPassword},
               WriteBegin(h, u, p)
        PROVE  Moves
    <3> DEFINE c == [Idle EXCEPT !.pc = "store", !.op = "write", !.mine = Merge(stored, u, p)]
    <3>1. c.op = "write" /\ Go(h, c)
      BY <2>1 DEF WriteBegin, Idle
    <3> HIDE DEF c
    <3> QED BY <1>4, <2>1, <3>1 DEF WriteBegin
  <2>2. CASE WriteStore(h)
    BY <2>2 DEF WriteStore, Go, Calls
  <2>3. CASE DeleteBegin(h)
    BY <1>4, <2>3 DEF DeleteBegin, Idle
  <2>4. CASE DeleteStore(h)
    BY <2>4 DEF DeleteStore, Go, Calls
  <2>5. CASE InvalidateBegin(h)
    BY <1>4, <2>5 DEF InvalidateBegin, Idle
  <2> QED BY <1>3, <1>5, <2>1, <2>2, <2>3, <2>4, <2>5 DEF Administer, Reset
<1>6. ASSUME NEW h \in Handlers, GetClient(h) PROVE Moves
  <2>1. CASE Go(h, WithClient(call[h]))
    BY <2>1, IdleTyped DEF Go, WithClient, Calls
  <2>2. CASE GetRead(h)
    BY <2>2 DEF GetRead, Go, Calls
  <2> QED BY <1>3, <1>6, <2>1, <2>2 DEF GetClient, GetCached, GetMissing, GetFill
<1>7. ASSUME NEW h \in Handlers, Use(h) PROVE Moves
  <2>1. ASSUME NEW op \in {"request", "provision"}, UseBegin(h, op) PROVE Moves
    BY <1>4, <2>1 DEF UseBegin, Idle
  <2>2. CASE ReadAgain(h)
    BY <2>2 DEF ReadAgain, Go, Calls
  <2> QED BY <1>3, <1>7, <2>1, <2>2 DEF Use, UseEndpoint
<1>8. ASSUME NEW h \in Handlers, RotateRoot(h) PROVE Moves
  <2>1. CASE RotateBegin(h)
    BY <1>4, <2>1 DEF RotateBegin, Idle
  <2>2. ASSUME NEW p \in Passwords, RotateSave(h, p) PROVE Moves
    BY <2>2 DEF RotateSave, Go, Calls
  <2>3. CASE RotatePatch(h) \/ RotateRefused(h) \/ RotatePatchLost(h)
    BY <2>3 DEF RotatePatch, RotateRefused, RotatePatchLost, Go, Calls, Patch
  <2> QED BY <1>3, <1>8, <2>1, <2>2, <2>3 DEF RotateRoot, RotateRestore, RestoreRefused
<1>9. CASE Die
  BY <1>9, IdleTyped DEF Die
<1> QED BY <1>1, <1>3, <1>5, <1>6, <1>7, <1>8, <1>9 DEF Next, Abort, SetByHand, vars

LEMMA AloneStep ==
  ASSUME "rotate" \in Exclusive, TypeOK, RotatesAlone, [Next]_vars
  PROVE  RotatesAlone'
<1> SUFFICES ASSUME NEW g \in Handlers, NEW h \in Handlers, call'[g].op = "rotate", Changing(h)', g # h
             PROVE  FALSE
  BY DEF RotatesAlone
<1>1. call'[h].op \in Changes /\ "none" \notin Changes
  BY DEF Changing, Changes
<1>2. CASE call'[g].op = call[g].op
  <2>1. call'[h].op # call[h].op
    BY <1>1, <1>2 DEF RotatesAlone, Changing
  <2>2. MayBegin(h, call'[h].op)
    BY <1>1, <2>1, OperationStep
  <2> QED BY <1>1, <1>2, <2>2 DEF MayBegin, Changing, Changes
<1>3. CASE call'[g].op # call[g].op
  <2>1. MayBegin(g, "rotate") /\ call'[h] = call[h]
    BY <1>3, OperationStep
  <2> QED BY <1>1, <2>1 DEF MayBegin, Changing, Changes
<1> QED BY <1>2, <1>3

-----------------------------------------------------------------------------
(***************************************************************************)
(* Who changes storage, who changes the client, and what that leaves       *)
(* pending.                                                                *)
(***************************************************************************)
LEMMA StorageMoves ==
  ASSUME [Next]_vars
  PROVE  \/ stored' = stored
         \/ \E h \in Handlers : WriteStore(h) \/ DeleteStore(h) \/ RotateRestore(h)
         \/ \E h \in Handlers, p \in Passwords : RotateSave(h, p)
BY DEF Next, Administer, GetClient, Use, RotateRoot, Abort, Die, vars, WriteBegin, DeleteBegin,
   InvalidateBegin, Reset, GetCached, GetMissing, GetRead, GetFill, UseBegin, ReadAgain, UseEndpoint,
   RotateBegin, RotatePatch, Patch, RotateRefused, RotatePatchLost, RestoreRefused, SetByHand

LEMMA ClientMoves ==
  ASSUME [Next]_vars
  PROVE  client' = client \/ Die \/ \E h \in Handlers : Reset(h) \/ GetFill(h)
BY DEF Next, Administer, GetClient, Use, RotateRoot, Abort, vars, WriteBegin, DeleteBegin,
   InvalidateBegin, GetCached, GetMissing, GetRead, UseBegin, ReadAgain, UseEndpoint,
   RotateBegin, RotateSave, RotatePatch, Patch, RotateRefused, RotatePatchLost, RotateRestore,
   RestoreRefused, SetByHand, WriteStore, DeleteStore

LEMMA WarningMoves ==
  ASSUME [Next]_vars
  PROVE  warned' = warned \/ Die \/ \E h \in Handlers : Reset(h) \/ RestoreRefused(h)
BY DEF Next, Administer, GetClient, Use, RotateRoot, Abort, vars, WriteBegin, DeleteBegin,
   InvalidateBegin, GetCached, GetMissing, GetRead, GetFill, UseBegin, ReadAgain, UseEndpoint,
   RotateBegin, RotateSave, RotatePatch, Patch, RotateRefused, RotatePatchLost, RotateRestore,
   SetByHand, WriteStore, DeleteStore

(* A request that has yet to drop the client stays so until it does, or    *)
(* until a refused rotation is put back.                                   *)
LEMMA PendingStep ==
  ASSUME Coherent, [Next]_vars, Pending
  PROVE  \/ Pending'
         \/ Die \/ \E h \in Handlers : Reset(h) \/ RotateRestore(h) \/ RestoreRefused(h)
<1> USE DEF Coherent, TypeOK
<1>1. PICK g \in Handlers : Changing(g) /\ (call[g].pc = "reset" \/ Rotating(g))
  BY DEF Pending
<1>2. CASE call'[g] = call[g]
  BY <1>1, <1>2 DEF Pending, Changing, Rotating
<1>3. ASSUME NEW h \in Handlers, h # g, \E c : Go(h, c) PROVE call'[g] = call[g]
  BY <1>3 DEF Go
<1>4. ASSUME NEW h \in Handlers, h # g,
             Administer(h) \/ GetClient(h) \/ Use(h) \/ RotateRoot(h) \/ Abort(h)
      PROVE  call'[g] = call[g]
  BY <1>3, <1>4 DEF Administer, GetClient, Use, RotateRoot, Abort, Finish, WriteBegin, WriteStore,
     DeleteBegin, DeleteStore, InvalidateBegin, Reset, GetCached, GetMissing, GetRead, GetFill,
     UseBegin, ReadAgain, UseEndpoint, RotateBegin, RotateSave, RotatePatch, RotateRefused,
     RotatePatchLost, RotateRestore, RestoreRefused
<1>5. ASSUME Administer(g) \/ GetClient(g) \/ Use(g) \/ RotateRoot(g) \/ Abort(g)
      PROVE  \/ Reset(g) \/ RotatePatch(g) \/ RotateRefused(g) \/ RotatePatchLost(g)
             \/ RotateRestore(g) \/ RestoreRefused(g)
  BY <1>1, <1>5 DEF Administer, GetClient, Use, RotateRoot, Abort, MayBegin, WriteBegin, WriteStore,
     DeleteBegin, DeleteStore, InvalidateBegin, GetCached, GetMissing, GetRead, GetFill,
     UseBegin, ReadAgain, UseEndpoint, RotateBegin, RotateSave, Rotating
<1>6. ASSUME RotatePatch(g) \/ RotateRefused(g) \/ RotatePatchLost(g)
      PROVE  Pending'
  <2>1. call'[g].op = call[g].op /\ call'[g].pc \in {"reset", "restore"}
    BY <1>6 DEF RotatePatch, RotateRefused, RotatePatchLost, Go, Calls
  <2> QED BY <1>1, <2>1 DEF Pending, Changing, Rotating
<1> QED BY <1>2, <1>4, <1>5, <1>6 DEF Next, SetByHand, vars

LEMMA StoreIsPending ==
  ASSUME Coherent, NEW h \in Handlers,
         WriteStore(h) \/ DeleteStore(h) \/ \E p \in Passwords : RotateSave(h, p)
  PROVE  Pending'
<1> USE DEF Coherent, TypeOK
<1>1. call'[h].op = call[h].op /\ call'[h].pc \in {"reset", "patch"}
  <2>1. CASE WriteStore(h)
    BY <2>1 DEF WriteStore, Go, Calls
  <2>2. CASE DeleteStore(h)
    BY <2>2 DEF DeleteStore, Go, Calls
  <2>3. ASSUME NEW p \in Passwords, RotateSave(h, p)
        PROVE  call'[h].op = call[h].op /\ call'[h].pc = "patch"
    <3>1. call' = [call EXCEPT ![h] = [call[h] EXCEPT !.pc = "patch", !.new = p]]
      BY <2>3 DEF RotateSave, Go
    <3>2. call \in [Handlers -> Calls] /\ DOMAIN call[h] = {"pc", "op", "mine", "new", "read"}
      BY DEF Calls
    <3> QED BY <3>1, <3>2
  <2> QED BY <2>1, <2>2, <2>3
<1>2. call[h].pc \in {"store", "drop", "save"}
  BY DEF WriteStore, DeleteStore, RotateSave
<1>3. Changing(h)
  BY <1>2 DEF StageKnown, Changing, Changes
<1> QED BY <1>1, <1>3 DEF Pending, Changing, Rotating

(* A refused rotation puts back what the cached client was built from,     *)
(* or the operator was warned before.                                      *)
LEMMA RestoreIsFresh ==
  ASSUME Coherent, NEW h \in Handlers, RotateRestore(h)
  PROVE  (client' = stored' /\ client # NoConfig) \/ warned'
BY IdleTyped DEF Coherent, RotateRestore, RotationKnown, StageKnown, Rotating

LEMMA FreshStep ==
  ASSUME Coherent, [Next]_vars PROVE ClientFresh'
<1>1. CASE Die \/ \E h \in Handlers : Reset(h)
  BY <1>1 DEF ClientFresh, Die, Reset
<1>2. CASE \E h \in Handlers : RestoreRefused(h)
  BY <1>2 DEF ClientFresh, RestoreRefused
<1>3. CASE \E h \in Handlers : RotateRestore(h)
  BY <1>3, RestoreIsFresh DEF ClientFresh
<1>4. CASE \E h \in Handlers :
             WriteStore(h) \/ DeleteStore(h) \/ \E p \in Passwords : RotateSave(h, p)
  BY <1>4, StoreIsPending DEF ClientFresh
<1>5. CASE /\ ~Die /\ \A h \in Handlers : ~Reset(h) /\ ~RestoreRefused(h) /\ ~RotateRestore(h)
           /\ stored' = stored
  <2>1. (Pending => Pending') /\ warned' = warned
    BY <1>5, PendingStep, WarningMoves
  <2>2. ASSUME NEW h \in Handlers, GetFill(h) PROVE client' = stored \/ Pending \/ warned
    BY <2>2 DEF GetFill, Coherent, FillKnown
  <2> QED BY <1>5, <2>1, <2>2, ClientMoves DEF ClientFresh, Coherent
<1> QED BY <1>1, <1>2, <1>3, <1>4, <1>5, StorageMoves

-----------------------------------------------------------------------------
(***************************************************************************)
(* The lock: between reading storage and filling the cache nobody resets   *)
(* or fills it, so what was read is stored still, or will be dropped.      *)
(***************************************************************************)
LEMMA FillingStep ==
  ASSUME Coherent, [Next]_vars, NEW g \in Handlers, call'[g].pc = "fill"
  PROVE  (call[g].pc = "fill" /\ call'[g] = call[g]) \/ GetRead(g)
<1> USE DEF Coherent, TypeOK
<1>1. ASSUME NEW h \in Handlers, Finish(h) PROVE call'[g] = call[g]
  BY <1>1, IdleTyped DEF Finish, Go
<1>2. ASSUME NEW h \in Handlers, Administer(h) PROVE call'[g] = call[g]
  <2>1. ASSUME NEW u \in Users \cup {NoUser}, NEW p \in Chosen \cup {NoPassword}, WriteBegin(h, u, p)
        PROVE  call'[g] = call[g]
    BY <2>1 DEF WriteBegin, Go, Idle, Calls
  <2>2. CASE WriteStore(h)
    BY <2>2 DEF WriteStore, Go, Calls
  <2>3. CASE DeleteBegin(h) \/ DeleteStore(h) \/ InvalidateBegin(h)
    BY <2>3 DEF DeleteBegin, DeleteStore, InvalidateBegin, Go, Idle, Calls
  <2>4. CASE Reset(h)
    BY <1>1, <2>4 DEF Reset
  <2> QED BY <1>2, <2>1, <2>2, <2>3, <2>4 DEF Administer
<1>3. ASSUME NEW h \in Handlers, GetClient(h) PROVE call'[g] = call[g] \/ GetRead(g)
  <2>1. CASE Go(h, WithClient(call[h]))
    BY <2>1, IdleTyped DEF Go, WithClient, Calls
  <2>2. CASE GetRead(h)
    BY <2>2 DEF GetRead, Go
  <2> QED BY <1>1, <1>3, <2>1, <2>2 DEF GetClient, GetCached, GetMissing, GetFill
<1>4. ASSUME NEW h \in Handlers, Use(h) PROVE call'[g] = call[g]
  BY <1>1, <1>4 DEF Use, UseBegin, ReadAgain, UseEndpoint, Go, Idle, Calls
<1>5. ASSUME NEW h \in Handlers, RotateRoot(h) PROVE call'[g] = call[g]
  <2>1. CASE RotateBegin(h)
    BY <2>1, IdleTyped DEF RotateBegin, Go, Idle, Calls
  <2>2. ASSUME NEW p \in Passwords, RotateSave(h, p) PROVE call'[g] = call[g]
    BY <2>2 DEF RotateSave, Go, Calls
  <2>3. CASE RotatePatch(h)
    BY <2>3 DEF RotatePatch, Patch, Go, Calls
  <2>4. CASE RotateRefused(h)
    BY <2>4 DEF RotateRefused, Go, Calls
  <2>5. CASE RotatePatchLost(h)
    BY <2>5 DEF RotatePatchLost, Patch, Go, Calls
  <2>6. CASE RotateRestore(h)
    BY <1>1, <2>6 DEF RotateRestore
  <2>7. CASE RestoreRefused(h)
    BY <1>1, <2>7 DEF RestoreRefused
  <2> QED BY <1>5, <2>1, <2>2, <2>3, <2>4, <2>5, <2>6, <2>7 DEF RotateRoot
<1>6. ~Die
  BY IdleTyped DEF Die
<1> QED BY <1>1, <1>2, <1>3, <1>4, <1>5, <1>6 DEF Next, Abort, SetByHand, vars

LEMMA FillStep ==
  ASSUME Coherent, [Next]_vars, NEW g \in Handlers PROVE FillKnown(g)'
<1> SUFFICES ASSUME call'[g].pc = "fill"
             PROVE  /\ client' = NoConfig
                    /\ call'[g].read \in Configs
                    /\ call'[g].read = stored' \/ Pending' \/ warned'
                    /\ \A h \in Handlers : call'[h].pc = "fill" => h = g
  BY DEF FillKnown
<1> USE DEF Coherent, TypeOK
<1>1. CASE GetRead(g)
  <2>1. \A h \in Handlers : call'[h].pc = "fill" => h = g
    BY <1>1, FillingStep DEF GetRead, Locked, Go
  <2>2. call'[g].read = stored
    BY <1>1 DEF GetRead, Go, Calls
  <2> QED BY <1>1, <2>1, <2>2 DEF GetRead
<1>2. CASE call[g].pc = "fill" /\ call'[g] = call[g]
  <2>1. FillKnown(g)
    OBVIOUS
  <2>2. \A h \in Handlers : ~Reset(h) /\ ~GetRead(h)
    BY <1>2, <2>1 DEF Reset, GetRead, Locked, FillKnown
  <2>3. ~Die
    BY IdleTyped DEF Die
  <2>4. \A h \in Handlers : ~GetFill(h)
    <3>1. SUFFICES ASSUME NEW h \in Handlers, GetFill(h) PROVE FALSE
      OBVIOUS
    <3>2. h = g
      BY <1>2, <2>1, <3>1 DEF GetFill, FillKnown
    <3>3. call'[g] = WithClient(call[g])
      BY <3>1, <3>2 DEF GetFill, Go
    <3> QED BY <3>3, IdleTyped DEF WithClient, Calls
  <2>5. client' = NoConfig
    BY <1>2, <2>1, <2>2, <2>3, <2>4, ClientMoves DEF FillKnown
  <2>6. call'[g].read = stored' \/ Pending' \/ warned'
    <3>1. CASE \E h \in Handlers : RotateRestore(h)
      BY <1>2, <2>1, <3>1, RestoreIsFresh DEF FillKnown
    <3>2. CASE \E h \in Handlers : RestoreRefused(h)
      BY <3>2 DEF RestoreRefused
    <3>3. CASE \A h \in Handlers : ~RotateRestore(h) /\ ~RestoreRefused(h)
      <4>1. warned' = warned /\ (Pending => Pending')
        BY <2>2, <2>3, <3>3, PendingStep, WarningMoves
      <4>2. stored' = stored \/ Pending'
        BY <3>3, StorageMoves, StoreIsPending
      <4> QED BY <1>2, <2>1, <4>1, <4>2 DEF FillKnown
    <3> QED BY <3>1, <3>2, <3>3
  <2>7. \A h \in Handlers : call'[h].pc = "fill" => h = g
    BY <1>2, <2>1, <2>2, FillingStep DEF FillKnown
  <2> QED BY <1>2, <2>1, <2>5, <2>6, <2>7 DEF FillKnown
<1> QED BY <1>1, <1>2, FillingStep

-----------------------------------------------------------------------------
(***************************************************************************)
(* Beside a rotation, storage and client change by its own steps only.     *)
(***************************************************************************)
LEMMA RotationIsAlone ==
  ASSUME Coherent, [Next]_vars, NEW g \in Handlers, call[g].op = "rotate",
         call'[g] = call[g], call[g].pc # "idle"
  PROVE  /\ stored' = stored
         /\ client # NoConfig => client' = client
         /\ warned => warned'
<1> USE DEF Coherent, TypeOK
<1>1. ASSUME NEW h \in Handlers, Changing(h) PROVE h = g
  BY <1>1 DEF RotatesAlone
<1>2. \A h \in Handlers : ~WriteStore(h) /\ ~DeleteStore(h)
  BY <1>1 DEF WriteStore, DeleteStore, StageKnown, Changing, Changes
<1>3. \A h \in Handlers : ~RotateRestore(h)
  <2>1. SUFFICES ASSUME NEW h \in Handlers, RotateRestore(h) PROVE FALSE
    OBVIOUS
  <2>2. h = g
    BY <1>1, <2>1 DEF RotateRestore, StageKnown, Rotating, Changing, Changes
  <2> QED BY <2>1, <2>2, IdleTyped DEF RotateRestore, Finish, Go
<1>4. \A h \in Handlers, p \in Passwords : ~RotateSave(h, p)
  <2>1. SUFFICES ASSUME NEW h \in Handlers, NEW p \in Passwords, RotateSave(h, p) PROVE FALSE
    OBVIOUS
  <2>2. h = g
    BY <1>1, <2>1 DEF RotateSave, StageKnown, Changing, Changes
  <2> QED BY <2>1, <2>2 DEF RotateSave, Go, Calls
<1>5. \A h \in Handlers : ~Reset(h)
  <2>1. SUFFICES ASSUME NEW h \in Handlers, Reset(h) PROVE FALSE
    OBVIOUS
  <2>2. h = g
    BY <1>1, <2>1 DEF Reset, StageKnown
  <2> QED BY <2>1, <2>2, IdleTyped DEF Reset, Finish, Go
<1>6. ~Die
  BY IdleTyped DEF Die, StageKnown
<1>7. \A h \in Handlers : GetFill(h) => client = NoConfig
  BY DEF GetFill, FillKnown
<1>8. warned => warned'
  BY <1>5, <1>6, WarningMoves DEF RestoreRefused
<1> QED BY <1>2, <1>3, <1>4, <1>5, <1>6, <1>7, <1>8, StorageMoves, ClientMoves

LEMMA RotationMoves ==
  ASSUME Coherent, [Next]_vars, NEW g \in Handlers, call'[g].op = "rotate", call'[g] # call[g]
  PROVE  \/ RotateBegin(g) \/ GetCached(g) \/ GetRead(g) \/ GetFill(g)
         \/ \E p \in Passwords : RotateSave(g, p)
         \/ RotatePatch(g) \/ RotateRefused(g) \/ RotatePatchLost(g)
<1> USE DEF Coherent, TypeOK
<1>1. ASSUME NEW h \in Handlers, \E c : Go(h, c) PROVE h = g
  BY <1>1 DEF Go
<1>2. ~Finish(g) /\ ~Die
  BY IdleTyped DEF Finish, Go, Die
<1>3. ASSUME NEW h \in Handlers, Administer(h) PROVE FALSE
  <2>1. h = g
    BY <1>1, <1>3 DEF Administer, Finish, WriteBegin, WriteStore, DeleteBegin, DeleteStore,
       InvalidateBegin, Reset
  <2>2. ~Reset(g)
    BY <1>2 DEF Reset
  <2>3. \A u \in Users \cup {NoUser}, p \in Chosen \cup {NoPassword} : ~WriteBegin(g, u, p)
    BY DEF WriteBegin, Go, Idle
  <2>4. ~DeleteBegin(g) /\ ~InvalidateBegin(g)
    BY DEF DeleteBegin, InvalidateBegin, Go, Idle
  <2>5. ~WriteStore(g) /\ ~DeleteStore(g)
    BY DEF WriteStore, DeleteStore, Go, Calls, StageKnown
  <2> QED BY <1>3, <2>1, <2>2, <2>3, <2>4, <2>5 DEF Administer
<1>4. ASSUME NEW h \in Handlers, GetClient(h) PROVE GetCached(g) \/ GetRead(g) \/ GetFill(g)
  BY <1>1, <1>2, <1>4 DEF GetClient, GetCached, GetMissing, GetRead, GetFill, Finish
<1>5. ASSUME NEW h \in Handlers, Use(h) PROVE FALSE
  <2>1. h = g
    BY <1>1, <1>5 DEF Use, UseBegin, ReadAgain, UseEndpoint, Finish
  <2>2. ~UseEndpoint(g)
    BY <1>2 DEF UseEndpoint
  <2>3. \A op \in {"request", "provision"} : ~UseBegin(g, op)
    BY DEF UseBegin, Go, Idle
  <2>4. ~ReadAgain(g)
    BY DEF ReadAgain, Go, Calls, StageKnown
  <2> QED BY <1>5, <2>1, <2>2, <2>3, <2>4 DEF Use
<1>6. ASSUME NEW h \in Handlers, RotateRoot(h)
      PROVE  \/ RotateBegin(g) \/ \E p \in Passwords : RotateSave(g, p)
             \/ RotatePatch(g) \/ RotateRefused(g) \/ RotatePatchLost(g)
  BY <1>1, <1>2, <1>6 DEF RotateRoot, RotateBegin, RotateSave, RotatePatch, RotateRefused,
     RotatePatchLost, RotateRestore, RestoreRefused, Finish
<1>7. \A h \in Handlers : ~Abort(h)
  BY <1>1, <1>2 DEF Abort, Finish
<1> QED BY <1>2, <1>3, <1>4, <1>5, <1>6, <1>7 DEF Next, SetByHand, vars

(* While a rotation holds the exclusive right to change, no client is      *)
(* cached but one built from what is stored.                               *)
LEMMA RotationClient ==
  ASSUME Coherent, NEW g \in Handlers, call[g].op = "rotate", call[g].pc \in {"client", "fill"}
  PROVE  ~Pending
BY DEF Coherent, Pending, RotatesAlone, Rotating

LEMMA RotationStep ==
  ASSUME Coherent, [Next]_vars, NEW g \in Handlers PROVE RotationKnown(g)'
<1> SUFFICES ASSUME call'[g].op = "rotate"
             PROVE  /\ call'[g].pc \in {"client", "fill"} => call'[g].mine = stored'
                    /\ call'[g].pc = "save" => /\ call'[g].mine = stored'
                                               /\ (client' = stored' \/ warned')
                    /\ Rotating(g)' => client' = call'[g].mine \/ warned'
  BY DEF RotationKnown
<1> USE DEF Coherent, TypeOK
<1>0. RotationKnown(g) /\ StageKnown(g) /\ FillKnown(g)
  OBVIOUS
<1>1. CASE call'[g] = call[g]
  <2>1. call[g].mine \in Configs /\ call[g].pc # "idle"
    BY <1>0, <1>1 DEF StageKnown
  <2>2. stored' = stored /\ (client # NoConfig => client' = client) /\ (warned => warned')
    BY <1>1, <2>1, RotationIsAlone
  <2> QED BY <1>0, <1>1, <2>1, <2>2, IdleTyped DEF RotationKnown, Rotating
<1>2. CASE RotateBegin(g)
  BY <1>2 DEF RotateBegin, Go, Idle, Rotating
<1>3. CASE GetCached(g)
  <2>1. call'[g] = WithClient(call[g])
    BY <1>3 DEF GetCached, Go
  <2>2. call[g].op = "rotate" /\ call'[g].pc = "save" /\ call'[g].mine = call[g].mine
    BY <2>1, IdleTyped DEF WithClient, Calls
  <2>3. client = stored \/ warned
    BY <1>3, <2>2, RotationClient DEF GetCached, ClientFresh
  <2> QED BY <1>0, <1>3, <2>2, <2>3 DEF GetCached, RotationKnown, Rotating
<1>4. CASE GetRead(g)
  <2>1. call'[g].pc = "fill" /\ call'[g].op = call[g].op /\ call'[g].mine = call[g].mine
    BY <1>4 DEF GetRead, Go, Calls
  <2> QED BY <1>0, <1>4, <2>1 DEF GetRead, RotationKnown, Rotating
<1>5. CASE GetFill(g)
  <2>1. call'[g] = WithClient(call[g])
    BY <1>5 DEF GetFill, Go
  <2>2. call[g].op = "rotate" /\ call'[g].pc = "save" /\ call'[g].mine = call[g].mine
    BY <2>1, IdleTyped DEF WithClient, Calls
  <2>3. call[g].read = stored \/ warned
    BY <1>0, <1>5, <2>2, RotationClient DEF GetFill, FillKnown
  <2> QED BY <1>0, <1>5, <2>2, <2>3 DEF GetFill, RotationKnown, Rotating
<1>6. ASSUME NEW p \in Passwords, RotateSave(g, p)
      PROVE  call'[g].pc = "patch" /\ (client' = call'[g].mine \/ warned')
  BY <1>0, <1>6 DEF RotateSave, Go, Calls, RotationKnown, StageKnown
<1>7. ASSUME RotatePatch(g) \/ RotateRefused(g) \/ RotatePatchLost(g)
      PROVE  /\ call'[g].pc \in {"reset", "restore"}
             /\ client' = call'[g].mine \/ warned'
  <2>1. /\ call'[g].pc \in {"reset", "restore"} /\ call'[g].mine = call[g].mine
        /\ Rotating(g) /\ client' = client /\ warned' = warned
    BY <1>7 DEF RotatePatch, RotateRefused, RotatePatchLost, Patch, Go, Calls, Rotating
  <2> QED BY <1>0, <2>1 DEF RotationKnown, StageKnown
<1> QED BY <1>1, <1>2, <1>3, <1>4, <1>5, <1>6, <1>7, RotationMoves DEF Rotating

-----------------------------------------------------------------------------
LEMMA CoherentInit == Init => Coherent
BY ConstantsAssumption, IdleTyped
   DEF Init, Coherent, TypeOK, StageKnown, FillKnown, RotationKnown, RotatesAlone, ClientFresh,
       Changing, Rotating, Changes

LEMMA CoherentStep == ASSUME "rotate" \in Exclusive, Coherent, [Next]_vars PROVE Coherent'
BY TypeStep, StageStep, FillStep, RotationStep, AloneStep, FreshStep DEF Coherent

(* Whatever is asked for and whatever fails, the state keeps its type.     *)
THEOREM ConfigTyped == Spec => []TypeOK
<1> DEFINE Inv == TypeOK /\ \A h \in Handlers : StageKnown(h)
<1>1. Init => Inv
  BY CoherentInit DEF Coherent
<1>2. Inv /\ [Next]_vars => Inv'
  BY TypeStep, StageStep
<1> QED BY <1>1, <1>2, PTL DEF Spec

(* The cached client is the stored configuration's, save for a change that *)
(* has yet to drop it and one the operator was warned of, whatever fails   *)
(* or dies; callers only have to keep a rotation apart from other changes  *)
(* of the configuration.                                                   *)
THEOREM ClientStaysFresh == ASSUME "rotate" \in Exclusive PROVE Spec => []ClientFresh
<1>1. Init => Coherent
  BY CoherentInit
<1>2. Coherent /\ [Next]_vars => Coherent'
  BY CoherentStep
<1>3. Coherent => ClientFresh
  BY DEF Coherent
<1> QED BY <1>1, <1>2, <1>3, PTL DEF Spec

-----------------------------------------------------------------------------
(***************************************************************************)
(* The password.  Only a rotation changes what Selectel accepts, and no    *)
(* other change of the configuration runs beside it.                       *)
(***************************************************************************)
LEMMA NotBesideRotation ==
  ASSUME Coherent, NEW g \in Handlers, NEW h \in Handlers, g # h, Rotating(g) \/ call[g].pc = "save"
  PROVE  ~Rotating(h) /\ call[h].pc \notin {"store", "drop", "save"}
BY DEF Coherent, RotatesAlone, StageKnown, Changing, Rotating, Changes

(* Most steps leave storage, Selectel and every rotation alone.            *)
QuietFor(g) ==
  \/ call'[g] = call[g]
  \/ ~Rotating(g) /\ ~Rotating(g)' /\ call'[g].pc # "store"

LEMMA QuietStep ==
  ASSUME LoginKnown, stored' = stored, actual' = actual, \A g \in Handlers : QuietFor(g)
  PROVE  (LockedOut' <=> LockedOut) /\ \A g \in Handlers : PasswordKnown(g)'
<1>1. \A g \in Handlers : /\ Rotating(g)' <=> Rotating(g)
                          /\ Rotating(g) => call'[g] = call[g]
  BY DEF QuietFor, Rotating
<1>2. LockedOut' <=> LockedOut
  BY <1>1 DEF LockedOut
<1>3. ASSUME NEW g \in Handlers PROVE PasswordKnown(g)'
  <2>1. CASE call'[g] = call[g]
    BY <2>1 DEF LoginKnown, PasswordKnown, Rotating
  <2>2. CASE ~Rotating(g)' /\ call'[g].pc # "store"
    BY <2>2 DEF PasswordKnown, Rotating
  <2> QED BY <2>1, <2>2 DEF QuietFor
<1> QED BY <1>2, <1>3

(* Nobody is about to store or to patch: what is stored decides.           *)
LEMMA CalmStep ==
  ASSUME \A g \in Handlers : ~Rotating(g)' /\ call'[g].pc # "store"
  PROVE  /\ \A g \in Handlers : PasswordKnown(g)'
         /\ LockedOut' <=> stored' # NoConfig /\ actual'[stored'.user] # stored'.password
BY DEF PasswordKnown, LockedOut, Rotating

ByFailure ==
  \/ Die \/ \E p \in Chosen : SetByHand(p)
  \/ \E h \in Handlers : RotatePatchLost(h) \/ RestoreRefused(h)

LEMMA LoginStep ==
  ASSUME LoginKnown, [Next]_vars
  PROVE  /\ ~LockedOut /\ LockedOut' => ByFailure
         /\ \A g \in Handlers : PasswordKnown(g)'
<1> DEFINE Kept == /\ ~LockedOut /\ LockedOut' => ByFailure
                   /\ \A g \in Handlers : PasswordKnown(g)'
<1> USE DEF Coherent, TypeOK
<1>0. Coherent /\ \A h \in Handlers : PasswordKnown(h)
  BY DEF LoginKnown
<1>1. ASSUME NEW h \in Handlers, Finish(h), ~Rotating(h), stored' = stored, actual' = actual
      PROVE  Kept
  <2>1. \A g \in Handlers : QuietFor(g)
    BY <1>0, <1>1, IdleTyped DEF Finish, Go, QuietFor, Rotating
  <2> QED BY <1>1, <2>1, QuietStep
<1>2. ASSUME NEW h \in Handlers, Administer(h) PROVE Kept
  <2>1. ASSUME NEW u \in Users \cup {NoUser}, NEW p \in Chosen \cup {NoPassword},
               WriteBegin(h, u, p)
        PROVE  Kept
    <3> DEFINE c == Merge(stored, u, p)
    <3>0. c \in Configs
      BY <1>0, <2>1, ConstantsAssumption DEF WriteBegin, Merge, Configs, NoConfig
    <3>1. actual[c.user] = c.password /\ call[h].pc = "idle"
      BY <2>1, <3>0 DEF WriteBegin, MayBegin, RightNow
    <3>2. call'[h].pc = "store" /\ call'[h].mine = c
      BY <1>0, <2>1 DEF WriteBegin, Go, Idle
    <3>3. \A g \in Handlers : g # h => call'[g] = call[g]
      BY <2>1 DEF WriteBegin, Go
    <3>4. \A g \in Handlers : Rotating(g)' <=> Rotating(g)
      BY <3>1, <3>2, <3>3 DEF Rotating
    <3>5. stored' = stored /\ actual' = actual
      BY <2>1 DEF WriteBegin
    <3>6. LockedOut' <=> LockedOut
      <4>1. \A g \in Handlers : Rotating(g) => call'[g] = call[g]
        BY <3>1, <3>3 DEF Rotating
      <4> QED BY <3>4, <3>5, <4>1 DEF LockedOut
    <3> HIDE DEF c
    <3> QED BY <1>0, <3>1, <3>2, <3>3, <3>5, <3>6 DEF PasswordKnown, Rotating
  <2>2. CASE WriteStore(h)
    <3>1. \A g \in Handlers : ~Rotating(g)
      BY <1>0, <2>2, NotBesideRotation DEF WriteStore, Rotating
    <3>2. /\ call'[h].pc = "reset" /\ \A g \in Handlers : g # h => call'[g] = call[g]
          /\ stored' = call[h].mine /\ actual' = actual /\ call[h].mine \in Configs
      BY <1>0, <2>2 DEF WriteStore, Go, Calls, StageKnown
    <3>3. \A g \in Handlers : ~Rotating(g)'
      BY <3>1, <3>2 DEF Rotating
    <3>4. actual[call[h].mine.user] = call[h].mine.password
      BY <1>0, <2>2 DEF WriteStore, PasswordKnown
    <3>5. \A g \in Handlers : PasswordKnown(g)'
      BY <1>0, <3>2, <3>3 DEF PasswordKnown, Rotating
    <3>6. ~LockedOut'
      BY <3>2, <3>3, <3>4 DEF LockedOut
    <3> QED BY <3>5, <3>6
  <2>3. CASE DeleteStore(h)
    <3>1. \A g \in Handlers : ~Rotating(g)
      BY <1>0, <2>3, NotBesideRotation DEF DeleteStore, Rotating
    <3>2. /\ call'[h].pc = "reset" /\ \A g \in Handlers : g # h => call'[g] = call[g]
          /\ stored' = NoConfig /\ actual' = actual
      BY <1>0, <2>3 DEF DeleteStore, Go, Calls
    <3>3. \A g \in Handlers : ~Rotating(g)'
      BY <3>1, <3>2 DEF Rotating
    <3> QED BY <1>0, <3>2, <3>3 DEF LockedOut, PasswordKnown, Rotating
  <2>4. ASSUME DeleteBegin(h) \/ InvalidateBegin(h) PROVE Kept
    <3>1. \A g \in Handlers : QuietFor(g)
      BY <1>0, <2>4 DEF DeleteBegin, InvalidateBegin, MayBegin, Go, Idle, QuietFor, Rotating
    <3> QED BY <2>4, <3>1, QuietStep DEF DeleteBegin, InvalidateBegin
  <2>5. CASE Reset(h)
    BY <1>1, <2>5 DEF Reset, Rotating
  <2> QED BY <1>2, <2>1, <2>2, <2>3, <2>4, <2>5 DEF Administer
<1>3. ASSUME NEW h \in Handlers, GetClient(h) PROVE Kept
  <2>1. call[h].pc \in {"client", "fill"} /\ stored' = stored /\ actual' = actual
    BY <1>3 DEF GetClient, GetCached, GetMissing, GetRead, GetFill
  <2>2. ASSUME Go(h, WithClient(call[h])) PROVE \A g \in Handlers : QuietFor(g)
    BY <1>0, <2>1, <2>2, IdleTyped DEF Go, WithClient, Calls, QuietFor, Rotating
  <2>3. CASE GetRead(h)
    <3>1. \A g \in Handlers : QuietFor(g)
      BY <1>0, <2>1, <2>3 DEF GetRead, Go, Calls, QuietFor, Rotating
    <3> QED BY <2>1, <3>1, QuietStep
  <2> QED BY <1>1, <1>3, <2>1, <2>2, <2>3, QuietStep
          DEF GetClient, GetCached, GetMissing, GetFill, Rotating
<1>4. ASSUME NEW h \in Handlers, Use(h) PROVE Kept
  <2>1. ASSUME NEW op \in {"request", "provision"}, UseBegin(h, op) PROVE Kept
    <3>1. \A g \in Handlers : QuietFor(g)
      BY <1>0, <2>1 DEF UseBegin, MayBegin, Go, Idle, QuietFor, Rotating
    <3> QED BY <2>1, <3>1, QuietStep DEF UseBegin
  <2>2. CASE ReadAgain(h)
    <3>1. \A g \in Handlers : QuietFor(g)
      BY <1>0, <2>2 DEF ReadAgain, Go, Calls, QuietFor, Rotating
    <3> QED BY <2>2, <3>1, QuietStep DEF ReadAgain
  <2> QED BY <1>1, <1>4, <2>1, <2>2 DEF Use, UseEndpoint, Rotating
<1>5. ASSUME NEW h \in Handlers, RotateRoot(h) PROVE Kept
  <2>1. CASE RotateBegin(h)
    <3>1. \A g \in Handlers : QuietFor(g)
      BY <1>0, <2>1 DEF RotateBegin, MayBegin, Go, Idle, QuietFor, Rotating
    <3> QED BY <2>1, <3>1, QuietStep DEF RotateBegin
  <2>2. ASSUME NEW p \in Passwords, RotateSave(h, p) PROVE Kept
    <3>1. /\ call[h].mine = stored /\ stored \in Configs /\ stored # NoConfig
          /\ call[h].pc = "save"
      BY <1>0, <2>2, IdleTyped DEF RotateSave, StageKnown, RotationKnown
    <3>2. \A g \in Handlers : ~Rotating(g)
      BY <1>0, <3>1, NotBesideRotation DEF Rotating
    <3>3. LockedOut <=> actual[call[h].mine.user] # call[h].mine.password
      BY <3>1, <3>2 DEF LockedOut
    <3>4. /\ call'[h].pc = "patch" /\ call'[h].mine = call[h].mine /\ call'[h].new = p
          /\ \A g \in Handlers : g # h => call'[g] = call[g]
          /\ stored' = [call[h].mine EXCEPT !.password = p] /\ actual' = actual
      BY <1>0, <2>2 DEF RotateSave, Go, Calls
    <3>5. Rotating(h)' /\ \A g \in Handlers : g # h => ~Rotating(g)'
      BY <3>2, <3>4 DEF Rotating
    <3>6. LockedOut' <=> actual[call[h].mine.user] # call[h].mine.password
      BY <3>4, <3>5 DEF LockedOut
    <3>7. \A g \in Handlers : PasswordKnown(g)'
      BY <1>0, <3>4, <3>5 DEF PasswordKnown, Rotating
    <3> QED BY <3>3, <3>6, <3>7
  <2>3. ASSUME Rotating(h), call'[h].pc \in {"reset", "idle"},
               \A g \in Handlers : g # h => call'[g] = call[g]
        PROVE  \A g \in Handlers : ~Rotating(g)' /\ call'[g].pc # "store"
    BY <1>0, <2>3, NotBesideRotation DEF Rotating
  <2>4. ASSUME Rotating(h)
        PROVE  /\ stored = [call[h].mine EXCEPT !.password = call[h].new]
               /\ stored \in Configs /\ stored.user = call[h].mine.user
               /\ stored.password = call[h].new /\ stored.user \in Users
               /\ \A g \in Handlers : g # h => ~Rotating(g) /\ call[g].pc # "store"
    <3>1. /\ stored = [call[h].mine EXCEPT !.password = call[h].new]
          /\ call[h].mine \in Configs /\ call[h].new \in Passwords
      BY <1>0, <2>4 DEF PasswordKnown, StageKnown, Rotating
    <3> QED BY <1>0, <2>4, <3>1, NotBesideRotation DEF Configs
  <2>5. CASE RotatePatch(h)
    <3>1. /\ Rotating(h) /\ call'[h].pc = "reset"
          /\ \A g \in Handlers : g # h => call'[g] = call[g]
      BY <1>0, <2>5 DEF RotatePatch, Patch, Go, Calls, Rotating
    <3>2. stored' = stored /\ actual'[stored.user] = stored.password
      BY <1>0, <2>4, <2>5, <3>1 DEF RotatePatch, Patch
    <3> QED BY <2>3, <3>1, <3>2, CalmStep
  <2>6. CASE RotateRefused(h) \/ RotatePatchLost(h)
    <3>1. /\ Rotating(h) /\ call'[h].pc = "restore"
          /\ call'[h].mine = call[h].mine /\ call'[h].new = call[h].new
          /\ \A g \in Handlers : g # h => call'[g] = call[g]
          /\ stored' = stored
      BY <1>0, <2>6 DEF RotateRefused, RotatePatchLost, Patch, Go, Calls, Rotating
    <3>2. Rotating(h)' /\ \A g \in Handlers : g # h => ~Rotating(g)' /\ call'[g].pc # "store"
      BY <2>4, <3>1 DEF Rotating
    <3>3. \A g \in Handlers : PasswordKnown(g)'
      BY <2>4, <3>1, <3>2 DEF PasswordKnown, Rotating
    <3>4. RotateRefused(h) => (LockedOut' <=> LockedOut)
      BY <2>4, <3>1, <3>2 DEF RotateRefused, LockedOut
    <3> QED BY <2>6, <3>3, <3>4 DEF ByFailure
  <2>7. CASE RotateRestore(h)
    <3>1. /\ Rotating(h) /\ call'[h].pc = "idle" /\ call[h].mine \in Configs
          /\ \A g \in Handlers : g # h => call'[g] = call[g]
          /\ stored' = call[h].mine /\ actual' = actual
      BY <1>0, <2>7, IdleTyped DEF RotateRestore, Finish, Go, Rotating, StageKnown
    <3>2. LockedOut <=> actual[call[h].mine.user] # call[h].mine.password
      BY <2>4, <3>1 DEF LockedOut
    <3> QED BY <2>3, <3>1, <3>2, CalmStep
  <2>8. CASE RestoreRefused(h)
    <3>1. /\ Rotating(h) /\ call'[h].pc = "idle"
          /\ \A g \in Handlers : g # h => call'[g] = call[g]
      BY <1>0, <2>8, IdleTyped DEF RestoreRefused, Finish, Go, Rotating
    <3> QED BY <2>3, <2>8, <3>1, CalmStep DEF ByFailure
  <2> QED BY <1>5, <2>1, <2>2, <2>5, <2>6, <2>7, <2>8 DEF RotateRoot
<1>6. ASSUME NEW h \in Handlers, Abort(h) PROVE Kept
  BY <1>1, <1>6 DEF Abort, Rotating
<1>7. CASE Die
  <2>1. \A g \in Handlers : ~Rotating(g)' /\ call'[g].pc # "store"
    BY <1>7, IdleTyped DEF Die, Rotating
  <2> QED BY <1>7, <2>1, CalmStep DEF ByFailure
<1>8. ASSUME NEW p \in Chosen, SetByHand(p) PROVE Kept
  <2>1. \A g \in Handlers : ~Rotating(g)' /\ call'[g].pc # "store"
    BY <1>0, <1>8 DEF SetByHand, StageKnown, Rotating, Changing, Changes
  <2> QED BY <1>8, <2>1, CalmStep DEF ByFailure
<1>9. CASE UNCHANGED vars
  <2>1. \A g \in Handlers : QuietFor(g)
    BY <1>9 DEF vars, QuietFor
  <2> QED BY <1>9, <2>1, QuietStep DEF vars
<1> QED BY <1>2, <1>3, <1>4, <1>5, <1>6, <1>7, <1>8, <1>9 DEF Next

(* An engine that has the right password loses it only by a lost answer, a *)
(* death in a rotation, a refusal to take the old password back, or the    *)
(* operator's own hand after that, whatever else fails and however the     *)
(* requests overlap, as long as callers keep a rotation apart from other   *)
(* changes of the configuration.                                           *)
THEOREM LockoutComesOfFailure ==
  ASSUME "rotate" \in Exclusive PROVE Spec => LockedOutOnlyByFailure
<1>1. Init => LoginKnown
  <2>1. Init => Coherent
    BY CoherentInit
  <2> QED BY <2>1, IdleTyped DEF Init, LoginKnown, PasswordKnown, Rotating
<1>2. LoginKnown /\ [Next]_vars => LoginKnown'
  BY CoherentStep, LoginStep DEF LoginKnown
<1>3. LoginKnown /\ [Next]_vars => [~LockedOut /\ LockedOut' => ByFailure]_vars
  BY LoginStep
<1> QED BY <1>1, <1>2, <1>3, PTL DEF Spec, LockedOutOnlyByFailure, ByFailure

=============================================================================
