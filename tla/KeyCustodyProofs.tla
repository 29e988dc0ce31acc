-------------------------- MODULE KeyCustodyProofs --------------------------
(* What KeyCustody promises, for any keys and whether or not a key that is *)
(* due is remembered.                                                      *)
EXTENDS KeyCustody, TLAPS

LEMMA PassedOn ==
  ASSUME NEW from \in Stages, NEW to \in Stages, stage \in [Keys -> Stages], Pass(from, to)
  PROVE  /\ stage' \in [Keys -> Stages]
         /\ \A k \in Keys : stage'[k] = stage[k] \/ (stage[k] = from /\ stage'[k] = to)
BY DEF Pass

LEMMA HeldKeysWorkStep == HeldKeysWork /\ [Next]_vars => HeldKeysWork'
<1> SUFFICES ASSUME HeldKeysWork, [Next]_vars PROVE HeldKeysWork'
  OBVIOUS
<1> USE DEF HeldKeysWork, Stages
<1>1. ASSUME NEW k \in Keys, Mint(k) \/ MintLost(k) \/ HandOver(k) PROVE HeldKeysWork'
  BY <1>1 DEF Mint, MintLost, HandOver
<1>2. ASSUME NEW old \in Keys, NEW k \in Keys, Replace(old, k) PROVE HeldKeysWork'
  BY <1>2 DEF Replace
<1>3. CASE End
  BY <1>3, PassedOn DEF End
<1>4. CASE Destroy
  BY <1>4, PassedOn DEF Destroy
<1>5. CASE GiveUp
  BY <1>5, PassedOn DEF GiveUp
<1>6. CASE UNCHANGED vars
  BY <1>6 DEF vars
<1> QED BY <1>1, <1>2, <1>3, <1>4, <1>5, <1>6 DEF Next

(* A key that is owed to a lease or a static role works, whatever is lost  *)
(* or given up on the way: so do the leases' keys (LeasesKeepCustody) and  *)
(* those of stored roles (RolesKeepCustody), through the two refinements.  *)
THEOREM OwedKeysAlwaysWork == Spec => []OwedKeysWork
<1>1. Init => HeldKeysWork
  BY DEF Init, HeldKeysWork, Stages
<1>2. HeldKeysWork => OwedKeysWork
  BY DEF HeldKeysWork, OwedKeysWork
<1> QED BY <1>1, <1>2, HeldKeysWorkStep, PTL DEF Spec

=============================================================================
