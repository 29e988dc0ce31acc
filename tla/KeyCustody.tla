----------------------------- MODULE KeyCustody -----------------------------
(***************************************************************************)
(* What the engine promises of an access key, whether a lease or a static  *)
(* role holds it.  A key is minted by a request; from the moment it is     *)
(* handed over it is owed to someone, and works; when that is over it is   *)
(* due to be deleted.  Nobody remembers a key that is free: one not yet    *)
(* minted, one deleted, or one that an answer never carried anywhere.      *)
(*                                                                         *)
(* LeasedKeys and StaticRoles implement this, with Remembered TRUE and     *)
(* FALSE: Vault's lease remembers a key until it no longer works, a static *)
(* role gives the old key one try.                                         *)
(***************************************************************************)
CONSTANTS
  Keys,
  Remembered   \* whether a key that is due is kept in mind until it is gone

VARIABLES
  works,  \* the keys Selectel accepts
  stage   \* what each key is to the engine

vars == <<works, stage>>

Stages == {"free", "minted", "owed", "due"}

Init ==
  /\ works = {}
  /\ stage = [k \in Keys |-> "free"]

Mint(k) ==
  /\ stage[k] = "free"
  /\ works' = works \cup {k}
  /\ stage' = [stage EXCEPT ![k] = "minted"]

(* The answer that carries the key is lost: it works, and nobody knows.    *)
MintLost(k) ==
  /\ stage[k] = "free"
  /\ works' = works \cup {k}
  /\ UNCHANGED stage

HandOver(k) ==
  /\ stage[k] = "minted" /\ k \in works
  /\ stage' = [stage EXCEPT ![k] = "owed"]
  /\ UNCHANGED works

(* A rotation: the old key is due in the same step in which the new one is *)
(* owed, so there is always one.                                           *)
Replace(old, k) ==
  /\ stage[old] = "owed"
  /\ stage[k] = "minted" /\ k \in works
  /\ stage' = [stage EXCEPT ![k] = "owed", ![old] = "due"]
  /\ UNCHANGED works

(* Some of the keys in one stage pass to another.                          *)
Pass(from, to) ==
  \E S \in SUBSET {k \in Keys : stage[k] = from} :
    stage' = [k \in Keys |-> IF k \in S THEN to ELSE stage[k]]

End ==
  /\ UNCHANGED works
  /\ Pass("owed", "due")

(* Keys stop working, but never one that is owed or about to be; some that *)
(* were due need no more thought.                                          *)
Destroy ==
  /\ works' \in SUBSET works
  /\ \A k \in works \ works' : stage[k] \in {"free", "due"}
  /\ Pass("due", "free")
  /\ Remembered => \A k \in works' : stage[k] = "due" => stage'[k] = "due"

(* A request ends before it has handed its key over.                       *)
GiveUp ==
  /\ UNCHANGED works
  /\ Pass("minted", "free")

Next ==
  \/ End \/ GiveUp \/ Destroy
  \/ \E k \in Keys : Mint(k) \/ MintLost(k) \/ HandOver(k)
  \/ \E old, k \in Keys : Replace(old, k)

Spec == Init /\ [][Next]_vars

-----------------------------------------------------------------------------
(* A key that is owed to a lease or a static role works.                   *)
OwedKeysWork == \A k \in Keys : stage[k] = "owed" => k \in works

(* The inductive invariant: so does one on its way there.                  *)
HeldKeysWork ==
  /\ stage \in [Keys -> Stages]
  /\ \A k \in Keys : stage[k] \in {"minted", "owed"} => k \in works

=============================================================================
