---------------------------- MODULE MCLeasedKeys ----------------------------
(* Small instances of LeasedKeys for TLC. *)
EXTENDS LeasedKeys, TLC

CONSTANTS k1, k2, u1, u2, acc1, acc2, ra, rb, h1, h2

(* One account, or one for each user. *)
Home1 == u1 :> acc1
Home2 == u1 :> acc1 @@ u2 :> acc2

AnyOrder == [k \in Keys |-> 1]
InOrder == k1 :> 1 @@ k2 :> 2

Setting(u, ttl, max) == [user |-> u, ttl |-> ttl, max |-> max]

(* ttl left to the mount, or one tick, or more than the max_ttl allows. *)
Modest == {Setting(u1, 0, 2), Setting(u1, 1, 2), Setting(u1, 3, 2)}
(* A max_ttl of two that the operator later lowers to one. *)
Lowered == {Setting(u1, 2, 2), Setting(u1, 1, 1)}
(* A lease given for one tick; on one of two users it may be renewed to two. *)
Renewable == {Setting(u1, 1, 2), Setting(u2, 1, 1)}

(* A static role's key, and one named by hand like an old key of a lease. *)
StaticAndDated == {<<"static", 0>>, <<"lease", 3>>}

KeyHandlerSymmetry == Permutations(Keys) \cup Permutations(Handlers)
=============================================================================
