---------------------------- MODULE MCProvisioning ----------------------------
(* A dynamic role x and a static role y whose users the engine calls alike *)
(* (x is called static-y), a user of somebody else's that x may be bound   *)
(* to, another one called like the engine's, and a bucket with a statement *)
(* of others that decoding strips of a field.                              *)
EXTENDS Provisioning, TLC

CONSTANTS x, y, new, old, cdn, bare, own, reader, admin, s3x, s3y, h1, h2, k1, k2

OneName == [r \in Roles |-> s3x]
OwnNames == [r \in Roles |-> IF r = x THEN s3x ELSE s3y]
NoTwin == [r \in Static |-> NoName]
Others == {<<own, 1>>}
Namesakes == {<<own, 1>>, <<s3x, 1>>}
Bound == [r \in Roles |-> IF r \in Static THEN {} ELSE {<<own, 1>>}]
TwoAdmins == [n \in {s3x, s3y, own, reader, admin} |-> IF n = admin THEN {1, 2} ELSE {1}]
ThreeUsers == [n \in {s3x, own, reader, admin} |-> IF n = s3x THEN {1, 2, 3} ELSE IF n = admin THEN {1, 2} ELSE {1}]
Stripped == [s \in Statements |-> bare]
Faithful == [s \in Statements |-> s]
Before == [b \in Buckets |-> IF b = old THEN [NoPolicy EXCEPT !.others = {cdn}] ELSE NoPolicy]

Symmetry == Permutations(Handlers) \cup Permutations(Keys)

=============================================================================
