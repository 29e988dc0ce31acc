---------------------------- MODULE BucketPolicy ----------------------------
(***************************************************************************)
(* Bucket policies, and what the engine does to one.  A policy is a record *)
(* of whom the engine's two statements name and of the statements others   *)
(* wrote: a statement of the engine's that names nobody is not there.      *)
(* Each of the engine's Sids stands in a policy at most once, as S3        *)
(* demands; the code looks at the first.                                   *)
(***************************************************************************)
Policies(users, statements) ==
  [users : SUBSET users,         \* allow-vault-issued: those who use the bucket
   readers : SUBSET users,       \* the statement that lets the engine read the policy
   others : SUBSET statements]   \* what the engine did not write

NoPolicy == [users |-> {}, readers |-> {}, others |-> {}]

(* Selectel shows a policy to those it names; a bucket without one answers *)
(* 404, which the engine takes for a policy without statements.            *)
VisibleTo(u, policy, blanket) ==
  policy = NoPolicy \/ u \in policy.users \cup policy.readers \/ policy.others \cap blanket # {}

(* Decoding and encoding: a field policyStatement does not have is lost.   *)
Decoded(policy, legible) == [policy EXCEPT !.others = {legible[s] : s \in @}]

-----------------------------------------------------------------------------
(* A user who is named already is granted nothing, whatever the statement  *)
(* allows.  With a new one the actions and resources are written afresh.   *)
grantBucketAccess(policy, user) == [policy EXCEPT !.users = @ \cup {user}]

(* A statement that names another reader is replaced.                      *)
grantPolicyRead(policy, reader) ==
  [policy EXCEPT !.readers = IF reader \in @ THEN @ ELSE {reader}]

revokeStatement(policy, user) == [policy EXCEPT !.users = IF user \in @ THEN {} ELSE @]

revokeBucketAccess(policy, user) == [policy EXCEPT !.users = @ \ {user}]

dropUnguarded(policy, sids) == [policy EXCEPT !.others = @ \ sids, !.readers = {}]

dropStatements(policy, sids) == [policy EXCEPT !.others = @ \ sids]

=============================================================================
