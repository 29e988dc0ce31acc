---------------------------- MODULE MCStaticRoles ----------------------------
(* Small instances of StaticRoles for TLC. *)
EXTENDS StaticRoles, TLC

CONSTANTS r1, r2, u1, u2, k1, k2, k3, k4, k5, h1, h2, tick

Alphabetical == r1 :> 1 @@ r2 :> 2
Alone == r1 :> 1

Symmetry == Permutations(Users) \cup Permutations(Keys) \cup Permutations(Handlers \ {Ticker})
=============================================================================
