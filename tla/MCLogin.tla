------------------------------ MODULE MCLogin ------------------------------
(* Instances of Login for TLC: two users, one connection.                   *)
EXTENDS Login, TLC

CONSTANTS u1, u2, c1, n1, k1, k2, l1, s1, r1, ann, bob

UsernameOf == u1 :> ann @@ u2 :> bob
NameOf     == c1 :> n1
OneSession == [l \in Logins |-> s1]
=============================================================================
