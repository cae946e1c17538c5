---------------------------- MODULE MCAuthServer ----------------------------
(* An instance of AuthServer for TLC: two users, and two characters with    *)
(* different names, so that one user may create both.                       *)
EXTENDS AuthServer, TLC

CONSTANTS u1, u2, c1, c2, n1, n2, k1, k2, r1, r2, ann, bob

UsernameOf == u1 :> ann @@ u2 :> bob
NameOf     == c1 :> n1 @@ c2 :> n2
=============================================================================
