------------------------- MODULE MCPlayerLifecycle -------------------------
(***************************************************************************)
(* Instances of PlayerLifecycle for TLC: two connections, or one, of one   *)
(* player or of two.                                                       *)
(***************************************************************************)
EXTENDS PlayerLifecycle, TLC

CONSTANTS s1, s2, p1, p2, i1, w1, w2

\* Both connections log in as p1: a reconnect, or a second client.
SharedAccounts == s1 :> {p1} @@ s2 :> {p1}

\* Each connection has a player of its own.
OwnAccounts == s1 :> {p1} @@ s2 :> {p2}

\* One connection logs in as two players, one of whom has another connection.
ReloginAccounts == s1 :> {p1, p2} @@ s2 :> {p1}

\* One connection alone, which logs in as two players.
SoloAccounts == s1 :> {p1, p2}

WorkerSymmetry == Permutations({w1, w2})

\* How many packets the connections send.
TwoAndOne    == s1 :> 2 @@ s2 :> 1
TwoAndNone   == s1 :> 2 @@ s2 :> 0
Three        == s1 :> 3
None         == s1 :> 0 @@ s2 :> 0
=============================================================================
