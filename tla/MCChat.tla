------------------------------- MODULE MCChat -------------------------------
(* An instance of Chat, and with it of SessionOutput, for TLC: one session, *)
(* to which the game thread and the Redis thread send up to twice.          *)
EXTENDS Chat, TLC

CONSTANTS s1, game, io, chat

Sends == game :> 2 @@ io :> 1
=============================================================================
