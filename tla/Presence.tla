------------------------------ MODULE Presence ------------------------------
(***************************************************************************)
(* What the server promises about the presence of players, without its     *)
(* threads, coroutines and queues.                                         *)
(*                                                                         *)
(* A player enters through a session that was logged in as that player,    *)
(* while the session lasts or its end is not yet applied; a player that is *)
(* present cannot enter again.  When the end of a session is applied, one  *)
(* of the players it was logged in as leaves, and nobody else: all who     *)
(* entered through it, if it was logged in as one player only.             *)
(*                                                                         *)
(* The promise has three gaps, and they are the code's.  A session that    *)
(* was not logged in enters as NoPlayer, whom no end ever takes out; the   *)
(* other players of a session that was logged in as several stay; and the  *)
(* player that leaves may have entered through another session.            *)
(***************************************************************************)
CONSTANTS Players, NoPlayer, Sessions, Accounts

VARIABLES
  present,   \* players in the world
  via,       \* the session a player entered through last
  names,     \* the players each session was logged in as
  stage      \* the stage of each session

vars == <<present, via, names, stage>>

Init ==
  /\ present = {}
  /\ via \in [Players \cup {NoPlayer} -> Sessions]
  /\ names = [s \in Sessions |-> {}]
  /\ stage = [s \in Sessions |-> "new"]

Becomes(s, old, new) == stage[s] = old /\ stage' = [stage EXCEPT ![s] = new]

(* A connection becomes a session, or is turned away.                        *)
Begin(s)  == Becomes(s, "new", "up") /\ UNCHANGED <<present, via, names>>
Refuse(s) == Becomes(s, "new", "gone") /\ UNCHANGED <<present, via, names>>

(* A login: before, while and after the session lasts.                       *)
LogIn(p, s) ==
  /\ p \in Accounts[s]
  /\ names' = [names EXCEPT ![s] = @ \cup {p}]
  /\ UNCHANGED <<present, via, stage>>

(* The connection is lost; the world learns of it later.                     *)
End(s) == Becomes(s, "up", "ended") /\ UNCHANGED <<present, via, names>>

Enter(p, s) ==
  /\ \/ p \in names[s] /\ stage[s] \in {"up", "ended"}
     \/ p = NoPlayer /\ stage[s] # "new"
  /\ p \notin present
  /\ present' = present \cup {p}
  /\ via' = [via EXCEPT ![p] = s]
  /\ UNCHANGED <<names, stage>>

(* The world learns of the end, once or more often; it never does of the end *)
(* of a session that was not logged in.                                      *)
ApplyEnd(s) ==
  /\ \/ \E p \in names[s] : present' = present \ {p}
     \/ names[s] = {} /\ UNCHANGED present
  /\ Becomes(s, "ended", "ended") \/ Becomes(s, "ended", "gone")
  /\ UNCHANGED <<via, names>>

Next ==
  \E s \in Sessions :
    \/ Begin(s) \/ Refuse(s) \/ End(s) \/ ApplyEnd(s)
    \/ \E p \in Players \cup {NoPlayer} : LogIn(p, s) \/ Enter(p, s)

Spec == Init /\ [][Next]_vars
=============================================================================
