--------------------------- MODULE PresenceProofs ---------------------------
(***************************************************************************)
(* PlayerLifecycle implements Presence, for any number of sessions,        *)
(* players, threads and packets and whatever the clients log in as.        *)
(***************************************************************************)
EXTENDS PlayerLifecycleProofs

-----------------------------------------------------------------------------
(* What a step has to leave alone for the abstract state to stay.            *)

SameWorld == UNCHANGED <<active, sessionOf, named>>

(* The end of s is on its way after a step if it was before.                 *)
LEMMA EndKept ==
  ASSUME NEW s,
         \A l \in Loops : loop'[s][l] = "erased" <=> loop[s][l] = "erased",
         \A c : c.type = "disconnect" /\ c.session = s => (c \in Queued' <=> c \in Queued)
  PROVE  EndPending(s)' <=> EndPending(s)
  BY DEF EndPending, Ending

LEMMA StageKept ==
  ASSUME NEW s,
         s \in fresh' \cup accepting' <=> s \in fresh \cup accepting,
         s \in registered' <=> s \in registered,
         s \in fresh \cup accepting \/ s \in registered \/ (EndPending(s)' <=> EndPending(s))
  PROVE  Stage(s)' = Stage(s)
  BY DEF Stage

(* A step of the implementation that is none of the abstract specification.  *)
LEMMA Stutters ==
  ASSUME \A s \in Sessions : Stage(s)' = Stage(s), SameWorld
  PROVE  UNCHANGED Abstract!vars
  BY DEF Abstract!vars, SameWorld

(* One that changes the stage of one session.                                *)
LEMMA OneMoves ==
  ASSUME NEW s \in Sessions, NEW old, NEW new, Stage(s) = old, Stage(s)' = new,
         \A r \in Sessions \ {s} : Stage(r)' = Stage(r)
  PROVE  Abstract!Becomes(s, old, new)
  BY DEF Abstract!Becomes

(* A step that leaves the network and the disconnect commands alone.         *)
LEMMA StagesKept ==
  ASSUME UNCHANGED <<accepting, fresh, open, loop, registered>>,
         \A c : c.type = "disconnect" => (c \in Queued' <=> c \in Queued)
  PROVE  \A s \in Sessions : Stage(s)' = Stage(s)
  BY EndKept, StageKept

-----------------------------------------------------------------------------
(* The accept loop.                                                          *)
LEMMA AcceptRefines ==
  ASSUME LifeInv, AcceptLoop
  PROVE  [Abstract!Next]_(Abstract!vars)
<1> USE DEF LifeInv
<1>0. Queued' = Queued /\ SameWorld
  BY DEF AcceptLoop, AcceptSession, AddSession, AcceptThrows, RejectConnection,
     loginVars, queueVars, gameVars, Queued, SameWorld
<1>1. ASSUME NEW s \in Sessions, AcceptSession(s)
      PROVE  UNCHANGED Abstract!vars
  <2>1. ASSUME NEW r \in Sessions
        PROVE  Stage(r)' = Stage(r)
    <3>1. /\ r \in fresh' \cup accepting' <=> r \in fresh \cup accepting
          /\ r \in registered' <=> r \in registered
      BY <1>1 DEF AcceptSession, Accepts
    <3>2. CASE r = s
      BY <1>1, <3>1, <3>2, StageKept DEF AcceptSession, Accepts
    <3>3. CASE r # s
      <4>1. loop'[r] = loop[r]
        BY <1>1, <3>3 DEF AcceptSession, TypeOK
      <4> QED
        BY <1>0, <3>1, <4>1, EndKept, StageKept
    <3> QED
      BY <3>2, <3>3
  <2> QED
    BY <1>0, <2>1, Stutters
<1>2. ASSUME NEW s \in Sessions, UNCHANGED loop, NEW new,
             Stage(s) = "new", Stage(s)' = new,
             \A r \in Sessions \ {s} :
               /\ r \in fresh' \cup accepting' <=> r \in fresh \cup accepting
               /\ r \in registered' <=> r \in registered
      PROVE  Abstract!Becomes(s, "new", new)
  <2>1. ASSUME NEW r \in Sessions \ {s}
        PROVE  Stage(r)' = Stage(r)
    BY <1>0, <1>2, EndKept, StageKept
  <2> QED
    BY <1>2, <2>1, OneMoves
<1>3. UNCHANGED <<active, sessionOf, named>>
  BY <1>0 DEF SameWorld
<1>4. ASSUME NEW s \in Sessions, AddSession(s)
      PROVE  Abstract!Next
  <2>1. /\ Stage(s) = "new" /\ UNCHANGED loop
        /\ \A r \in Sessions \ {s} :
             /\ r \in fresh' \cup accepting' <=> r \in fresh \cup accepting
             /\ r \in registered' <=> r \in registered
    <3>1. accepting = {s}
      BY <1>4 DEF AddSession, NetInv
    <3> QED
      BY <1>4, <3>1 DEF AddSession, Stage
  <2>2. Stage(s)' = "up"
    BY <1>4 DEF AddSession, Stage, NetInv
  <2>3. Abstract!Begin(s)
    BY <1>2, <1>3, <2>1, <2>2 DEF Abstract!Begin
  <2> QED
    BY <2>3 DEF Abstract!Next
<1>5. ASSUME NEW s \in Sessions, AcceptThrows(s) \/ RejectConnection(s)
      PROVE  Abstract!Next
  <2>1. /\ Stage(s) = "new" /\ UNCHANGED loop
        /\ \A r \in Sessions \ {s} :
             /\ r \in fresh' \cup accepting' <=> r \in fresh \cup accepting
             /\ r \in registered' <=> r \in registered
        /\ s \notin fresh' \cup accepting' \cup registered'
    BY <1>5 DEF AcceptThrows, RejectConnection, Accepts, Stage, NetInv
  <2>2. s \in fresh
    BY <1>5 DEF AcceptThrows, RejectConnection, Accepts
  <2>3. ~EndPending(s)'
    BY <1>0, <2>1, <2>2 DEF EndPending, Ending, NetInv, CommandInv
  <2>4. Stage(s)' = "gone"
    BY <2>1, <2>3 DEF Stage
  <2>5. Abstract!Refuse(s)
    BY <1>2, <1>3, <2>1, <2>4 DEF Abstract!Refuse
  <2> QED
    BY <2>5 DEF Abstract!Next
<1> QED
  BY <1>1, <1>4, <1>5 DEF AcceptLoop

-----------------------------------------------------------------------------
(* The coroutines of a session.                                              *)
LEMMA CoroutinesRefine ==
  ASSUME LifeInv,
         \/ ReadOrClose
         \/ \E s \in Sessions : WriteLoopReturns(s)
         \/ \E s \in Sessions, l \in Loops : RemoveSession(s, l)
  PROVE  [Abstract!Next]_(Abstract!vars)
<1> USE DEF LifeInv
<1>0. /\ Queued' = Queued /\ SameWorld /\ UNCHANGED <<fresh, accepting>>
  BY DEF ReadOrClose, ReadPacket, CloseSocket, WriteLoopReturns, RemoveSession,
     netVars, loginVars, queueVars, gameVars, Queued, SameWorld
<1>1. ASSUME UNCHANGED registered,
             \A r \in Sessions, k \in Loops : loop'[r][k] = "erased" <=> loop[r][k] = "erased"
      PROVE  UNCHANGED Abstract!vars
  <2>1. ASSUME NEW r \in Sessions
        PROVE  Stage(r)' = Stage(r)
    BY <1>0, <1>1, EndKept, StageKept
  <2> QED
    BY <1>0, <2>1, Stutters
<1>2. ASSUME NEW s \in Sessions, NEW l \in Loops, NEW x, x # "erased", loop[s][l] # "erased",
             loop' = [loop EXCEPT ![s][l] = x], UNCHANGED registered
      PROVE  UNCHANGED Abstract!vars
  <2>1. \A r \in Sessions, k \in Loops : loop'[r][k] = "erased" <=> loop[r][k] = "erased"
    BY <1>2 DEF TypeOK
  <2> QED
    BY <1>1, <1>2, <2>1
<1>3. CASE ReadOrClose
  BY <1>1, <1>2, <1>3 DEF ReadOrClose, ReadPacket, CloseSocket, netVars
<1>4. ASSUME NEW s \in Sessions, WriteLoopReturns(s)
      PROVE  UNCHANGED Abstract!vars
  <2>1. "write" \in Loops
    BY DEF Loops
  <2> QED
    BY <1>2, <1>4, <2>1 DEF WriteLoopReturns
<1>5. ASSUME NEW s \in Sessions, NEW l \in Loops, RemoveSession(s, l), s \notin registered
      PROVE  UNCHANGED Abstract!vars
  <2>1. /\ loop[s][l] # "erased"
        /\ loop' = [loop EXCEPT ![s][l] = NotFound(s, l)]
        /\ UNCHANGED registered
    BY <1>5 DEF RemoveSession
  <2>2. NotFound(s, l) # "erased"
    BY DEF NotFound
  <2> QED
    BY <1>2, <2>1, <2>2
<1>6. ASSUME NEW s \in Sessions, NEW l \in Loops, RemoveSession(s, l), s \in registered
      PROVE  Abstract!Next
  <2>1. /\ loop' = [loop EXCEPT ![s][l] = "erased"]
        /\ registered' = registered \ {s}
    BY <1>6 DEF RemoveSession
  <2>2. Stage(s) = "up"
    BY <1>6 DEF Stage, NetInv
  <2>3. loop'[s][l] = "erased" /\ \A r \in Sessions \ {s} : loop'[r] = loop[r]
    BY <2>1 DEF TypeOK
  <2>4. Stage(s)' = "ended"
    BY <1>0, <1>6, <2>1, <2>3 DEF Stage, EndPending, Ending, NetInv
  <2>5. ASSUME NEW r \in Sessions \ {s}
        PROVE  Stage(r)' = Stage(r)
    BY <1>0, <2>1, <2>3, EndKept, StageKept
  <2>6. Abstract!Becomes(s, "up", "ended")
    BY <2>2, <2>4, <2>5, OneMoves
  <2>7. Abstract!End(s)
    BY <1>0, <2>6 DEF Abstract!End, SameWorld
  <2> QED
    BY <2>7 DEF Abstract!Next
<1> QED
  BY <1>3, <1>4, <1>5, <1>6

(* The end is announced: to the game thread, or to nobody when no login has  *)
(* set the player id.                                                        *)
LEMMA AnnouncementRefines ==
  ASSUME LifeInv, NEW s \in Sessions, NEW l \in Loops, NEW t \in IoThreads,
         OnSessionDisconnected(s, l, t)
  PROVE  [Abstract!Next]_(Abstract!vars)
<1> USE DEF LifeInv
<1> DEFINE d == [type |-> "disconnect", player |-> playerId[s], session |-> s, seq |-> 0]
<1>0. SameWorld /\ UNCHANGED <<fresh, accepting, registered>>
  BY DEF OnSessionDisconnected, loginVars, gameVars, SameWorld
<1>1. \A r \in Sessions \ {s} : loop'[r] = loop[r]
  BY DEF OnSessionDisconnected, TypeOK
<1>2. /\ EndPending(s)
      /\ s \notin fresh \cup accepting \cup registered
  BY DEF OnSessionDisconnected, EndPending, Ending, NetInv, AnnouncedOnce
<1>3. Stage(s) = "ended"
  BY <1>2 DEF Stage
<1>4. CASE playerId[s] # NoPlayer
  <2>1. d \in Command /\ t \in Producers
    BY DEF TypeOK, Command, Producers
  <2>2. Queued' = Queued \cup {d}
    BY <1>4, <2>1, QueuedPush DEF OnSessionDisconnected
  <2>3. Ending(loop', Queued', s)
    <3>1. d \in Queued' /\ d.type = "disconnect" /\ d.session = s
      BY <2>2
    <3> HIDE DEF d
    <3> QED
      BY <3>1 DEF Ending
  <2>4. Stage(s)' = Stage(s)
    BY <1>0, <1>2, <2>3, StageKept DEF EndPending
  <2>5. ASSUME NEW r \in Sessions \ {s}
        PROVE  Stage(r)' = Stage(r)
    <3>1. \A c : c.type = "disconnect" /\ c.session = r => (c \in Queued' <=> c \in Queued)
      BY <2>2
    <3> QED
      BY <1>0, <1>1, <3>1, EndKept, StageKept
  <2> QED
    BY <1>0, <2>4, <2>5, Stutters
<1>5. CASE playerId[s] = NoPlayer
  <2>1. Queued' = Queued
    BY <1>5 DEF OnSessionDisconnected, Queued
  <2>2. ASSUME NEW r \in Sessions \ {s}
        PROVE  Stage(r)' = Stage(r)
    BY <1>0, <1>1, <2>1, EndKept, StageKept
  <2>3. Stage(s)' \in {"ended", "gone"}
    BY <1>0, <1>2 DEF Stage
  <2>4. Abstract!Becomes(s, "ended", "ended") \/ Abstract!Becomes(s, "ended", "gone")
    BY <1>3, <2>2, <2>3, OneMoves
  <2>5. named[s] = {}
    BY <1>5, IdIsNamed
  <2>6. Abstract!ApplyEnd(s)
    BY <1>0, <2>4, <2>5 DEF Abstract!ApplyEnd, SameWorld
  <2> QED
    BY <2>6 DEF Abstract!Next
<1> QED
  BY <1>4, <1>5

-----------------------------------------------------------------------------
(* The workers and the login callbacks: only a login shows.                  *)
LEMMA WorkersRefine ==
  ASSUME LifeInv, LoginCallback \/ \E w \in Workers : WorkerLoop(w)
  PROVE  [Abstract!Next]_(Abstract!vars)
<1> USE DEF LifeInv
<1>1. UNCHANGED <<accepting, fresh, open, loop, registered>>
  BY NetUntouched
<1>2. UNCHANGED <<active, sessionOf>>
  BY DEF LoginCallback, LoginChecked, LoginDropped, LoginSucceeds, WorkerLoop, PopJob,
     ProcessLogin, ProcessGamePacket, DropPacket, gameVars
<1>3. \A c : c.type = "disconnect" => (c \in Queued' <=> c \in Queued)
  <2>1. ASSUME NEW w \in Workers, ProcessGamePacket(w)
        PROVE  \A c : c.type = "disconnect" => (c \in Queued' <=> c \in Queued)
    <3> DEFINE j == Head(worker[w])
               d == [type |-> j.type, player |-> playerId[j.session],
                     session |-> j.session, seq |-> j.seq]
    <3>1. j \in Job /\ j.type \in {"enter", "input"}
      BY <2>1, ElemsTail DEF TypeOK, ProcessGamePacket
    <3>2. d \in Command /\ w \in Producers
      BY <3>1 DEF TypeOK, Command, Producers, Job
    <3>3. Queued' = Queued \cup {d}
      BY <2>1, <3>2, QueuedPush DEF ProcessGamePacket
    <3>4. d.type # "disconnect"
      BY <3>1
    <3> QED
      BY <3>3, <3>4
  <2>2. ASSUME ~(\E w \in Workers : ProcessGamePacket(w))
        PROVE  Queued' = Queued
    BY <2>2 DEF LoginCallback, LoginChecked, LoginDropped, LoginSucceeds, WorkerLoop,
       PopJob, ProcessLogin, DropPacket, queueVars, Queued
  <2> QED
    BY <2>1, <2>2
<1>4. \A s \in Sessions : Stage(s)' = Stage(s)
  BY <1>1, <1>3, StagesKept
<1>5. CASE UNCHANGED named
  BY <1>2, <1>4, <1>5, Stutters DEF SameWorld
<1>6. ASSUME NEW r \in logins, LoginSucceeds(r)
      PROVE  Abstract!Next
  <2>1. PICK s \in Sessions, p \in Ids : s = r.session /\ p = r.player
    BY DEF TypeOK, Login
  <2>2. p \in Accounts[s]
    BY <2>1 DEF AccountInv
  <2>3. named' = [named EXCEPT ![s] = @ \cup {p}]
    BY <1>6, <2>1 DEF LoginSucceeds
  <2>4. [u \in Sessions |-> Stage(u)'] = [u \in Sessions |-> Stage(u)]
    BY <1>4
  <2>5. Abstract!LogIn(p, s)
    BY <1>2, <2>2, <2>3, <2>4 DEF Abstract!LogIn
  <2> QED
    BY <2>5 DEF Abstract!Next, Ids
<1> QED
  BY <1>5, <1>6 DEF LoginCallback, LoginChecked, LoginDropped, WorkerLoop, PopJob,
     ProcessLogin, ProcessGamePacket, DropPacket, loginVars

-----------------------------------------------------------------------------
(* The game thread.                                                          *)

(* The command it handles.                                                   *)
LEMMA HandledCommand ==
  ASSUME TypeOK, batch # <<>>
  PROVE  /\ Head(batch) \in Queued
         /\ Head(batch).session \in Sessions
         /\ Head(batch).player \in Ids
<1>1. Head(batch) \in Elems(batch) /\ Head(batch) \in Command
  BY ElemsTail DEF TypeOK
<1> QED
  BY <1>1, HeldMember DEF Queued, Command

(* Commands other than an accepted entry and a disconnect.                   *)
LEMMA OtherCommandsRefine ==
  ASSUME LifeInv, GameLoop, ~EnterZoneAccepted, ~HandlePlayerDisconnect
  PROVE  UNCHANGED Abstract!vars
<1> USE DEF LifeInv
<1>1. UNCHANGED <<accepting, fresh, open, loop, registered>>
  BY NetUntouched
<1>2. SameWorld
  BY DEF GameLoop, TryPopGameCommand, StopCollecting, LookupSession, HandlePlayerInput,
     EnterZoneRefused, UpdateWorld, loginVars, gameVars, SameWorld
<1>3. \A c : c.type = "disconnect" => (c \in Queued' <=> c \in Queued)
  <2>1. CASE \E t \in Producers : TryPopGameCommand(t)
    BY <2>1, QueuedPop
  <2>2. CASE UNCHANGED <<commands, batch>>
    BY <2>2 DEF Queued
  <2>3. CASE /\ batch # <<>> /\ batch' = Tail(batch) /\ commands' = commands
             /\ Head(batch).type # "disconnect"
    BY <2>3, QueuedHandled
  <2> QED
    BY <2>1, <2>2, <2>3 DEF GameLoop, StopCollecting, LookupSession, HandlePlayerInput,
       EnterZoneRefused, UpdateWorld, Handling
<1> QED
  BY <1>1, <1>2, <1>3, StagesKept, Stutters

(* An accepted entry.                                                        *)
LEMMA EntryRefines ==
  ASSUME LifeInv, EnterZoneAccepted
  PROVE  [Abstract!Next]_(Abstract!vars)
<1> USE DEF LifeInv
<1> DEFINE c == Head(batch)
<1>0. PICK s \in Sessions, p \in Ids : s = Head(batch).session /\ p = Head(batch).player
  BY HandledCommand DEF EnterZoneAccepted, Handling, HandlePlayerDisconnect
<1>1. UNCHANGED <<accepting, fresh, open, loop, registered>>
  BY NetUntouched DEF GameLoop
<1>2. /\ phase = "handle" /\ batch # <<>> /\ batch' = Tail(batch) /\ commands' = commands
      /\ c.type = "enter" /\ p \notin active
      /\ active' = active \cup {p}
      /\ sessionOf' = [sessionOf EXCEPT ![p] = s]
  BY <1>0 DEF EnterZoneAccepted, Handling
<1>3. c \in Queued
  BY <1>2, HandledCommand
<1>4. \A x : x.type = "disconnect" => (x \in Queued' <=> x \in Queued)
  BY <1>2, QueuedHandled
<1>5. \A r \in Sessions : Stage(r)' = Stage(r)
  BY <1>1, <1>4, StagesKept
<1>6. \/ p \in named[s] /\ Stage(s) \in {"up", "ended"}
      \/ p = NoPlayer /\ Stage(s) # "new"
  <2>1. CASE p = NoPlayer
    BY <1>0, <1>2, <2>1 DEF EntryInv, Stage
  <2>2. CASE p # NoPlayer
    <3>1. p \in named[s]
      BY <1>0, <1>3, <2>2 DEF CommandInv
    <3>2. Stage(s) \in {"up", "ended"}
      BY <1>0, <1>2, <2>2 DEF HandleInv, EntryInv, Stage
    <3> QED
      BY <3>1, <3>2
  <2> QED
    BY <2>1, <2>2
<1>7. [r \in Sessions |-> Stage(r)'] = [r \in Sessions |-> Stage(r)]
  BY <1>5
<1>8. UNCHANGED named
  BY DEF EnterZoneAccepted, loginVars
<1>9. Abstract!Enter(p, s)
  BY <1>2, <1>6, <1>7, <1>8 DEF Abstract!Enter
<1> QED
  BY <1>9 DEF Abstract!Next, Ids

(* A disconnect: whoever leaves is one of the players of the session.        *)
LEMMA DisconnectRefines ==
  ASSUME LifeInv, HandlePlayerDisconnect
  PROVE  [Abstract!Next]_(Abstract!vars)
<1> USE DEF LifeInv
<1> DEFINE c == Head(batch)
<1>0. PICK s \in Sessions, p \in Ids : s = Head(batch).session /\ p = Head(batch).player
  BY HandledCommand DEF EnterZoneAccepted, Handling, HandlePlayerDisconnect
<1>1. UNCHANGED <<accepting, fresh, open, loop, registered>>
  BY NetUntouched DEF GameLoop
<1>2. /\ batch # <<>> /\ batch' = Tail(batch) /\ commands' = commands
      /\ c.type = "disconnect"
      /\ UNCHANGED <<sessionOf, named>>
  BY DEF HandlePlayerDisconnect, gameVars, loginVars
<1>3. c \in Queued
  BY <1>2, HandledCommand
<1>4. p \in named[s] /\ s \notin registered \cup accepting \cup fresh
  BY <1>0, <1>2, <1>3 DEF CommandInv
<1>5. active' = active \ {p}
  BY <1>0 DEF HandlePlayerDisconnect, TreeHoldsActive, gameVars
<1>6. Stage(s) = "ended" /\ Stage(s)' \in {"ended", "gone"}
  <2>1. EndPending(s)
    <3> HIDE DEF c
    <3> QED
      BY <1>0, <1>2, <1>3 DEF EndPending, Ending, c
  <2> QED
    BY <1>1, <1>4, <2>1 DEF Stage
<1>7. ASSUME NEW r \in Sessions \ {s}
      PROVE  Stage(r)' = Stage(r)
  <2>1. \A x : x.type = "disconnect" /\ x.session = r => (x \in Queued' <=> x \in Queued)
    BY <1>0, <1>2, QueuedHandled
  <2> QED
    BY <1>1, <2>1, EndKept, StageKept
<1>8. Abstract!Becomes(s, "ended", "ended") \/ Abstract!Becomes(s, "ended", "gone")
  BY <1>6, <1>7, OneMoves
<1>9. Abstract!ApplyEnd(s)
  BY <1>2, <1>4, <1>5, <1>8 DEF Abstract!ApplyEnd
<1> QED
  BY <1>9 DEF Abstract!Next

-----------------------------------------------------------------------------
(* The server with its threads, coroutines and queues keeps the contract of  *)
(* Presence, whatever its clients do.                                        *)
THEOREM LifecycleImplementsPresence == Spec => ImplementsPresence
<1> SUFFICES Spec => Abstract!Spec
  BY DEF ImplementsPresence
<1>1. Init => Abstract!Init
  BY DEF Init, Abstract!Init, Stage, Ids
<1>2. LifeInv /\ [Next]_vars => [Abstract!Next]_(Abstract!vars)
  <2> SUFFICES ASSUME LifeInv, [Next]_vars PROVE [Abstract!Next]_(Abstract!vars)
    OBVIOUS
  <2>1. CASE UNCHANGED vars
    <3>1. /\ UNCHANGED <<accepting, fresh, open, loop, registered>>
          /\ Queued' = Queued /\ SameWorld
      BY <2>1 DEF vars, netVars, loginVars, queueVars, gameVars, Queued, SameWorld
    <3> QED
      BY <3>1, StagesKept, Stutters
  <2>2. ASSUME NEW s \in Sessions, NEW l \in Loops, Disconnect(s, l)
        PROVE  [Abstract!Next]_(Abstract!vars)
    BY <2>2, CoroutinesRefine, AnnouncementRefines DEF Disconnect
  <2> QED
    BY <2>1, <2>2, AcceptRefines, CoroutinesRefine, WorkersRefine, OtherCommandsRefine,
       EntryRefines, DisconnectRefines DEF Next
<1> QED
  BY <1>1, <1>2, LifeInvariant, PTL DEF Spec, Abstract!Spec
=============================================================================
