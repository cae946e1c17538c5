----------------------- MODULE PlayerLifecycleProofs -----------------------
(***************************************************************************)
(* Proofs about PlayerLifecycle, for every number of sessions, players,    *)
(* threads and packets.                                                    *)
(***************************************************************************)
EXTENDS PlayerLifecycle, TLAPS

-----------------------------------------------------------------------------
(* The elements of a queue after a push and before a pop.                    *)

(* A push adds its argument to what the queue holds.                         *)
LEMMA ElemsAppend ==
  ASSUME NEW S, NEW q \in Seq(S), NEW x \in S
  PROVE  Elems(Append(q, x)) = Elems(q) \cup {x}
<1> DEFINE n == Len(q)
<1>1. /\ n \in Nat
      /\ Len(Append(q, x)) = n + 1
      /\ \A i \in 1..n : Append(q, x)[i] = q[i]
      /\ Append(q, x)[n + 1] = x
  OBVIOUS
<1>2. 1..(n + 1) = 1..n \cup {n + 1}
  BY <1>1
<1> QED
  BY <1>1, <1>2 DEF Elems

(* A pop takes the head and leaves the rest.                                 *)
LEMMA ElemsTail ==
  ASSUME NEW S, NEW q \in Seq(S), q # <<>>
  PROVE  /\ Head(q) \in S
         /\ Tail(q) \in Seq(S)
         /\ Head(q) \in Elems(q)
         /\ Elems(q) = Elems(Tail(q)) \cup {Head(q)}
<1> DEFINE n == Len(q)
<1>1. /\ n \in Nat
      /\ n # 0
      /\ Head(q) = q[1]
      /\ q[1] \in S
      /\ Tail(q) \in Seq(S)
      /\ Len(Tail(q)) = n - 1
      /\ \A i \in 1..(n - 1) : Tail(q)[i] = q[i + 1]
  OBVIOUS
<1>2. ASSUME NEW i \in 1..n, i # 1
      PROVE  i - 1 \in 1..(n - 1) /\ q[i] = Tail(q)[i - 1]
  BY <1>1, <1>2
<1>3. Elems(q) \subseteq Elems(Tail(q)) \cup {Head(q)}
  BY <1>1, <1>2 DEF Elems
<1>4. ASSUME NEW i \in 1..(n - 1)
      PROVE  i + 1 \in 1..n /\ Tail(q)[i] = q[i + 1]
  BY <1>1, <1>4
<1>5. Elems(Tail(q)) \cup {Head(q)} \subseteq Elems(q)
  BY <1>1, <1>4 DEF Elems
<1> QED
  BY <1>1, <1>3, <1>5 DEF Elems

(* What a queue of values of S holds are values of S.                        *)
LEMMA ElemsType ==
  ASSUME NEW S, NEW q \in Seq(S)
  PROVE  Elems(q) \subseteq S
  BY DEF Elems

-----------------------------------------------------------------------------
(* Type correctness.                                                         *)

(* A packet a client sends is a job.                                         *)
LEMMA PacketsType ==
  ASSUME TypeOK, NEW s \in Sessions
  PROVE  Packets(s) \subseteq Job
  BY ConstantsAssumption DEF Packets, Job, TypeOK, Ids, Seqs

(* The steps of the accept loop and of the coroutines keep the types.        *)
LEMMA NetTypes ==
  ASSUME TypeOK, AcceptLoop \/ ReadOrClose \/ (\E s \in Sessions : WriteLoopReturns(s))
                 \/ \E s \in Sessions, l \in Loops : Disconnect(s, l)
  PROVE  TypeOK'
<1> USE DEF netVars, loginVars, jobVars, gameVars, queueVars
<1>1. ASSUME NEW s \in Sessions,
             AcceptSession(s) \/ AddSession(s) \/ AcceptThrows(s) \/ RejectConnection(s)
      PROVE  TypeOK'
  <2>1. CASE AcceptSession(s)
    BY <2>1 DEF TypeOK, AcceptSession
  <2>2. CASE AddSession(s)
    BY <2>2 DEF TypeOK, AddSession
  <2>3. CASE AcceptThrows(s) \/ RejectConnection(s)
    BY <2>3 DEF TypeOK, AcceptThrows, RejectConnection, Accepts
  <2> QED
    BY <1>1, <2>1, <2>2, <2>3
<1>2. ASSUME NEW s \in Sessions, NEW t \in IoThreads, ReadPacket(s, t)
      PROVE  TypeOK'
  <2>1. PICK j \in Packets(s) : jobs' = [jobs EXCEPT ![t] = Append(@, j)]
    BY <1>2 DEF ReadPacket
  <2>2. j \in Job
    BY <2>1, PacketsType
  <2>3. Append(jobs[t], j) \in Seq(Job)
    BY <2>2 DEF TypeOK
  <2>4. jobs' \in [IoThreads -> Seq(Job)]
    BY <2>1, <2>3 DEF TypeOK
  <2>5. sent' \in [Sessions -> Nat]
    <3>1. sent \in [Sessions -> Nat] /\ sent' = [sent EXCEPT ![s] = sent[s] + 1]
      BY <1>2 DEF TypeOK, ReadPacket
    <3> QED
      BY <3>1
  <2> QED
    BY <1>2, <2>4, <2>5 DEF TypeOK, ReadPacket
<1>3. ASSUME NEW s \in Sessions, NEW l \in Loops, CloseSocket(s, l) \/ RemoveSession(s, l)
      PROVE  TypeOK'
  <2>1. CASE CloseSocket(s, l)
    BY <2>1 DEF TypeOK, CloseSocket
  <2>2. CASE RemoveSession(s, l)
    BY <2>2 DEF TypeOK, RemoveSession, NotFound
  <2> QED
    BY <1>3, <2>1, <2>2
<1>4. ASSUME NEW s \in Sessions, WriteLoopReturns(s)
      PROVE  TypeOK'
  BY <1>4 DEF TypeOK, WriteLoopReturns, Loops
<1>5. ASSUME NEW s \in Sessions, NEW l \in Loops, NEW t \in IoThreads,
             OnSessionDisconnected(s, l, t)
      PROVE  TypeOK'
  <2>1. [type |-> "disconnect", player |-> playerId[s], session |-> s, seq |-> 0] \in Command
    BY DEF TypeOK, Command
  <2>2. commands' \in [Producers -> Seq(Command)]
    BY <1>5, <2>1 DEF TypeOK, OnSessionDisconnected, Producers
  <2> QED
    BY <1>5, <2>2 DEF TypeOK, OnSessionDisconnected
<1> QED
  BY <1>1, <1>2, <1>3, <1>4, <1>5 DEF AcceptLoop, ReadOrClose, Disconnect

(* The steps of the workers and of the login callbacks keep the types.       *)
LEMMA WorkerTypes ==
  ASSUME TypeOK, LoginCallback \/ \E w \in Workers : WorkerLoop(w)
  PROVE  TypeOK'
<1> USE DEF netVars, loginVars, jobVars, gameVars, queueVars
<1>1. ASSUME NEW w \in Workers, NEW t \in IoThreads, PopJob(w, t)
      PROVE  TypeOK'
  <2>1. Head(jobs[t]) \in Job /\ Tail(jobs[t]) \in Seq(Job)
    BY <1>1, ElemsTail DEF TypeOK, PopJob
  <2> QED
    BY <1>1, <2>1 DEF TypeOK, PopJob
<1>2. ASSUME NEW w \in Workers, ProcessLogin(w)
      PROVE  TypeOK'
  <2> DEFINE j == Head(worker[w])
  <2>1. j \in Job
    BY <1>2, ElemsTail DEF TypeOK, ProcessLogin
  <2>2. [session |-> j.session, player |-> j.player, id |-> j.seq,
         stage |-> "verifying"] \in Login
    BY <2>1 DEF Job, Login
  <2>3. worker' \in [Workers -> Seq(Job)]
    BY <1>2 DEF TypeOK, ProcessLogin
  <2> QED
    BY <1>2, <2>2, <2>3 DEF TypeOK, ProcessLogin
<1>3. ASSUME NEW w \in Workers, ProcessGamePacket(w)
      PROVE  TypeOK'
  <2> DEFINE j == Head(worker[w])
             c == [type |-> j.type, player |-> playerId[j.session],
                   session |-> j.session, seq |-> j.seq]
  <2>1. j \in Job
    BY <1>3, ElemsTail DEF TypeOK, ProcessGamePacket
  <2>2. c \in Command
    BY <1>3, <2>1 DEF TypeOK, ProcessGamePacket, Job, Command
  <2>3. commands' \in [Producers -> Seq(Command)]
    BY <1>3, <2>2 DEF TypeOK, ProcessGamePacket, Producers
  <2>4. worker' \in [Workers -> Seq(Job)]
    BY <1>3 DEF TypeOK, ProcessGamePacket
  <2> QED
    BY <1>3, <2>3, <2>4 DEF TypeOK, ProcessGamePacket
<1>4. ASSUME NEW w \in Workers, DropPacket(w)
      PROVE  TypeOK'
  BY <1>4 DEF TypeOK, DropPacket
<1>5. ASSUME NEW r \in logins, LoginChecked(r) \/ LoginDropped(r) \/ LoginSucceeds(r)
      PROVE  TypeOK'
  <2>1. CASE LoginChecked(r)
    <3>1. logins' \subseteq Login
      <4>1. r \in Login /\ logins \subseteq Login
        BY DEF TypeOK
      <4>2. [session |-> r.session, player |-> r.player, id |-> r.id,
             stage |-> "checked"] \in Login
        BY <4>1 DEF Login
      <4> QED
        BY <2>1, <4>1, <4>2 DEF LoginChecked
    <3> QED
      BY <2>1, <3>1 DEF TypeOK, LoginChecked
  <2>2. CASE LoginDropped(r)
    BY <2>2 DEF TypeOK, LoginDropped
  <2>3. CASE LoginSucceeds(r)
    BY <2>3 DEF TypeOK, LoginSucceeds, Login
  <2> QED
    BY <1>5, <2>1, <2>2, <2>3
<1> QED
  BY <1>1, <1>2, <1>3, <1>4, <1>5 DEF WorkerLoop, LoginCallback

(* The steps of the game thread keep the types.                              *)
LEMMA GameTypes ==
  ASSUME TypeOK, GameLoop
  PROVE  TypeOK'
<1> USE DEF netVars, loginVars, jobVars, gameVars, queueVars
<1>0. ASSUME batch # <<>>
      PROVE  /\ Tail(batch) \in Seq(Command)
             /\ Head(batch).player \in Ids
             /\ Head(batch).session \in Sessions
             /\ Head(batch).seq \in Nat
  <2>1. Head(batch) \in Command /\ Tail(batch) \in Seq(Command)
    BY <1>0, ElemsTail DEF TypeOK
  <2> QED
    BY <2>1 DEF Command
<1>1. ASSUME NEW t \in Producers, TryPopGameCommand(t)
      PROVE  TypeOK'
  <2>1. Head(commands[t]) \in Command /\ Tail(commands[t]) \in Seq(Command)
    BY <1>1, ElemsTail DEF TypeOK, TryPopGameCommand
  <2> QED
    BY <1>1, <2>1 DEF TypeOK, TryPopGameCommand
<1>2. ASSUME StopCollecting \/ UpdateWorld
      PROVE  TypeOK'
  BY <1>2 DEF TypeOK, StopCollecting, UpdateWorld
<1>3. ASSUME LookupSession
      PROVE  TypeOK'
  BY <1>0, <1>3 DEF TypeOK, LookupSession
<1>4. ASSUME HandlePlayerInput
      PROVE  TypeOK'
  BY <1>0, <1>4 DEF TypeOK, HandlePlayerInput, Handling
<1>5. ASSUME EnterZoneRefused
      PROVE  TypeOK'
  BY <1>0, <1>5 DEF TypeOK, EnterZoneRefused, Handling
<1>6. ASSUME EnterZoneAccepted
      PROVE  TypeOK'
  <2> DEFINE p == Head(batch).player
  <2>1. p \in Ids /\ Head(batch).session \in Sessions /\ Tail(batch) \in Seq(Command)
    BY <1>0, <1>6 DEF EnterZoneAccepted, Handling
  <2>2. view' \in [Sessions -> SUBSET Ids]
    <3>1. PICK near \in SUBSET (tree \ {p}) :
            view' = [r \in Sessions |->
              (IF r = Head(batch).session /\ Head(batch).session \in open
               THEN near ELSE view[r]) \cup
              (IF r \in Recipients(p, active, sessionOf) THEN {p} ELSE {})]
      BY <1>6 DEF EnterZoneAccepted
    <3> QED
      BY <2>1, <3>1 DEF TypeOK
  <2>3. lastSeq' \in [Ids -> Nat] /\ sessionOf' \in [Ids -> Sessions]
    BY <1>6, <2>1 DEF TypeOK, EnterZoneAccepted
  <2> QED
    BY <1>6, <2>1, <2>2, <2>3 DEF TypeOK, EnterZoneAccepted
<1>7. ASSUME HandlePlayerDisconnect
      PROVE  TypeOK'
  <2> DEFINE p == Head(batch).player
  <2>1. p \in Ids /\ Tail(batch) \in Seq(Command)
    BY <1>0, <1>7 DEF HandlePlayerDisconnect
  <2>2. CASE p \in players
    <3>1. lastSeq' \in [Ids -> Nat]
      <4>1. lastSeq \in [Ids -> Nat] /\ lastSeq' = [lastSeq EXCEPT ![p] = 0]
        BY <1>7, <2>2 DEF TypeOK, HandlePlayerDisconnect
      <4> QED
        BY <4>1
    <3>2. view' \in [Sessions -> SUBSET Ids]
      <4>1. /\ view \in [Sessions -> SUBSET Ids]
            /\ view' = [r \in Sessions |->
                          IF r \in Recipients(p, active, sessionOf)
                          THEN view[r] \ {p} ELSE view[r]]
        BY <1>7, <2>2 DEF TypeOK, HandlePlayerDisconnect
      <4> QED
        BY <4>1
    <3> QED
      BY <1>7, <2>1, <2>2, <3>1, <3>2 DEF TypeOK, HandlePlayerDisconnect
  <2>3. CASE p \notin players
    BY <1>7, <2>1, <2>3 DEF TypeOK, HandlePlayerDisconnect
  <2> QED
    BY <2>2, <2>3
<1> QED
  BY <1>1, <1>2, <1>3, <1>4, <1>5, <1>6, <1>7 DEF GameLoop

(* Every step of the server keeps the types of its state.                    *)
THEOREM TypeCorrect == Spec => []TypeOK
<1>1. Init => TypeOK
  <2> SUFFICES ASSUME Init PROVE TypeOK
    OBVIOUS
  <2>1. PICK s \in Sessions : sessionOf = [p \in Ids |-> s]
    BY DEF Init
  <2>2. sessionOf \in [Ids -> Sessions]
    BY <2>1
  <2> QED
    BY <2>2 DEF Init, TypeOK, Ids
<1>2. TypeOK /\ [Next]_vars => TypeOK'
  <2> SUFFICES ASSUME TypeOK, [Next]_vars PROVE TypeOK'
    OBVIOUS
  <2>1. CASE UNCHANGED vars
    BY <2>1 DEF TypeOK, vars, netVars, loginVars, jobVars, gameVars, queueVars
  <2>2. CASE Next
    BY <2>2, NetTypes, WorkerTypes, GameTypes DEF Next
  <2> QED
    BY <2>1, <2>2
<1> QED
  BY <1>1, <1>2, PTL DEF Spec

-----------------------------------------------------------------------------
(* The network side: who may announce the end of a session.                  *)

(* The steps that touch no network variable.                                 *)
LEMMA NetUntouched ==
  ASSUME (\E s \in Sessions, t \in IoThreads : ReadPacket(s, t))
         \/ LoginCallback \/ GameLoop \/ (\E w \in Workers : WorkerLoop(w))
  PROVE  UNCHANGED <<accepting, fresh, open, loop, registered>>
<1>1. ASSUME NEW s \in Sessions, NEW t \in IoThreads, ReadPacket(s, t)
      PROVE  UNCHANGED <<accepting, fresh, open, loop, registered>>
  BY <1>1 DEF ReadPacket, netVars
<1>2. ASSUME LoginCallback
      PROVE  UNCHANGED <<accepting, fresh, open, loop, registered>>
  BY <1>2 DEF LoginCallback, LoginChecked, LoginDropped, LoginSucceeds, netVars
<1>3. ASSUME GameLoop
      PROVE  UNCHANGED <<accepting, fresh, open, loop, registered>>
  BY <1>3 DEF GameLoop, TryPopGameCommand, StopCollecting, LookupSession,
     HandlePlayerInput, EnterZoneRefused, EnterZoneAccepted,
     HandlePlayerDisconnect, UpdateWorld, netVars
<1>4. ASSUME NEW w \in Workers, WorkerLoop(w)
      PROVE  UNCHANGED <<accepting, fresh, open, loop, registered>>
  BY <1>4 DEF WorkerLoop, PopJob, ProcessLogin, ProcessGamePacket, DropPacket, netVars
<1> QED
  BY <1>1, <1>2, <1>3, <1>4

(* Every step keeps NetInv.                                                  *)
LEMMA NetInvStep ==
  ASSUME TypeOK, NetInv, [Next]_vars
  PROVE  NetInv'
<1> USE DEF NetInv, AnnouncedOnce
<1>0. ASSUME UNCHANGED <<accepting, fresh, open, loop, registered>>
      PROVE  NetInv'
  BY <1>0
<1>1. ASSUME NEW s \in Sessions, AcceptSession(s)
      PROVE  NetInv'
  BY <1>1 DEF AcceptSession, Accepts, TypeOK
<1>2. ASSUME NEW s \in Sessions, AddSession(s)
      PROVE  NetInv'
  BY <1>2 DEF AddSession, TypeOK
<1>3. ASSUME NEW s \in Sessions, AcceptThrows(s) \/ RejectConnection(s)
      PROVE  NetInv'
  BY <1>3 DEF AcceptThrows, RejectConnection, Accepts, TypeOK
<1>4. ASSUME NEW s \in Sessions, NEW l \in Loops, CloseSocket(s, l)
      PROVE  NetInv'
  BY <1>4 DEF CloseSocket, TypeOK
<1>5. ASSUME NEW s \in Sessions, WriteLoopReturns(s)
      PROVE  NetInv'
  BY <1>5 DEF WriteLoopReturns, TypeOK, Loops
<1>6. ASSUME NEW s \in Sessions, NEW l \in Loops, RemoveSession(s, l)
      PROVE  NetInv'
  BY <1>6 DEF RemoveSession, NotFound, TypeOK
<1>7. ASSUME NEW s \in Sessions, NEW l \in Loops, NEW t \in IoThreads,
             OnSessionDisconnected(s, l, t)
      PROVE  NetInv'
  BY <1>7 DEF OnSessionDisconnected, TypeOK
<1>8. CASE UNCHANGED vars
  BY <1>0, <1>8 DEF vars, netVars
<1> QED
  BY <1>0, <1>1, <1>2, <1>3, <1>4, <1>5, <1>6, <1>7, <1>8, NetUntouched
  DEF Next, AcceptLoop, ReadOrClose, Disconnect

(* However the two coroutines of a session fail, and however late AcceptLoop *)
(* adds it, its end is announced to the game thread at most once.            *)
THEOREM EndsAnnouncedOnce == Spec => []AnnouncedOnce
<1>1. Init => NetInv
  BY DEF Init, NetInv, AnnouncedOnce
<1>2. TypeOK /\ NetInv /\ [Next]_vars => NetInv'
  BY NetInvStep
<1>3. NetInv => AnnouncedOnce
  BY DEF NetInv
<1> QED
  BY <1>1, <1>2, <1>3, TypeCorrect, PTL DEF Spec

(* The same, for the whole network invariant.                                *)
LEMMA NetInvariant == Spec => []NetInv
<1>1. Init => NetInv
  BY DEF Init, NetInv, AnnouncedOnce
<1>2. TypeOK /\ NetInv /\ [Next]_vars => NetInv'
  BY NetInvStep
<1> QED
  BY <1>1, <1>2, TypeCorrect, PTL DEF Spec

-----------------------------------------------------------------------------
(* The world.                                                                *)

(* Steps other than an accepted entry, a disconnect and UpdateWorld leave    *)
(* the players alone.                                                        *)
LEMMA WorldUntouched ==
  ASSUME [Next]_vars,
         ~EnterZoneAccepted, ~HandlePlayerDisconnect, ~UpdateWorld
  PROVE  UNCHANGED <<players, active, sessionOf, tree, view>>
<1> USE DEF gameVars
<1>1. CASE AcceptLoop
  BY <1>1 DEF AcceptLoop, AcceptSession, AddSession, AcceptThrows, RejectConnection
<1>2. CASE ReadOrClose
  BY <1>2 DEF ReadOrClose, ReadPacket, CloseSocket
<1>3. CASE \E s \in Sessions : WriteLoopReturns(s)
  BY <1>3 DEF WriteLoopReturns
<1>4. CASE \E s \in Sessions, l \in Loops : Disconnect(s, l)
  BY <1>4 DEF Disconnect, RemoveSession, OnSessionDisconnected
<1>5. CASE \E w \in Workers : WorkerLoop(w)
  BY <1>5 DEF WorkerLoop, PopJob, ProcessLogin, ProcessGamePacket, DropPacket
<1>6. CASE LoginCallback
  BY <1>6 DEF LoginCallback, LoginChecked, LoginDropped, LoginSucceeds
<1>7. CASE GameLoop
  BY <1>7 DEF GameLoop, TryPopGameCommand, StopCollecting, LookupSession,
     HandlePlayerInput, EnterZoneRefused
<1>8. CASE UNCHANGED vars
  BY <1>8 DEF vars
<1> QED
  BY <1>1, <1>2, <1>3, <1>4, <1>5, <1>6, <1>7, <1>8 DEF Next

(* Every step keeps the spatial index equal to the active players.           *)
LEMMA TreeStep ==
  ASSUME TreeHoldsActive, [Next]_vars
  PROVE  TreeHoldsActive'
<1> USE DEF TreeHoldsActive
<1>1. CASE EnterZoneAccepted
  BY <1>1 DEF EnterZoneAccepted
<1>2. CASE HandlePlayerDisconnect
  BY <1>2 DEF HandlePlayerDisconnect, gameVars
<1>3. CASE UpdateWorld
  BY <1>3 DEF UpdateWorld
<1> QED
  BY <1>1, <1>2, <1>3, WorldUntouched

(* The spatial index and the active flags never disagree after a command.    *)
THEOREM TreeFollowsActive == Spec => []TreeHoldsActive
<1>1. Init => TreeHoldsActive
  BY DEF Init, TreeHoldsActive
<1>2. TreeHoldsActive /\ [Next]_vars => TreeHoldsActive'
  BY TreeStep
<1> QED
  BY <1>1, <1>2, PTL DEF Spec

-----------------------------------------------------------------------------
(* Entries and views.                                                        *)

(* A session that has been added never becomes fresh again, is never added   *)
(* again and is never opened again.                                          *)
LEMMA SessionsAge ==
  ASSUME TypeOK, NetInv, [Next]_vars
  PROVE  /\ fresh' \cup accepting' \subseteq fresh \cup accepting
         /\ \A s \in Sessions \ (fresh \cup accepting) :
              /\ s \in registered' => s \in registered
              /\ s \in open' => s \in open
<1> DEFINE Goal == /\ fresh' \cup accepting' \subseteq fresh \cup accepting
                   /\ \A s \in Sessions \ (fresh \cup accepting) :
                        /\ s \in registered' => s \in registered
                        /\ s \in open' => s \in open
<1>0. ASSUME UNCHANGED <<accepting, fresh, open, loop, registered>>
      PROVE  Goal
  BY <1>0
<1>1. ASSUME NEW s \in Sessions,
             AcceptSession(s) \/ AddSession(s) \/ AcceptThrows(s) \/ RejectConnection(s)
      PROVE  Goal
  BY <1>1 DEF AcceptSession, AddSession, AcceptThrows, RejectConnection, Accepts
<1>2. ASSUME NEW s \in Sessions, NEW l \in Loops, CloseSocket(s, l) \/ RemoveSession(s, l)
      PROVE  Goal
  BY <1>2 DEF CloseSocket, RemoveSession
<1>3. ASSUME NEW s \in Sessions, WriteLoopReturns(s)
      PROVE  Goal
  BY <1>3 DEF WriteLoopReturns
<1>4. ASSUME NEW s \in Sessions, NEW l \in Loops, NEW t \in IoThreads,
             OnSessionDisconnected(s, l, t)
      PROVE  Goal
  BY <1>4 DEF OnSessionDisconnected
<1>5. CASE UNCHANGED vars
  BY <1>0, <1>5 DEF vars, netVars
<1> QED
  BY <1>0, <1>1, <1>2, <1>3, <1>4, <1>5, NetUntouched
  DEF Next, AcceptLoop, ReadOrClose, Disconnect

(* Only the game thread touches the batch and its phase.                     *)
LEMMA BatchUntouched ==
  ASSUME [Next]_vars, ~GameLoop
  PROVE  UNCHANGED <<batch, phase>>
<1> USE DEF queueVars
<1>1. CASE AcceptLoop
  BY <1>1 DEF AcceptLoop, AcceptSession, AddSession, AcceptThrows, RejectConnection
<1>2. CASE ReadOrClose
  BY <1>2 DEF ReadOrClose, ReadPacket, CloseSocket
<1>3. CASE \E s \in Sessions : WriteLoopReturns(s)
  BY <1>3 DEF WriteLoopReturns
<1>4. CASE \E s \in Sessions, l \in Loops : Disconnect(s, l)
  BY <1>4 DEF Disconnect, RemoveSession, OnSessionDisconnected
<1>5. CASE \E w \in Workers : WorkerLoop(w)
  BY <1>5 DEF WorkerLoop, PopJob, ProcessLogin, ProcessGamePacket, DropPacket
<1>6. CASE LoginCallback
  BY <1>6 DEF LoginCallback, LoginChecked, LoginDropped, LoginSucceeds
<1>7. CASE UNCHANGED vars
  BY <1>7 DEF vars
<1> QED
  BY <1>1, <1>2, <1>3, <1>4, <1>5, <1>6, <1>7 DEF Next

(* Every step keeps EntryInv.                                                *)
LEMMA EntryInvStep ==
  ASSUME TypeOK, NetInv, EntryInv, [Next]_vars
  PROVE  EntryInv'
<1>1. ASSUME NEW p \in active'
      PROVE  sessionOf'[p] \notin fresh' \cup accepting'
  <2>1. CASE EnterZoneAccepted
    <3>1. Head(batch).session \notin fresh \cup accepting /\ p \in Ids
      BY <2>1, <1>1, GameTypes DEF EntryInv, EnterZoneAccepted, Handling, GameLoop, TypeOK
    <3>2. CASE p = Head(batch).player
      BY <2>1, <3>1, <3>2, SessionsAge DEF EnterZoneAccepted, TypeOK
    <3>3. CASE p # Head(batch).player
      BY <1>1, <2>1, <3>1, <3>3, SessionsAge DEF EnterZoneAccepted, EntryInv, TypeOK
    <3> QED
      BY <3>2, <3>3
  <2>2. CASE HandlePlayerDisconnect
    BY <1>1, <2>2, SessionsAge DEF HandlePlayerDisconnect, EntryInv, gameVars
  <2>3. CASE UpdateWorld
    BY <1>1, <2>3, SessionsAge DEF UpdateWorld, EntryInv
  <2> QED
    BY <1>1, <2>1, <2>2, <2>3, WorldUntouched, SessionsAge DEF EntryInv
<1>2. ASSUME phase' = "handle"
      PROVE  batch' # <<>> /\ Head(batch').session \notin fresh' \cup accepting'
  <2>1. CASE LookupSession
    BY <1>2, <2>1, SessionsAge DEF LookupSession, NetInv
  <2>2. CASE GameLoop /\ ~LookupSession
    BY <1>2, <2>2 DEF GameLoop, TryPopGameCommand, StopCollecting,
       HandlePlayerInput, EnterZoneRefused, EnterZoneAccepted,
       HandlePlayerDisconnect, UpdateWorld
  <2>3. CASE ~GameLoop
    BY <1>2, <2>3, BatchUntouched, SessionsAge DEF EntryInv
  <2> QED
    BY <2>1, <2>2, <2>3
<1> QED
  BY <1>1, <1>2 DEF EntryInv

(* Every step keeps the views current.                                       *)
LEMMA ViewStep ==
  ASSUME TypeOK, NetInv, EntryInv, TreeHoldsActive, ViewsAreCurrent, [Next]_vars
  PROVE  ViewsAreCurrent'
<1>1. CASE EnterZoneAccepted
  <2> DEFINE p == Head(batch).player
             s == Head(batch).session
  <2>0. UNCHANGED <<registered, open>>
    BY <1>1, NetUntouched DEF GameLoop
  <2>1. PICK near \in SUBSET (tree \ {p}) :
          view' = [r \in Sessions |->
                     (IF r = s /\ s \in open THEN near ELSE view[r]) \cup
                     (IF r \in Recipients(p, active, sessionOf) THEN {p} ELSE {})]
    BY <1>1 DEF EnterZoneAccepted
  <2>2. /\ active' = active \cup {p}
        /\ sessionOf' = [sessionOf EXCEPT ![p] = s]
        /\ p \notin active
    BY <1>1 DEF EnterZoneAccepted
  <2>3. near \subseteq active
    BY <2>1 DEF TreeHoldsActive
  <2>4. ASSUME NEW q \in active', sessionOf'[q] \in registered \cap open
        PROVE  view'[sessionOf'[q]] \subseteq active'
    <3>1. CASE q = p
      <4>1. p \in Ids /\ s \in Sessions
        BY <1>1, GameTypes, <2>2, <2>4, <3>1 DEF GameLoop, TypeOK
      <4>2. sessionOf'[q] = s /\ s \in open
        BY <2>2, <2>4, <3>1, <4>1 DEF TypeOK
      <4> QED
        BY <2>1, <2>2, <2>3, <4>1, <4>2
    <3>2. CASE q # p
      <4>1. q \in active /\ sessionOf'[q] = sessionOf[q]
        BY <2>2, <2>4, <3>2 DEF TypeOK
      <4>2. view[sessionOf[q]] \subseteq active /\ sessionOf[q] \in Sessions
        BY <2>4, <4>1 DEF ViewsAreCurrent, TypeOK
      <4> QED
        BY <2>1, <2>2, <2>3, <4>1, <4>2
    <3> QED
      BY <3>1, <3>2
  <2> QED
    BY <2>0, <2>4 DEF ViewsAreCurrent
<1>2. CASE HandlePlayerDisconnect
  <2> DEFINE p == Head(batch).player
  <2>0. UNCHANGED <<registered, open>>
    BY <1>2, NetUntouched DEF GameLoop
  <2>1. CASE p \notin players
    BY <1>2, <2>0, <2>1 DEF HandlePlayerDisconnect, ViewsAreCurrent, gameVars, TreeHoldsActive
  <2>2. CASE p \in players
    <3>1. /\ active' = active \ {p}
          /\ sessionOf' = sessionOf
          /\ view' = [r \in Sessions |->
                        IF r \in Recipients(p, active, sessionOf)
                        THEN view[r] \ {p} ELSE view[r]]
      BY <1>2, <2>2 DEF HandlePlayerDisconnect
    <3>2. ASSUME NEW q \in active', sessionOf'[q] \in registered \cap open
          PROVE  view'[sessionOf'[q]] \subseteq active'
      <4>1. /\ q \in active /\ q # p
            /\ sessionOf[q] \in Sessions
            /\ view[sessionOf[q]] \subseteq active
        BY <3>1, <3>2 DEF ViewsAreCurrent, TypeOK
      <4>2. sessionOf[q] \in Recipients(p, active, sessionOf)
        BY <3>1, <3>2, <4>1 DEF Recipients
      <4> QED
        BY <3>1, <4>1, <4>2
    <3> QED
      BY <2>0, <3>2 DEF ViewsAreCurrent
  <2> QED
    BY <2>1, <2>2
<1>3. CASE ~EnterZoneAccepted /\ ~HandlePlayerDisconnect
  <2>1. UNCHANGED <<active, sessionOf, view>>
    BY <1>3, WorldUntouched DEF UpdateWorld
  <2>2. ASSUME NEW q \in active, sessionOf[q] \in registered' \cap open'
        PROVE  view[sessionOf[q]] \subseteq active
    <3>1. sessionOf[q] \in Sessions \ (fresh \cup accepting)
      BY DEF EntryInv, TypeOK
    <3> QED
      BY <2>2, <3>1, SessionsAge DEF ViewsAreCurrent
  <2> QED
    BY <2>1, <2>2 DEF ViewsAreCurrent
<1> QED
  BY <1>1, <1>2, <1>3

(* Whoever is shown to an active, connected player is active: no interleaving *)
(* of lookups, closes and commands loses an S_PlayerLeft.                     *)
THEOREM ViewsStayCurrent == Spec => []ViewsAreCurrent
<1> DEFINE Inv == EntryInv /\ TreeHoldsActive /\ ViewsAreCurrent
<1>1. Init => Inv
  BY DEF Init, EntryInv, TreeHoldsActive, ViewsAreCurrent
<1>2. TypeOK /\ NetInv /\ Inv /\ [Next]_vars => Inv'
  BY EntryInvStep, TreeStep, ViewStep
<1>3. Inv => ViewsAreCurrent
  OBVIOUS
<1> QED
  BY <1>1, <1>2, <1>3, TypeCorrect, NetInvariant, PTL DEF Spec

(* Whoever is let in came through a registered session.                      *)
LEMMA EntryInvariant == Spec => []EntryInv
<1>1. Init => EntryInv
  BY DEF Init, EntryInv
<1>2. TypeOK /\ NetInv /\ EntryInv /\ [Next]_vars => EntryInv'
  BY EntryInvStep
<1> QED
  BY <1>1, <1>2, TypeCorrect, NetInvariant, PTL DEF Spec

-----------------------------------------------------------------------------
(* What is queued for the game thread.                                       *)

(* What it means to be held by the queues or the batch.                      *)
LEMMA HeldMember ==
  ASSUME NEW queues, NEW collected
  PROVE  \A c : c \in Held(queues, collected)
                 <=> \/ \E t \in Producers : c \in Elems(queues[t])
                     \/ c \in Elems(collected)
<1> DEFINE parts == {Elems(queues[t]) : t \in Producers}
<1> TAKE c
<1>0. Held(queues, collected) = (UNION parts) \cup Elems(collected)
  BY Zenon DEF Held
<1>1. c \in Held(queues, collected) <=> c \in UNION parts \/ c \in Elems(collected)
  <2> HIDE DEF parts
  <2> QED
    BY <1>0
<1>2. c \in UNION parts <=> \E X \in parts : c \in X
  <2> HIDE DEF parts
  <2> QED
    OBVIOUS
<1>3. (\E X \in parts : c \in X) <=> \E t \in Producers : c \in Elems(queues[t])
  BY Zenon
<1> QED
  BY <1>1, <1>2, <1>3

(* A push.                                                                   *)
LEMMA QueuedPush ==
  ASSUME TypeOK, NEW t \in Producers, NEW c \in Command,
         commands' = [commands EXCEPT ![t] = Append(@, c)], batch' = batch
  PROVE  Queued' = Queued \cup {c}
<1>1. Elems(commands'[t]) = Elems(commands[t]) \cup {c}
  BY ElemsAppend DEF TypeOK
<1>2. \A u \in Producers \ {t} : Elems(commands'[u]) = Elems(commands[u])
  BY DEF TypeOK
<1>3. \A x : x \in Held(commands', batch') <=> x \in Held(commands, batch) \/ x = c
  BY <1>1, <1>2, HeldMember
<1> QED
  BY <1>3 DEF Queued

(* A pop moves a command into the batch.                                     *)
LEMMA QueuedPop ==
  ASSUME TypeOK, NEW t \in Producers, TryPopGameCommand(t)
  PROVE  Queued' = Queued
<1> DEFINE c == Head(commands[t])
<1>1. /\ commands[t] \in Seq(Command)
      /\ commands[t] # <<>>
      /\ batch \in Seq(Command)
      /\ commands' = [commands EXCEPT ![t] = Tail(@)]
      /\ batch' = Append(batch, c)
      /\ t \in DOMAIN commands
  BY DEF TypeOK, TryPopGameCommand
<1>2. /\ c \in Command
      /\ Elems(commands[t]) = Elems(Tail(commands[t])) \cup {c}
  BY <1>1, ElemsTail
<1>3. Elems(batch') = Elems(batch) \cup {c}
  BY <1>1, <1>2, ElemsAppend
<1>4. /\ Elems(commands'[t]) \cup {c} = Elems(commands[t])
      /\ \A u \in Producers \ {t} : Elems(commands'[u]) = Elems(commands[u])
  BY <1>1, <1>2 DEF TypeOK
<1>5. \A x : x \in Held(commands', batch') <=> x \in Held(commands, batch)
  BY <1>3, <1>4, HeldMember
<1> QED
  BY <1>5 DEF Queued

(* The end of a command.                                                     *)
LEMMA QueuedHandled ==
  ASSUME TypeOK, batch # <<>>, batch' = Tail(batch), commands' = commands
  PROVE  /\ Head(batch) \in Queued
         /\ Queued = Queued' \cup {Head(batch)}
<1>1. Elems(batch) = Elems(batch') \cup {Head(batch)}
  BY ElemsTail DEF TypeOK
<1>2. \A x : x \in Held(commands, batch)
               <=> x \in Held(commands', batch') \/ x = Head(batch)
  BY <1>1, HeldMember
<1> QED
  BY <1>2 DEF Queued

(* Queued commands have their type.                                          *)
LEMMA QueuedType ==
  ASSUME TypeOK
  PROVE  Queued \subseteq Command
<1>1. ASSUME NEW t \in Producers PROVE Elems(commands[t]) \subseteq Command
  BY ElemsType DEF TypeOK
<1>2. Elems(batch) \subseteq Command
  BY ElemsType DEF TypeOK
<1>3. \A x : x \in Held(commands, batch) => x \in Command
  BY <1>1, <1>2, HeldMember
<1> QED
  BY <1>3 DEF Queued

-----------------------------------------------------------------------------
(* Logins.                                                                   *)

(* The jobs and logins of other steps than these are left alone.             *)
LEMMA LoginUntouched ==
  ASSUME [Next]_vars, ~LoginCallback,
         ~(\E w \in Workers : WorkerLoop(w)),
         ~(\E s \in Sessions, t \in IoThreads : ReadPacket(s, t))
  PROVE  UNCHANGED <<playerId, named, logins, jobs, worker>>
<1> USE DEF loginVars, jobVars
<1>1. CASE AcceptLoop
  BY <1>1 DEF AcceptLoop, AcceptSession, AddSession, AcceptThrows, RejectConnection
<1>2. CASE ReadOrClose
  BY <1>2 DEF ReadOrClose, CloseSocket
<1>3. CASE \E s \in Sessions : WriteLoopReturns(s)
  BY <1>3 DEF WriteLoopReturns
<1>4. CASE \E s \in Sessions, l \in Loops : Disconnect(s, l)
  BY <1>4 DEF Disconnect, RemoveSession, OnSessionDisconnected
<1>5. CASE GameLoop
  BY <1>5 DEF GameLoop, TryPopGameCommand, StopCollecting, LookupSession,
     HandlePlayerInput, EnterZoneRefused, EnterZoneAccepted,
     HandlePlayerDisconnect, UpdateWorld
<1>6. CASE UNCHANGED vars
  BY <1>6 DEF vars
<1> QED
  BY <1>1, <1>2, <1>3, <1>4, <1>5, <1>6 DEF Next

(* Every step keeps AccountInv.                                              *)
LEMMA AccountInvStep ==
  ASSUME TypeOK, AccountInv, [Next]_vars
  PROVE  AccountInv'
<1> USE DEF AccountInv
<1>1. ASSUME NEW s \in Sessions, NEW t \in IoThreads, ReadPacket(s, t)
      PROVE  AccountInv'
  <2>1. PICK j \in Packets(s) : jobs' = [jobs EXCEPT ![t] = Append(@, j)]
    BY <1>1 DEF ReadPacket
  <2>2. j \in Job /\ (j.type = "login" => j.player \in Accounts[j.session])
    BY <2>1, PacketsType DEF Packets
  <2>3. Elems(jobs'[t]) = Elems(jobs[t]) \cup {j}
    BY <2>1, <2>2, ElemsAppend DEF TypeOK
  <2>4. \A u \in IoThreads \ {t} : jobs'[u] = jobs[u]
    BY <2>1 DEF TypeOK
  <2> QED
    BY <1>1, <2>2, <2>3, <2>4 DEF ReadPacket, loginVars
<1>2. ASSUME NEW w \in Workers, NEW t \in IoThreads, PopJob(w, t)
      PROVE  AccountInv'
  <2> DEFINE j == Head(jobs[t])
  <2>1. /\ j \in Job
        /\ Elems(jobs[t]) = Elems(Tail(jobs[t])) \cup {j}
    BY <1>2, ElemsTail DEF PopJob, TypeOK
  <2>2. /\ jobs'[t] = Tail(jobs[t])
        /\ \A u \in IoThreads \ {t} : jobs'[u] = jobs[u]
        /\ worker'[w] = <<j>>
        /\ \A u \in Workers \ {w} : worker'[u] = worker[u]
        /\ UNCHANGED <<playerId, named, logins>>
    BY <1>2 DEF PopJob, TypeOK, loginVars
  <2>3. Elems(<<j>>) = {j}
    BY DEF Elems
  <2> QED
    BY <2>1, <2>2, <2>3
<1>3. ASSUME NEW w \in Workers,
             ProcessLogin(w) \/ ProcessGamePacket(w) \/ DropPacket(w)
      PROVE  AccountInv'
  <2> DEFINE j == Head(worker[w])
  <2>1. j \in Elems(worker[w])
    BY <1>3, ElemsTail DEF TypeOK, ProcessLogin, ProcessGamePacket, DropPacket
  <2>2. /\ worker'[w] = <<>>
        /\ \A u \in Workers \ {w} : worker'[u] = worker[u]
        /\ UNCHANGED <<playerId, named, jobs>>
    BY <1>3 DEF ProcessLogin, ProcessGamePacket, DropPacket, TypeOK, loginVars
  <2>3. Elems(<<>>) = {}
    BY DEF Elems
  <2>4. ASSUME NEW r \in logins'
        PROVE  r.player \in Accounts[r.session]
    BY <1>3, <2>1, <2>4 DEF ProcessLogin, ProcessGamePacket, DropPacket, loginVars
  <2> QED
    BY <2>2, <2>3, <2>4
<1>4. ASSUME NEW r \in logins, LoginChecked(r) \/ LoginDropped(r)
      PROVE  AccountInv'
  BY <1>4 DEF LoginChecked, LoginDropped, jobVars
<1>5. ASSUME NEW r \in logins, LoginSucceeds(r)
      PROVE  AccountInv'
  <2>1. r.session \in Sessions /\ r.player \in Accounts[r.session]
    BY DEF TypeOK, Login
  <2>2. /\ playerId' = [playerId EXCEPT ![r.session] = r.player]
        /\ named' = [named EXCEPT ![r.session] = named[r.session] \cup {r.player}]
        /\ logins' \subseteq logins
        /\ UNCHANGED <<jobs, worker>>
    BY <1>5 DEF LoginSucceeds, jobVars
  <2>3. ASSUME NEW s \in Sessions
        PROVE  /\ named'[s] \subseteq Accounts[s]
               /\ IF named'[s] = {} THEN playerId'[s] = NoPlayer
                  ELSE playerId'[s] \in named'[s]
    <3>1. CASE s = r.session
      BY <2>1, <2>2, <3>1 DEF TypeOK
    <3>2. CASE s # r.session
      BY <2>2, <3>2 DEF TypeOK
    <3> QED
      BY <3>1, <3>2
  <2> QED
    BY <2>2, <2>3
<1>6. ASSUME UNCHANGED <<playerId, named, logins, jobs, worker>>
      PROVE  AccountInv'
  BY <1>6
<1> QED
  BY <1>1, <1>2, <1>3, <1>4, <1>5, <1>6, LoginUntouched DEF WorkerLoop, LoginCallback

-----------------------------------------------------------------------------
(* Commands.                                                                 *)

(* Steps that push nothing and handle nothing leave what is queued alone.    *)
LEMMA QueuedUntouched ==
  ASSUME TypeOK, [Next]_vars,
         ~(\E s \in Sessions, l \in Loops, t \in IoThreads : OnSessionDisconnected(s, l, t)),
         ~(\E w \in Workers : ProcessGamePacket(w)),
         ~(\E t \in Producers : TryPopGameCommand(t)),
         ~(batch # <<>> /\ batch' = Tail(batch) /\ commands' = commands)
  PROVE  Queued' = Queued
<1> USE DEF queueVars
<1> SUFFICES UNCHANGED <<commands, batch>>
  BY DEF Queued
<1>1. CASE AcceptLoop
  BY <1>1 DEF AcceptLoop, AcceptSession, AddSession, AcceptThrows, RejectConnection
<1>2. CASE ReadOrClose
  BY <1>2 DEF ReadOrClose, ReadPacket, CloseSocket
<1>3. CASE \E s \in Sessions : WriteLoopReturns(s)
  BY <1>3 DEF WriteLoopReturns
<1>4. CASE \E s \in Sessions, l \in Loops : Disconnect(s, l)
  BY <1>4 DEF Disconnect, RemoveSession
<1>5. CASE \E w \in Workers : WorkerLoop(w)
  BY <1>5 DEF WorkerLoop, PopJob, ProcessLogin, DropPacket
<1>6. CASE LoginCallback
  BY <1>6 DEF LoginCallback, LoginChecked, LoginDropped, LoginSucceeds
<1>7. CASE GameLoop
  BY <1>7 DEF GameLoop, StopCollecting, LookupSession, Handling,
     HandlePlayerInput, EnterZoneRefused, EnterZoneAccepted,
     HandlePlayerDisconnect, UpdateWorld
<1>8. CASE UNCHANGED vars
  BY <1>8 DEF vars
<1> QED
  BY <1>1, <1>2, <1>3, <1>4, <1>5, <1>6, <1>7, <1>8 DEF Next

(* A session was logged in as whoever it was logged in as before.            *)
LEMMA NamesStay ==
  ASSUME TypeOK, [Next]_vars, NEW s \in Sessions
  PROVE  named[s] \subseteq named'[s]
<1>1. ASSUME NEW r \in logins, LoginSucceeds(r)
      PROVE  named[s] \subseteq named'[s]
  BY <1>1 DEF LoginSucceeds, TypeOK
<1>2. ASSUME NEW r \in logins, LoginChecked(r) \/ LoginDropped(r)
      PROVE  named[s] \subseteq named'[s]
  BY <1>2 DEF LoginChecked, LoginDropped
<1>3. ASSUME NEW w \in Workers, WorkerLoop(w)
      PROVE  named[s] \subseteq named'[s]
  BY <1>3 DEF WorkerLoop, PopJob, ProcessLogin, ProcessGamePacket, DropPacket, loginVars
<1>4. ASSUME NEW u \in Sessions, NEW t \in IoThreads, ReadPacket(u, t)
      PROVE  named[s] \subseteq named'[s]
  BY <1>4 DEF ReadPacket, loginVars
<1> QED
  BY <1>1, <1>2, <1>3, <1>4, LoginUntouched DEF LoginCallback

(* The id of a session is that of one of its logins, if there were any.      *)
LEMMA IdIsNamed ==
  ASSUME AccountInv, NEW s \in Sessions
  PROVE  /\ playerId[s] # NoPlayer <=> named[s] # {}
         /\ playerId[s] # NoPlayer => playerId[s] \in named[s]
<1>1. NoPlayer \notin Accounts[s]
  BY ConstantsAssumption
<1>2. named[s] \subseteq Accounts[s]
  BY DEF AccountInv
<1>3. IF named[s] = {} THEN playerId[s] = NoPlayer ELSE playerId[s] \in named[s]
  BY DEF AccountInv
<1> QED
  BY <1>1, <1>2, <1>3

(* A command of a session that is gone stays that of a session that is gone. *)
LEMMA GoneStaysGone ==
  ASSUME TypeOK, NetInv, [Next]_vars, NEW s \in Sessions,
         s \notin registered \cup accepting \cup fresh
  PROVE  s \notin registered' \cup accepting' \cup fresh'
  BY SessionsAge

(* Every step keeps CommandInv.                                              *)
LEMMA CommandInvStep ==
  ASSUME TypeOK, NetInv, AccountInv, CommandInv, [Next]_vars
  PROVE  CommandInv'
<1> DEFINE Good(c) == /\ c.player # NoPlayer => c.player \in named'[c.session]
                      /\ c.type = "disconnect" =>
                           /\ c.player # NoPlayer
                           /\ c.session \notin registered' \cup accepting' \cup fresh'
<1>1. ASSUME NEW c \in Queued
      PROVE  Good(c)
  <2>1. c.session \in Sessions
    BY QueuedType DEF Command
  <2> QED
    BY <2>1, NamesStay, GoneStaysGone DEF CommandInv
<1>2. ASSUME NEW s \in Sessions, NEW l \in Loops, NEW t \in IoThreads,
             OnSessionDisconnected(s, l, t), NEW c \in Queued'
      PROVE  Good(c)
  <2> DEFINE d == [type |-> "disconnect", player |-> playerId[s], session |-> s, seq |-> 0]
  <2>1. CASE playerId[s] = NoPlayer
    <3>1. Queued' = Queued
      BY <1>2, <2>1 DEF OnSessionDisconnected, Queued
    <3> QED
      BY <1>1, <1>2, <3>1
  <2>2. CASE playerId[s] # NoPlayer
    <3>1. d \in Command /\ t \in Producers
      BY DEF TypeOK, Command, Producers
    <3>2. Queued' = Queued \cup {d}
      BY <1>2, <2>2, <3>1, QueuedPush DEF OnSessionDisconnected
    <3>3. s \notin registered \cup accepting \cup fresh
      BY <1>2 DEF OnSessionDisconnected, NetInv, AnnouncedOnce
    <3>4. Good(d)
      BY <2>2, <3>3, IdIsNamed, NamesStay, GoneStaysGone
    <3> QED
      BY <1>1, <1>2, <3>2, <3>4
  <2> QED
    BY <2>1, <2>2
<1>3. ASSUME NEW w \in Workers, ProcessGamePacket(w), NEW c \in Queued'
      PROVE  Good(c)
  <2> DEFINE j == Head(worker[w])
             d == [type |-> j.type, player |-> playerId[j.session],
                   session |-> j.session, seq |-> j.seq]
  <2>1. j \in Job /\ j.type \in {"enter", "input"}
    BY <1>3, ElemsTail DEF TypeOK, ProcessGamePacket
  <2>2. d \in Command /\ w \in Producers
    BY <2>1 DEF TypeOK, Command, Producers, Job
  <2>3. Queued' = Queued \cup {d}
    BY <1>3, <2>2, QueuedPush DEF ProcessGamePacket
  <2>4. Good(d)
    <3>1. j.session \in Sessions
      BY <2>1 DEF Job
    <3> QED
      BY <2>1, <3>1, IdIsNamed, NamesStay
  <2> QED
    BY <1>1, <1>3, <2>3, <2>4
<1>4. ASSUME NEW t \in Producers, TryPopGameCommand(t)
      PROVE  Queued' = Queued
  BY <1>4, QueuedPop
<1>5. ASSUME batch # <<>>, batch' = Tail(batch), commands' = commands
      PROVE  Queued' \subseteq Queued
  BY <1>5, QueuedHandled
<1>6. \A c \in Queued' : Good(c)
  BY <1>1, <1>2, <1>3, <1>4, <1>5, QueuedUntouched
<1> QED
  BY <1>6 DEF CommandInv

-----------------------------------------------------------------------------
(* The end of a session on its way to the game thread.                       *)

(* A queued disconnect command stays queued until it is handled.             *)
LEMMA DisconnectStaysQueued ==
  ASSUME TypeOK, [Next]_vars, NEW c \in Queued, c.type = "disconnect"
  PROVE  c \in Queued' \/ (HandlePlayerDisconnect /\ c = Head(batch))
<1>1. ASSUME NEW s \in Sessions, NEW l \in Loops, NEW t \in IoThreads,
             OnSessionDisconnected(s, l, t)
      PROVE  c \in Queued'
  <2> DEFINE d == [type |-> "disconnect", player |-> playerId[s], session |-> s, seq |-> 0]
  <2>1. CASE playerId[s] = NoPlayer
    BY <1>1, <2>1 DEF OnSessionDisconnected, Queued
  <2>2. CASE playerId[s] # NoPlayer
    <3>1. d \in Command /\ t \in Producers
      BY DEF TypeOK, Command, Producers
    <3> QED
      BY <1>1, <2>2, <3>1, QueuedPush DEF OnSessionDisconnected
  <2> QED
    BY <2>1, <2>2
<1>2. ASSUME NEW w \in Workers, ProcessGamePacket(w)
      PROVE  c \in Queued'
  <2> DEFINE j == Head(worker[w])
             d == [type |-> j.type, player |-> playerId[j.session],
                   session |-> j.session, seq |-> j.seq]
  <2>1. j \in Job /\ j.type \in {"enter", "input"}
    BY <1>2, ElemsTail DEF TypeOK, ProcessGamePacket
  <2>2. d \in Command /\ w \in Producers
    BY <2>1 DEF TypeOK, Command, Producers, Job
  <2> QED
    BY <1>2, <2>2, QueuedPush DEF ProcessGamePacket
<1>3. ASSUME NEW t \in Producers, TryPopGameCommand(t)
      PROVE  c \in Queued'
  BY <1>3, QueuedPop
<1>4. CASE batch # <<>> /\ batch' = Tail(batch) /\ commands' = commands
  <2>1. c \in Queued' \/ c = Head(batch)
    BY <1>4, QueuedHandled
  <2>2. CASE c = Head(batch)
    <3>1. batch' # batch
      <4>1. Len(Tail(batch)) = Len(batch) - 1 /\ Len(batch) \in Nat
        BY <1>4 DEF TypeOK
      <4>2. Len(batch) - 1 # Len(batch)
        BY <4>1
      <4>3. Tail(batch) # batch
        BY <4>1, <4>2
      <4> QED
        BY <1>4, <4>3
    <3>2. GameLoop
      BY <3>1, BatchUntouched
    <3>3. ~LookupSession /\ ~HandlePlayerInput /\ ~EnterZoneRefused /\ ~EnterZoneAccepted
      BY <2>2 DEF LookupSession, HandlePlayerInput, EnterZoneRefused,
         EnterZoneAccepted, Handling
    <3>4. ~StopCollecting /\ ~UpdateWorld
      BY <3>1 DEF StopCollecting, UpdateWorld
    <3>5. CASE \E t \in Producers : TryPopGameCommand(t)
      BY <1>3, <3>5
    <3> QED
      BY <2>2, <3>2, <3>3, <3>4, <3>5 DEF GameLoop
  <2> QED
    BY <2>1, <2>2
<1> QED
  BY <1>1, <1>2, <1>3, <1>4, QueuedUntouched

(* A registered session stays registered until a coroutine erases it.        *)
LEMMA ErasedByCoroutine ==
  ASSUME TypeOK, [Next]_vars, NEW s \in Sessions, s \in registered
  PROVE  s \in registered' \/ \E l \in Loops : loop'[s][l] = "erased"
<1> DEFINE Goal == s \in registered' \/ \E l \in Loops : loop'[s][l] = "erased"
<1>0. ASSUME UNCHANGED <<accepting, fresh, open, loop, registered>>
      PROVE  Goal
  BY <1>0
<1>1. ASSUME NEW u \in Sessions,
             AcceptSession(u) \/ AddSession(u) \/ AcceptThrows(u) \/ RejectConnection(u)
      PROVE  Goal
  BY <1>1 DEF AcceptSession, AddSession, AcceptThrows, RejectConnection, Accepts
<1>2. ASSUME NEW u \in Sessions, NEW l \in Loops, CloseSocket(u, l)
      PROVE  Goal
  BY <1>2 DEF CloseSocket
<1>3. ASSUME NEW u \in Sessions, NEW l \in Loops, RemoveSession(u, l)
      PROVE  Goal
  <2>1. CASE u = s
    BY <1>3, <2>1 DEF RemoveSession, TypeOK
  <2>2. CASE u # s
    BY <1>3, <2>2 DEF RemoveSession
  <2> QED
    BY <2>1, <2>2
<1>4. ASSUME NEW u \in Sessions, WriteLoopReturns(u)
      PROVE  Goal
  BY <1>4 DEF WriteLoopReturns
<1>5. ASSUME NEW u \in Sessions, NEW l \in Loops, NEW t \in IoThreads,
             OnSessionDisconnected(u, l, t)
      PROVE  Goal
  BY <1>5 DEF OnSessionDisconnected
<1>6. CASE UNCHANGED vars
  BY <1>0, <1>6 DEF vars, netVars
<1> QED
  BY <1>0, <1>1, <1>2, <1>3, <1>4, <1>5, <1>6, NetUntouched
  DEF Next, AcceptLoop, ReadOrClose, Disconnect

(* A coroutine that has erased its session stays there until it announces    *)
(* the end.                                                                  *)
LEMMA ErasedUntilAnnounced ==
  ASSUME TypeOK, NetInv, [Next]_vars, NEW s \in Sessions, NEW k \in Loops,
         loop[s][k] = "erased"
  PROVE  loop'[s][k] = "erased" \/ \E t \in IoThreads : OnSessionDisconnected(s, k, t)
<1> DEFINE Goal == loop'[s][k] = "erased"
                   \/ \E t \in IoThreads : OnSessionDisconnected(s, k, t)
<1>0. ASSUME UNCHANGED <<accepting, fresh, open, loop, registered>>
      PROVE  Goal
  BY <1>0
<1>1. ASSUME NEW u \in Sessions, AcceptSession(u)
      PROVE  Goal
  <2>1. u # s
    BY <1>1 DEF AcceptSession, Accepts, NetInv
  <2> QED
    BY <1>1, <2>1 DEF AcceptSession, TypeOK
<1>2. ASSUME NEW u \in Sessions, AddSession(u) \/ AcceptThrows(u) \/ RejectConnection(u)
      PROVE  Goal
  BY <1>2 DEF AddSession, AcceptThrows, RejectConnection
<1>3. ASSUME NEW u \in Sessions, NEW l \in Loops, CloseSocket(u, l) \/ RemoveSession(u, l)
      PROVE  Goal
  <2>1. /\ loop[u][l] # "erased"
        /\ \E x : loop' = [loop EXCEPT ![u][l] = x]
    BY <1>3 DEF CloseSocket, RemoveSession
  <2> QED
    BY <2>1 DEF TypeOK
<1>4. ASSUME NEW u \in Sessions, WriteLoopReturns(u)
      PROVE  Goal
  BY <1>4 DEF WriteLoopReturns, TypeOK, Loops
<1>5. ASSUME NEW u \in Sessions, NEW l \in Loops, NEW t \in IoThreads,
             OnSessionDisconnected(u, l, t)
      PROVE  Goal
  <2>1. loop' = [loop EXCEPT ![u][l] = "announced"]
    BY <1>5 DEF OnSessionDisconnected
  <2>2. CASE u = s /\ l = k
    BY <1>5, <2>2
  <2>3. CASE ~(u = s /\ l = k)
    BY <2>1, <2>3 DEF TypeOK
  <2> QED
    BY <2>2, <2>3
<1>6. CASE UNCHANGED vars
  BY <1>0, <1>6 DEF vars, netVars
<1> QED
  BY <1>0, <1>1, <1>2, <1>3, <1>4, <1>5, <1>6, NetUntouched
  DEF Next, AcceptLoop, ReadOrClose, Disconnect

(* A logged-in session is registered, or its end is on the way, until its    *)
(* disconnect command is handled.                                            *)
LEMMA EndIsNotLost ==
  ASSUME TypeOK, NetInv, AccountInv, [Next]_vars,
         NEW s \in Sessions, named[s] # {},
         s \in registered \/ EndPending(s),
         ~(HandlePlayerDisconnect /\ Head(batch).session = s)
  PROVE  s \in registered' \/ Ending(loop', Queued', s)
<1>1. CASE s \in registered
  BY <1>1, ErasedByCoroutine DEF EndPending, Ending
<1>2. ASSUME NEW k \in Loops, loop[s][k] = "erased"
      PROVE  Ending(loop', Queued', s)
  <2>1. CASE loop'[s][k] = "erased"
    BY <2>1 DEF EndPending, Ending
  <2>2. ASSUME NEW t \in IoThreads, OnSessionDisconnected(s, k, t)
        PROVE  Ending(loop', Queued', s)
    <3> DEFINE d == [type |-> "disconnect", player |-> playerId[s], session |-> s, seq |-> 0]
    <3>1. d \in Command /\ t \in Producers
      BY DEF TypeOK, Command, Producers
    <3>2. d \in Queued'
      BY <2>2, <3>1, IdIsNamed, QueuedPush DEF OnSessionDisconnected
    <3> QED
      BY <3>2 DEF EndPending, Ending
  <2> QED
    BY <1>2, <2>1, <2>2, ErasedUntilAnnounced
<1>3. ASSUME NEW c \in Queued, c.type = "disconnect", c.session = s
      PROVE  Ending(loop', Queued', s)
  BY <1>3, DisconnectStaysQueued DEF EndPending, Ending
<1> QED
  BY <1>1, <1>2, <1>3 DEF EndPending, Ending

-----------------------------------------------------------------------------
(* Ghosts.                                                                   *)

(* Every step keeps HandleInv.                                               *)
LEMMA HandleInvStep ==
  ASSUME TypeOK, NetInv, EntryInv, AccountInv, CommandInv, HandleInv,
         [Next]_vars
  PROVE  HandleInv'
<1> SUFFICES ASSUME phase' = "handle"
             PROVE  /\ Head(batch').type # "disconnect"
                    /\ Head(batch').player # NoPlayer =>
                         \/ Head(batch').session \in registered'
                         \/ Ending(loop', Queued', Head(batch').session)
  BY DEF HandleInv, EndPending
<1>1. CASE LookupSession
  <2>1. UNCHANGED registered
    BY <1>1, NetUntouched DEF GameLoop
  <2> QED
    BY <1>1, <2>1 DEF LookupSession
<1>2. CASE GameLoop /\ ~LookupSession
  BY <1>2 DEF GameLoop, TryPopGameCommand, StopCollecting,
     HandlePlayerInput, EnterZoneRefused, EnterZoneAccepted,
     HandlePlayerDisconnect, UpdateWorld
<1>3. CASE ~GameLoop
  <2> DEFINE c == Head(batch)
  <2>1. phase = "handle" /\ batch' = batch /\ batch # <<>>
    BY <1>3, BatchUntouched DEF EntryInv
  <2>2. c.type # "disconnect"
    BY <2>1 DEF HandleInv
  <2>3. c \in Queued /\ c.session \in Sessions
    <3>1. c \in Elems(batch) /\ c \in Command
      BY <2>1, ElemsTail DEF TypeOK
    <3> QED
      BY <3>1, HeldMember DEF Queued, Command
  <2>4. ASSUME c.player # NoPlayer
        PROVE  c.session \in registered' \/ Ending(loop', Queued', c.session)
    <3>1. named[c.session] # {}
      BY <2>3, <2>4 DEF CommandInv
    <3>2. c.session \in registered \/ EndPending(c.session)
      BY <2>1, <2>4 DEF HandleInv
    <3>3. ~HandlePlayerDisconnect
      BY <1>3 DEF GameLoop
    <3> QED
      BY <2>3, <3>1, <3>2, <3>3, EndIsNotLost
  <2> QED
    BY <2>1, <2>2, <2>4
<1> QED
  BY <1>1, <1>2, <1>3

(* Every step keeps OnlyKnownGhosts.                                         *)
LEMMA GhostStep ==
  ASSUME TypeOK, NetInv, EntryInv, AccountInv, CommandInv, HandleInv,
         TreeHoldsActive, OnlyKnownGhosts, [Next]_vars,
         NEW p \in active', p # NoPlayer
  PROVE  /\ p \in named'[sessionOf'[p]]
         /\ \/ sessionOf'[p] \in registered'
            \/ Ending(loop', Queued', sessionOf'[p])
            \/ named'[sessionOf'[p]] # {p}
<1> DEFINE c == Head(batch)
<1>1. CASE EnterZoneAccepted /\ p = c.player
  <2>1. batch # <<>> /\ phase = "handle"
    BY <1>1 DEF EnterZoneAccepted, Handling
  <2>2. c \in Queued /\ c.session \in Sessions /\ p \in Ids
    <3>1. c \in Elems(batch) /\ c \in Command
      BY <2>1, ElemsTail DEF TypeOK
    <3> QED
      BY <1>1, <3>1, HeldMember DEF Queued, Command
  <2>3. sessionOf'[p] = c.session
    BY <1>1, <2>2 DEF EnterZoneAccepted, TypeOK
  <2>4. p \in named[c.session]
    BY <1>1, <2>2 DEF CommandInv
  <2>5. c.session \in registered \/ EndPending(c.session)
    BY <1>1, <2>1 DEF HandleInv
  <2>6. ~HandlePlayerDisconnect
    BY <2>1 DEF HandlePlayerDisconnect
  <2>7. c.session \in registered' \/ Ending(loop', Queued', c.session)
    BY <2>2, <2>4, <2>5, <2>6, EndIsNotLost
  <2> QED
    BY <2>2, <2>3, <2>4, <2>7, NamesStay
<1>2. CASE ~(EnterZoneAccepted /\ p = c.player)
  <2>1. p \in active /\ sessionOf'[p] = sessionOf[p]
    <3>1. CASE EnterZoneAccepted
      BY <1>2, <3>1 DEF EnterZoneAccepted, TypeOK
    <3>2. CASE HandlePlayerDisconnect
      BY <3>2 DEF HandlePlayerDisconnect, gameVars
    <3>3. CASE UpdateWorld
      BY <3>3 DEF UpdateWorld
    <3> QED
      BY <3>1, <3>2, <3>3, WorldUntouched
  <2> DEFINE s == sessionOf[p]
  <2>2. /\ s \in Sessions
        /\ p \in named[s]
        /\ s \in registered \/ EndPending(s) \/ named[s] # {p}
    BY <2>1 DEF OnlyKnownGhosts, Ghost, TypeOK
  <2>3. CASE named[s] # {p}
    BY <2>1, <2>2, <2>3, NamesStay
  <2>4. CASE named[s] = {p}
    <3>1. ~(HandlePlayerDisconnect /\ c.session = s)
      <4> SUFFICES ASSUME HandlePlayerDisconnect, c.session = s PROVE FALSE
        OBVIOUS
      <4>1. c \in Queued /\ c.type = "disconnect"
        <5>1. c \in Elems(batch) /\ c.type = "disconnect"
          BY ElemsTail DEF HandlePlayerDisconnect, TypeOK
        <5> QED
          BY <5>1, HeldMember DEF Queued
      <4>2. c.player = p
        BY <2>4, <4>1 DEF CommandInv
      <4>3. p \in players
        BY <2>1 DEF TreeHoldsActive
      <4> QED
        BY <4>2, <4>3 DEF HandlePlayerDisconnect
    <3>2. s \in registered' \/ Ending(loop', Queued', s)
      BY <2>2, <2>4, <3>1, EndIsNotLost
    <3> QED
      BY <2>1, <2>2, <3>2, NamesStay
  <2> QED
    BY <2>3, <2>4
<1> QED
  BY <1>1, <1>2

(* The invariant that OnlyKnownGhosts needs to be inductive.                 *)
LifeInv == /\ TypeOK
           /\ NetInv
           /\ EntryInv
           /\ AccountInv
           /\ CommandInv
           /\ HandleInv
           /\ TreeHoldsActive
           /\ OnlyKnownGhosts

(* It holds initially and every step keeps it.                               *)
LEMMA LifeInvariant == Spec => []LifeInv
<1> DEFINE Inv == EntryInv /\ AccountInv /\ CommandInv /\ HandleInv
                  /\ TreeHoldsActive /\ OnlyKnownGhosts
<1>1. Init => Inv
  <2> SUFFICES ASSUME Init PROVE Inv
    OBVIOUS
  <2>1. /\ EntryInv /\ HandleInv /\ TreeHoldsActive /\ OnlyKnownGhosts
    BY DEF Init, EntryInv, HandleInv, TreeHoldsActive, OnlyKnownGhosts
  <2>2. Elems(<<>>) = {}
    BY DEF Elems
  <2>3. AccountInv
    BY <2>2 DEF Init, AccountInv
  <2>4. \A c : c \notin Queued
    BY <2>2, HeldMember DEF Init, Queued
  <2> QED
    BY <2>1, <2>3, <2>4 DEF CommandInv
<1>2. TypeOK /\ NetInv /\ Inv /\ [Next]_vars => Inv'
  <2> SUFFICES ASSUME TypeOK, NetInv, Inv, [Next]_vars PROVE Inv'
    OBVIOUS
  <2>1. OnlyKnownGhosts'
    BY GhostStep DEF OnlyKnownGhosts, Ghost, EndPending
  <2> QED
    BY <2>1, EntryInvStep, AccountInvStep, CommandInvStep, HandleInvStep, TreeStep
<1>3. TypeOK /\ NetInv /\ Inv => LifeInv
  BY DEF LifeInv
<1> QED
  BY <1>1, <1>2, <1>3, TypeCorrect, NetInvariant, PTL DEF Spec

(* Whatever the clients do, a player without a session, and without a        *)
(* disconnect on its way, is player 0 or one of several players its session  *)
(* was logged in as.                                                         *)
THEOREM GhostsAreKnown == Spec => []OnlyKnownGhosts
<1>1. LifeInv => OnlyKnownGhosts
  BY DEF LifeInv
<1> QED
  BY <1>1, LifeInvariant, PTL

(* If no player is used by two connections, a player leaves the world only   *)
(* after its own session has been removed.                                   *)
THEOREM PlayersLeaveWithOwnSession ==
  ExclusiveAccounts => (Spec => LeavesWithOwnSession)
<1> DEFINE Leaves == \A p \in Players :
                       p \in active /\ p \notin active' => sessionOf[p] \notin registered
<1> SUFFICES ASSUME ExclusiveAccounts PROVE Spec => [][Leaves]_vars
  BY DEF LeavesWithOwnSession
<1>1. LifeInv /\ [Next]_vars => Leaves
  <2> SUFFICES ASSUME LifeInv, [Next]_vars, NEW p \in Players,
                      p \in active, p \notin active'
               PROVE  sessionOf[p] \notin registered
    OBVIOUS
  <2> USE DEF LifeInv
  <2> DEFINE c == Head(batch)
             s == sessionOf[p]
  <2>1. HandlePlayerDisconnect /\ c.player = p
    <3>1. CASE EnterZoneAccepted
      BY <3>1 DEF EnterZoneAccepted
    <3>2. CASE UpdateWorld
      BY <3>2 DEF UpdateWorld
    <3>3. CASE HandlePlayerDisconnect
      BY <3>3 DEF HandlePlayerDisconnect, gameVars
    <3> QED
      BY <3>1, <3>2, <3>3, WorldUntouched
  <2>2. c \in Queued /\ c.type = "disconnect" /\ c.session \in Sessions
    <3>1. c \in Elems(batch) /\ c.type = "disconnect" /\ c \in Command
      BY <2>1, ElemsTail DEF HandlePlayerDisconnect, TypeOK
    <3> QED
      BY <3>1, HeldMember DEF Queued, Command
  <2>3. p # NoPlayer
    BY ConstantsAssumption
  <2>4. p \in named[c.session] /\ c.session \notin registered
    BY <2>1, <2>2, <2>3 DEF CommandInv
  <2>5. p \in named[s] /\ s \in Sessions
    BY <2>3 DEF OnlyKnownGhosts, TypeOK
  <2>6. p \in Accounts[s] /\ p \in Accounts[c.session]
    BY <2>2, <2>3, <2>4, <2>5 DEF AccountInv
  <2>7. s = c.session
    BY <2>2, <2>5, <2>6 DEF ExclusiveAccounts
  <2> QED
    BY <2>4, <2>7
<1> QED
  BY <1>1, LifeInvariant, PTL DEF Spec

-----------------------------------------------------------------------------
(* Entries that nobody removes.                                              *)

(* Only a listening accept loop has a session on its hands.                  *)
DeadInv == OneDeadEntry /\ (acceptor = "ended" => accepting = {})

(* Every step keeps DeadInv.                                                 *)
LEMMA DeadInvStep ==
  ASSUME TypeOK, NetInv, DeadInv, [Next]_vars
  PROVE  DeadInv'
<1> USE DEF DeadInv
<1>0. ASSUME acceptor' = "ended" <=> acceptor = "ended",
             acceptor' = "ended" => accepting' = {},
             registered' \subseteq registered,
             \A s \in registered' : Dead(s)' => Dead(s)
      PROVE  DeadInv'
  BY <1>0 DEF OneDeadEntry
<1>1. ASSUME UNCHANGED netVars
      PROVE  DeadInv'
  BY <1>0, <1>1 DEF netVars, Dead
<1>2. ASSUME NEW s \in Sessions, AcceptSession(s)
      PROVE  DeadInv'
  <2>1. ASSUME NEW r \in registered
        PROVE  Dead(r)' => Dead(r)
    <3>1. r # s
      BY <1>2 DEF AcceptSession, Accepts, NetInv
    <3> QED
      BY <1>2, <3>1 DEF AcceptSession, Dead, TypeOK
  <2> QED
    BY <1>0, <1>2, <2>1 DEF AcceptSession, Accepts
<1>3. ASSUME NEW s \in Sessions, AddSession(s)
      PROVE  DeadInv'
  <2>1. /\ acceptor = "listening" /\ accepting' = {}
        /\ registered' = registered \cup {s}
        /\ \A r : Dead(r)' <=> Dead(r)
    BY <1>3 DEF AddSession, Dead, TypeOK
  <2>2. \A r \in registered : ~Dead(r)
    BY <2>1 DEF OneDeadEntry
  <2>3. Dead(s) => acceptor' = "ended"
    BY <1>3 DEF AddSession, Dead
  <2> QED
    BY <2>1, <2>2, <2>3 DEF OneDeadEntry
<1>4. ASSUME NEW s \in Sessions, AcceptThrows(s) \/ RejectConnection(s)
      PROVE  DeadInv'
  <2>1. UNCHANGED <<open, loop, registered>> /\ accepting' = {}
    BY <1>4 DEF AcceptThrows, RejectConnection, Accepts
  <2>2. acceptor = "listening"
    BY <1>4 DEF AcceptThrows, RejectConnection, Accepts
  <2>3. \A r \in registered : ~Dead(r)
    BY <2>2 DEF OneDeadEntry
  <2>4. \A r : Dead(r)' <=> Dead(r)
    BY <2>1 DEF Dead
  <2> QED
    BY <2>1, <2>3, <2>4 DEF OneDeadEntry
<1>5. ASSUME NEW s \in Sessions, NEW l \in Loops, CloseSocket(s, l)
      PROVE  DeadInv'
  <2>1. ASSUME NEW r \in registered
        PROVE  Dead(r)' => Dead(r)
    <3>1. CASE r = s
      BY <1>5, <3>1 DEF CloseSocket, Dead, TypeOK, Loops
    <3>2. CASE r # s
      BY <1>5, <3>2 DEF CloseSocket, Dead, TypeOK
    <3> QED
      BY <3>1, <3>2
  <2> QED
    BY <1>0, <1>5, <2>1 DEF CloseSocket
<1>6. ASSUME NEW s \in Sessions, WriteLoopReturns(s)
      PROVE  DeadInv'
  <2>1. ASSUME NEW r \in registered
        PROVE  Dead(r)' => Dead(r)
    <3>1. CASE r = s
      BY <1>6, <3>1 DEF WriteLoopReturns, Dead, TypeOK, Loops
    <3>2. CASE r # s
      BY <1>6, <3>2 DEF WriteLoopReturns, Dead, TypeOK
    <3> QED
      BY <3>1, <3>2
  <2> QED
    BY <1>0, <1>6, <2>1 DEF WriteLoopReturns
<1>7. ASSUME NEW s \in Sessions, NEW l \in Loops, NEW x, loop' = [loop EXCEPT ![s][l] = x],
             registered' = registered \ {s}, UNCHANGED <<acceptor, accepting, open>>
      PROVE  DeadInv'
  <2>1. ASSUME NEW r \in registered'
        PROVE  Dead(r)' => Dead(r)
    BY <1>7 DEF Dead, TypeOK
  <2> QED
    BY <1>0, <1>7, <2>1
<1>8. ASSUME NEW s \in Sessions, NEW l \in Loops, RemoveSession(s, l)
      PROVE  DeadInv'
  BY <1>7, <1>8 DEF RemoveSession
<1>9. ASSUME NEW s \in Sessions, NEW l \in Loops, NEW t \in IoThreads,
             OnSessionDisconnected(s, l, t)
      PROVE  DeadInv'
  <2>1. registered' = registered \ {s}
    BY <1>9 DEF OnSessionDisconnected, NetInv, AnnouncedOnce
  <2> QED
    BY <1>7, <1>9, <2>1 DEF OnSessionDisconnected
<1>10. ASSUME \/ \E s \in Sessions, t \in IoThreads : ReadPacket(s, t)
              \/ LoginCallback \/ GameLoop \/ (\E w \in Workers : WorkerLoop(w))
              \/ UNCHANGED vars
       PROVE  UNCHANGED netVars
  BY <1>10 DEF ReadPacket, LoginCallback, LoginChecked, LoginDropped, LoginSucceeds,
     GameLoop, TryPopGameCommand, StopCollecting, LookupSession, HandlePlayerInput,
     EnterZoneRefused, EnterZoneAccepted, HandlePlayerDisconnect, UpdateWorld,
     WorkerLoop, PopJob, ProcessLogin, ProcessGamePacket, DropPacket, vars
<1> QED
  BY <1>1, <1>2, <1>3, <1>4, <1>5, <1>6, <1>8, <1>9, <1>10
  DEF Next, AcceptLoop, ReadOrClose, Disconnect

(* However ends overtake AddSession, at most one entry is left that no       *)
(* coroutine removes, and then the accept loop has ended.                    *)
THEOREM OneEntryStays == Spec => []OneDeadEntry
<1>1. Init => DeadInv
  BY DEF Init, DeadInv, OneDeadEntry
<1>2. TypeOK /\ NetInv /\ DeadInv /\ [Next]_vars => DeadInv'
  BY DeadInvStep
<1>3. DeadInv => OneDeadEntry
  BY DEF DeadInv
<1> QED
  BY <1>1, <1>2, <1>3, TypeCorrect, NetInvariant, PTL DEF Spec

-----------------------------------------------------------------------------
(* Inputs.                                                                   *)

(* A player that has never been in the world has the first sequence number.  *)
SeqInv == \A p \in Ids \ players : lastSeq[p] = 0

(* Steps of other threads, and other commands, leave the numbers alone.      *)
LEMMA SeqUntouched ==
  ASSUME [Next]_vars,
         ~HandlePlayerInput, ~EnterZoneAccepted, ~HandlePlayerDisconnect
  PROVE  UNCHANGED <<players, lastSeq>>
<1> USE DEF gameVars
<1>1. CASE AcceptLoop
  BY <1>1 DEF AcceptLoop, AcceptSession, AddSession, AcceptThrows, RejectConnection
<1>2. CASE ReadOrClose
  BY <1>2 DEF ReadOrClose, ReadPacket, CloseSocket
<1>3. CASE \E s \in Sessions : WriteLoopReturns(s)
  BY <1>3 DEF WriteLoopReturns
<1>4. CASE \E s \in Sessions, l \in Loops : Disconnect(s, l)
  BY <1>4 DEF Disconnect, RemoveSession, OnSessionDisconnected
<1>5. CASE \E w \in Workers : WorkerLoop(w)
  BY <1>5 DEF WorkerLoop, PopJob, ProcessLogin, ProcessGamePacket, DropPacket
<1>6. CASE LoginCallback
  BY <1>6 DEF LoginCallback, LoginChecked, LoginDropped, LoginSucceeds
<1>7. CASE GameLoop
  BY <1>7 DEF GameLoop, TryPopGameCommand, StopCollecting, LookupSession,
     EnterZoneRefused, UpdateWorld
<1>8. CASE UNCHANGED vars
  BY <1>8 DEF vars
<1> QED
  BY <1>1, <1>2, <1>3, <1>4, <1>5, <1>6, <1>7, <1>8 DEF Next

(* The number of a player after a step: it has grown, or the player is gone. *)
LEMMA SeqStep ==
  ASSUME TypeOK, SeqInv, [Next]_vars
  PROVE  /\ SeqInv'
         /\ \A p \in Ids : lastSeq'[p] < lastSeq[p] => lastSeq'[p] = 0 /\ p \notin active'
<1> DEFINE c == Head(batch)
<1>0. ASSUME NEW n \in Nat PROVE ~(n < n) /\ \A m \in Nat : m > n => ~(m < n)
  OBVIOUS
<1>1. CASE HandlePlayerInput
  <2>1. batch # <<>> /\ UNCHANGED players
    BY <1>1 DEF HandlePlayerInput, Handling
  <2>2. c \in Command
    BY <2>1, ElemsTail DEF TypeOK
  <2>3. c.seq \in Nat
    BY <2>2 DEF Command
  <2>4. \/ UNCHANGED lastSeq
        \/ /\ c.player \in players /\ c.seq > lastSeq[c.player]
           /\ lastSeq' = [lastSeq EXCEPT ![c.player] = c.seq]
    BY <1>1 DEF HandlePlayerInput
  <2> HIDE DEF c
  <2>5. ASSUME NEW p \in Ids
        PROVE  /\ ~(lastSeq'[p] < lastSeq[p])
               /\ lastSeq'[p] # lastSeq[p] => p \in players
    <3>1. lastSeq[p] \in Nat
      BY DEF TypeOK
    <3> QED
      BY <1>0, <2>3, <2>4, <3>1 DEF TypeOK
  <2> QED
    BY <2>1, <2>5 DEF SeqInv
<1>2. CASE EnterZoneAccepted
  <2>1. batch # <<>>
    BY <1>2 DEF EnterZoneAccepted, Handling
  <2>2. c \in Command
    BY <2>1, ElemsTail DEF TypeOK
  <2>3. c.player \in Ids
    BY <2>2 DEF Command
  <2>4. \A p \in Ids : lastSeq'[p] = lastSeq[p]
    BY <1>2, <2>3 DEF EnterZoneAccepted, SeqInv, TypeOK
  <2>5. players \subseteq players'
    BY <1>2 DEF EnterZoneAccepted
  <2>6. \A p \in Ids : lastSeq[p] \in Nat
    BY DEF TypeOK
  <2> QED
    BY <1>0, <2>4, <2>5, <2>6 DEF SeqInv
<1>3. CASE HandlePlayerDisconnect
  <2>1. CASE UNCHANGED gameVars
    BY <1>0, <2>1 DEF gameVars, SeqInv, TypeOK
  <2>2. CASE /\ c.player \in players
             /\ active' = active \ {c.player}
             /\ lastSeq' = [lastSeq EXCEPT ![c.player] = 0]
             /\ UNCHANGED players
    <3> HIDE DEF c
    <3> QED
      BY <1>0, <2>2 DEF SeqInv, TypeOK
  <2> QED
    BY <1>3, <2>1, <2>2 DEF HandlePlayerDisconnect
<1>4. CASE UNCHANGED <<players, lastSeq>>
  BY <1>0, <1>4 DEF SeqInv, TypeOK
<1> QED
  BY <1>1, <1>2, <1>3, <1>4, SeqUntouched

(* However inputs overtake each other in the workers and the queues, the     *)
(* sequence number of a player in the world never goes back.                 *)
THEOREM InputsNeverGoBack == Spec => InputsAdvance
<1> DEFINE Advances == \A p \in Ids :
                         lastSeq'[p] < lastSeq[p] => lastSeq'[p] = 0 /\ p \notin active'
<1>1. Init => SeqInv
  BY DEF Init, SeqInv
<1>2. TypeOK /\ SeqInv /\ [Next]_vars => SeqInv' /\ Advances
  BY SeqStep
<1>3. Spec => [][Advances]_vars
  BY <1>1, <1>2, TypeCorrect, PTL DEF Spec
<1> QED
  BY <1>3 DEF InputsAdvance
=============================================================================
