-------------------------- MODULE AuthServerProofs --------------------------
(***************************************************************************)
(* Proofs about AuthServer, for every number of users, characters, tickets *)
(* and requests.                                                           *)
(***************************************************************************)
EXTENDS AuthServer, FiniteSetTheorems, TLAPS

-----------------------------------------------------------------------------
(* A step of a request that has begun.                                       *)
Serve(r) == ServeClient(r) \/ Verify(r)

(* Every step is one of a request, or ends a ticket.                         *)
LEMMA NextCases ==
  ASSUME AuthNext
  PROVE  \/ \E r \in WebRequests : Arrive(r)
         \/ \E r \in Requests : Serve(r)
         \/ \E k \in Tickets : Logout(k)
  BY DEF AuthNext, ClientNext, Requests, Serve

(* What holds of every step holds without a game server.                     *)
LEMMA ClientSteps == [ClientNext]_authVars => [AuthNext]_authVars
  BY DEF AuthNext

-----------------------------------------------------------------------------
(* Type correctness.                                                         *)

(* What a step does to the record of its request.                            *)
LEMMA RequestTypes ==
  ASSUME AuthTypeOK, NEW r \in Requests
  PROVE  /\ \A at \in Steps \cup Results, u \in UserIds \cup {NoUser} :
              MoveTo(r, at, u) => request' \in [Requests -> Request]
         /\ \A result \in Results :
              Answer(r, result) => request' \in [Requests -> Request]
         /\ \A at \in Steps : GoOn(r, at) => request' \in [Requests -> Request]
<1>1. Idle \in Request
  BY DEF Idle, Request, Texts
<1>2. request[r] \in Request
  BY DEF AuthTypeOK
<1>3. request[r].user \in UserIds \cup {NoUser}
  BY <1>2 DEF Request
<1>4. ASSUME NEW at \in Steps \cup Results, NEW u \in UserIds \cup {NoUser},
             MoveTo(r, at, u)
      PROVE  request' \in [Requests -> Request]
  <2> DEFINE q == [op |-> request[r].op, at |-> at, user |-> u,
                   ticket |-> request[r].ticket, text |-> request[r].text,
                   character |-> request[r].character]
  <2>1. q \in Request
    BY <1>2 DEF Request
  <2>2. request' = [request EXCEPT ![r] = q]
    BY <1>4 DEF MoveTo
  <2> HIDE DEF q
  <2> QED
    BY <2>1, <2>2 DEF AuthTypeOK
<1>5. ASSUME NEW at \in Steps \cup Results, GoOn(r, at)
      PROVE  request' \in [Requests -> Request]
  BY <1>3, <1>4, <1>5 DEF GoOn
<1> QED
  BY <1>1, <1>4, <1>5 DEF AuthTypeOK, Answer

(* A request that begins.                                                    *)
LEMMA BeginTypes ==
  ASSUME AuthTypeOK, NEW r \in Requests, NEW op \in Operations, NEW at \in Steps,
         NEW u \in UserIds \cup {NoUser}, NEW k \in Tickets \cup {NoTicket},
         NEW n \in Texts, Begin(r, op, at, u, k, n)
  PROVE  AuthTypeOK'
  BY DEF Begin, AuthTypeOK, Request, userVars, characterVars, ticketVars

(* Every step of the auth server keeps the types of its state.               *)
LEMMA AuthTypeStep ==
  ASSUME AuthTypeOK, AuthNext
  PROVE  AuthTypeOK'
<1> USE AuthAssumption
<1>1. ASSUME NEW r \in WebRequests, Arrive(r)
      PROVE  AuthTypeOK'
  <2>0. r \in Requests
    BY DEF Requests
  <2>1. ASSUME NEW n \in Usernames, Register(r, n)
        PROVE  AuthTypeOK'
    BY <2>0, <2>1, BeginTypes DEF Register, Operations, Steps, Texts
  <2>2. ASSUME NEW u \in UserIds, Login(r, u)
        PROVE  AuthTypeOK'
    BY <2>0, <2>2, BeginTypes DEF Login, Operations, Steps, Texts
  <2>3. ASSUME NEW k \in Tickets, NEW n \in Names, CreateCharacter(r, k, n)
        PROVE  AuthTypeOK'
    <3>1. ticketUser[k] \in UserIds \cup {NoUser}
      BY DEF AuthTypeOK
    <3> QED
      BY <2>0, <2>3, <3>1, BeginTypes DEF CreateCharacter, Operations, Steps, Texts
  <2>4. ASSUME NEW k \in Tickets, DeleteUser(r, k)
        PROVE  AuthTypeOK'
    <3>1. ticketUser[k] \in UserIds \cup {NoUser}
      BY DEF AuthTypeOK
    <3> QED
      BY <2>0, <2>4, <3>1, BeginTypes DEF DeleteUser, Operations, Steps, Texts
  <2> QED
    BY <1>1, <2>1, <2>2, <2>3, <2>4 DEF Arrive
<1>2. ASSUME NEW r \in Requests, Serve(r)
      PROVE  AuthTypeOK'
  <2> USE DEF userVars, characterVars, ticketVars
  <2>0. request[r] \in Request
    BY DEF AuthTypeOK
  <2>1. CASE CreateUser(r)
    <3>1. CASE Registered(request[r].text) # {}
      BY <2>1, <3>1, RequestTypes DEF CreateUser, AuthTypeOK, Results
    <3>2. CASE Registered(request[r].text) = {}
      <4>1. PICK u \in newUsers :
                /\ users' = users \cup {u}
                /\ newUsers' = newUsers \ {u}
                /\ MoveTo(r, "issue", u)
        BY <2>1, <3>2 DEF CreateUser
      <4>2. u \in UserIds
        BY DEF AuthTypeOK
      <4>3. request' \in [Requests -> Request]
        BY <4>1, <4>2, RequestTypes DEF Steps
      <4> QED
        BY <2>1, <4>1, <4>2, <4>3 DEF CreateUser, AuthTypeOK
    <3> QED
      BY <3>1, <3>2
  <2>2. CASE IssueTicket(r)
    <3>1. request' \in [Requests -> Request]
      BY <2>2, RequestTypes DEF IssueTicket, Results
    <3>2. request[r].user \in UserIds \cup {NoUser}
      BY <2>0 DEF Request
    <3>3. PICK k \in Tickets :
            /\ ticketUser' = [ticketUser EXCEPT ![k] = request[r].user]
            /\ tickets' = tickets \cup {k}
      BY <2>2 DEF IssueTicket
    <3> QED
      BY <2>2, <3>1, <3>2, <3>3 DEF IssueTicket, AuthTypeOK
  <2>3. CASE FindTicket(r)
    <3>1. CASE request[r].ticket \in tickets
      <4>1. ticketUser[request[r].ticket] \in UserIds \cup {NoUser}
        BY <3>1 DEF AuthTypeOK
      <4> QED
        BY <2>3, <3>1, <4>1, RequestTypes DEF FindTicket, AuthTypeOK, Steps
    <3>2. CASE request[r].ticket \notin tickets
      BY <2>3, <3>2, RequestTypes DEF FindTicket, AuthTypeOK, Results
    <3> QED
      BY <3>1, <3>2
  <2>4. CASE FindPlayer(r)
    BY <2>4, RequestTypes DEF FindPlayer, AuthTypeOK, Results
  <2>5. CASE IsPlayerNameExists(r)
    BY <2>5, RequestTypes DEF IsPlayerNameExists, AuthTypeOK, Results, Steps
  <2>6. CASE CountCharacters(r)
    BY <2>6, RequestTypes DEF CountCharacters, AuthTypeOK, Results, Steps
  <2>7. CASE CreatePlayer(r)
    <3>1. request' \in [Requests -> Request]
      BY <2>7, RequestTypes DEF CreatePlayer, Results
    <3>2. characters' \subseteq Characters /\ owner' \in [Characters -> UserIds \cup {NoUser}]
      BY <2>0, <2>7 DEF CreatePlayer, AuthTypeOK, Request
    <3> QED
      BY <2>7, <3>1, <3>2 DEF CreatePlayer, AuthTypeOK
  <2>8. CASE CheckPassword(r)
    BY <2>8, RequestTypes DEF CheckPassword, AuthTypeOK, Results, Steps
  <2>9. CASE DeletePlayers(r)
    BY <2>9, RequestTypes DEF DeletePlayers, AuthTypeOK, Steps
  <2>10. CASE DeleteUserRow(r)
    <3>1. request' \in [Requests -> Request]
      BY <2>10, RequestTypes DEF DeleteUserRow, Results, Steps
    <3> QED
      BY <2>10, <3>1 DEF DeleteUserRow, AuthTypeOK
  <2>11. CASE DeleteTicket(r)
    BY <2>11, RequestTypes DEF DeleteTicket, AuthTypeOK, Results
  <2>12. CASE AccessFails(r)
    BY <2>12, RequestTypes DEF AccessFails, AuthTypeOK, Results
  <2> QED
    BY <1>2, <2>1, <2>2, <2>3, <2>4, <2>5, <2>6, <2>7, <2>8, <2>9, <2>10, <2>11, <2>12
    DEF Serve, ServeClient, Verify
<1>3. ASSUME NEW k \in Tickets, Logout(k)
      PROVE  AuthTypeOK'
  BY <1>3 DEF Logout, AuthTypeOK, userVars, characterVars
<1> QED
  BY <1>1, <1>2, <1>3, NextCases

(* The auth server keeps the types of its state.                             *)
THEOREM AuthTypeCorrect == AuthSpec => []AuthTypeOK
<1>1. AuthInit => AuthTypeOK
  BY AuthAssumption DEF AuthInit, AuthTypeOK, Idle, Request, Texts
<1>2. AuthTypeOK /\ [AuthNext]_authVars => AuthTypeOK'
  <2>1. AuthTypeOK /\ UNCHANGED authVars => AuthTypeOK'
    BY DEF AuthTypeOK, authVars, userVars, characterVars, ticketVars
  <2> QED
    BY <2>1, AuthTypeStep
<1> QED
  BY <1>1, <1>2, ClientSteps, PTL DEF AuthSpec

-----------------------------------------------------------------------------
(* Characters and their users.                                               *)

(* The steps that leave characters, their owners and the users alone, or     *)
(* only add a user.                                                          *)
LEMMA RowsUntouched ==
  ASSUME NEW r, \/ Arrive(r)
                \/ CreateUser(r) \/ IssueTicket(r) \/ FindTicket(r) \/ FindPlayer(r)
                \/ IsPlayerNameExists(r) \/ CountCharacters(r) \/ CheckPassword(r)
                \/ DeleteTicket(r) \/ AccessFails(r) \/ Logout(r)
  PROVE  users \subseteq users' /\ UNCHANGED <<characters, owner>>
  BY DEF Arrive, Register, Login, CreateCharacter, DeleteUser, Begin, CreateUser,
     IssueTicket, FindTicket, FindPlayer, IsPlayerNameExists, CountCharacters,
     CheckPassword, DeleteTicket, AccessFails, Logout, userVars, characterVars

(* Every step keeps each character with an existing user.                    *)
LEMMA NoOrphansStep ==
  ASSUME AuthTypeOK, NoOrphans, [AuthNext]_authVars
  PROVE  NoOrphans'
<1> USE DEF NoOrphans
<1>0. ASSUME users \subseteq users', UNCHANGED <<characters, owner>>
      PROVE  NoOrphans'
  BY <1>0
<1>1. ASSUME NEW r \in Requests, CreatePlayer(r)
      PROVE  NoOrphans'
  <2>1. CASE UNCHANGED characterVars
    BY <1>1, <2>1 DEF CreatePlayer, characterVars, userVars
  <2>2. CASE ~UNCHANGED characterVars
    <3>1. /\ request[r].user \in users
          /\ users' = users
      BY <1>1, <2>2 DEF CreatePlayer, userVars
    <3>2. PICK c \in Characters :
            /\ owner' = [owner EXCEPT ![c] = request[r].user]
            /\ characters' = characters \cup {c}
      BY <1>1, <2>2 DEF CreatePlayer
    <3>3. \A d \in characters : d # c => owner'[d] = owner[d]
      BY <3>2 DEF AuthTypeOK
    <3>4. owner'[c] = request[r].user
      BY <3>2 DEF AuthTypeOK
    <3> QED
      BY <3>1, <3>2, <3>3, <3>4
  <2> QED
    BY <2>1, <2>2
<1>2. ASSUME NEW r \in Requests, DeletePlayers(r)
      PROVE  NoOrphans'
  BY <1>2 DEF DeletePlayers, CharactersOf, userVars
<1>3. ASSUME NEW r \in Requests, DeleteUserRow(r)
      PROVE  NoOrphans'
  BY <1>3 DEF DeleteUserRow, CharactersOf
<1>4. CASE UNCHANGED authVars
  BY <1>0, <1>4 DEF authVars, userVars, characterVars
<1> QED
  BY <1>0, <1>1, <1>2, <1>3, <1>4, RowsUntouched, NextCases DEF Serve, ServeClient, Verify

(* No character outlives its user, however creations and deletions overlap:  *)
(* DeleteUserRow deletes again what was created since DeletePlayers, and     *)
(* CreatePlayer inserts nothing for a user that is gone.                     *)
THEOREM CharactersHaveUsers == AuthSpec => []NoOrphans
<1>1. AuthInit => NoOrphans
  BY DEF AuthInit, NoOrphans
<1> QED
  BY <1>1, NoOrphansStep, AuthTypeCorrect, ClientSteps, PTL DEF AuthSpec

-----------------------------------------------------------------------------
(* The limit on characters.                                                  *)

(* Only clients create characters: the requests of the game server verify.   *)
CreateInv == \A r \in Requests : request[r].op = "create" => r \in WebRequests

(* A step moves its request on, or ends it.                                  *)
LEMMA StepMoves ==
  ASSUME NEW r, Serve(r)
  PROVE  \/ request' = [request EXCEPT ![r] = Idle]
         \/ \E at, u : MoveTo(r, at, u) /\ (at = "insert" => CountCharacters(r))
<1>1. ASSUME NEW at, GoOn(r, at), at # "insert" \/ CountCharacters(r)
      PROVE  \E b, u : MoveTo(r, b, u) /\ (b = "insert" => CountCharacters(r))
  BY <1>1 DEF GoOn
<1>2. ASSUME NEW result \in Results, Answer(r, result)
      PROVE  \/ request' = [request EXCEPT ![r] = Idle]
             \/ \E at, u : MoveTo(r, at, u) /\ (at = "insert" => CountCharacters(r))
  BY <1>1, <1>2 DEF Answer, Results
<1>3. CASE CreateUser(r)
  <2>1. CASE Registered(request[r].text) # {}
    BY <1>2, <1>3, <2>1 DEF CreateUser, Results
  <2>2. CASE Registered(request[r].text) = {}
    <3>1. PICK u : MoveTo(r, "issue", u)
      BY <1>3, <2>2 DEF CreateUser
    <3>2. "issue" # "insert"
      OBVIOUS
    <3> QED
      BY <3>1, <3>2
  <2> QED
    BY <2>1, <2>2
<1>4. CASE IssueTicket(r) \/ FindPlayer(r) \/ CreatePlayer(r) \/ DeleteTicket(r)
           \/ AccessFails(r)
  BY <1>2, <1>4 DEF IssueTicket, FindPlayer, CreatePlayer, DeleteTicket, AccessFails, Results
<1>5. CASE FindTicket(r)
  BY <1>2, <1>5 DEF FindTicket, Results
<1>6. CASE IsPlayerNameExists(r) \/ CheckPassword(r) \/ DeletePlayers(r)
           \/ DeleteUserRow(r)
  BY <1>1, <1>2, <1>6 DEF IsPlayerNameExists, CheckPassword, DeletePlayers,
     DeleteUserRow, Results
<1>7. CASE CountCharacters(r)
  BY <1>1, <1>2, <1>7 DEF CountCharacters, Results
<1> QED
  BY <1>3, <1>4, <1>5, <1>6, <1>7 DEF Serve, ServeClient, Verify

(* A step changes its own request only, and never what the request is for.   *)
LEMMA OpStays ==
  ASSUME AuthTypeOK, NEW r \in Requests, Serve(r)
  PROVE  /\ \A q \in Requests :
              /\ q # r => request'[q] = request[q]
              /\ request'[q].op \in {request[q].op, "none"}
         /\ CountCharacters(r) \/ request'[r].at # "insert"
<1>1. CASE request' = [request EXCEPT ![r] = Idle]
  BY <1>1 DEF Idle, AuthTypeOK
<1>2. ASSUME NEW at, NEW u, MoveTo(r, at, u), at = "insert" => CountCharacters(r)
      PROVE  /\ \A q \in Requests : /\ q # r => request'[q] = request[q]
                                    /\ request'[q].op \in {request[q].op, "none"}
             /\ CountCharacters(r) \/ request'[r].at # "insert"
  BY <1>2 DEF MoveTo, AuthTypeOK
<1> QED
  BY <1>1, <1>2, StepMoves

(* Every step keeps CreateInv.                                               *)
LEMMA CreateInvStep ==
  ASSUME AuthTypeOK, CreateInv, [AuthNext]_authVars
  PROVE  CreateInv'
<1> USE DEF CreateInv
<1>1. ASSUME NEW r \in WebRequests, Arrive(r)
      PROVE  CreateInv'
  BY <1>1 DEF Arrive, Register, Login, CreateCharacter, DeleteUser, Begin, AuthTypeOK
<1>2. ASSUME NEW r \in Requests, Serve(r)
      PROVE  CreateInv'
  BY <1>2, OpStays
<1>3. ASSUME NEW k \in Tickets, Logout(k)
      PROVE  CreateInv'
  BY <1>3 DEF Logout
<1>4. CASE UNCHANGED authVars
  BY <1>4 DEF authVars
<1> QED
  BY <1>1, <1>2, <1>3, <1>4, NextCases

(* Both sets the bound counts are finite.                                    *)
LEMMA CountsAreFinite ==
  ASSUME AuthTypeOK, CreateInv, NEW u
  PROVE  /\ IsFiniteSet(CharactersOf(u))
         /\ Cardinality(CharactersOf(u)) \in Nat
         /\ Inserting(u) \subseteq WebRequests
         /\ IsFiniteSet(Inserting(u))
         /\ Cardinality(Inserting(u)) \in Nat
         /\ Cardinality(Inserting(u)) <= Cardinality(WebRequests)
         /\ Cardinality(WebRequests) \in Nat
<1>1. CharactersOf(u) \subseteq Characters
  BY DEF CharactersOf, AuthTypeOK
<1>2. Inserting(u) \subseteq WebRequests
  BY DEF Inserting, IsAt, CreateInv
<1> QED
  BY <1>1, <1>2, FS_Subset, FS_CardinalityType, AuthAssumption

(* A step that adds to neither set keeps the bound.                          *)
LEMMA FewerKeepBound ==
  ASSUME AuthTypeOK, CreateInv, NEW u \in UserIds, OvershootBounded,
         CharactersOf(u)' \subseteq CharactersOf(u),
         Inserting(u)' \subseteq Inserting(u)
  PROVE  Cardinality(CharactersOf(u)') + Cardinality(Inserting(u)')
           <= MaxCharacters - 1 + Cardinality(WebRequests)
<1>1. /\ Cardinality(CharactersOf(u)') <= Cardinality(CharactersOf(u))
      /\ Cardinality(CharactersOf(u)') \in Nat
  BY CountsAreFinite, FS_Subset, FS_CardinalityType
<1>2. /\ Cardinality(Inserting(u)') <= Cardinality(Inserting(u))
      /\ Cardinality(Inserting(u)') \in Nat
  BY CountsAreFinite, FS_Subset, FS_CardinalityType
<1> QED
  BY <1>1, <1>2, CountsAreFinite, AuthAssumption DEF OvershootBounded

(* Only CountCharacters adds a request to those that insert.                 *)
LEMMA InsertingShrinks ==
  ASSUME AuthTypeOK, NEW r \in Requests, Serve(r), ~CountCharacters(r), NEW u
  PROVE  Inserting(u)' \subseteq Inserting(u)
  BY OpStays DEF Inserting, IsAt

(* Every step keeps the bound.                                               *)
LEMMA OvershootStep ==
  ASSUME AuthTypeOK, CreateInv, OvershootBounded, [AuthNext]_authVars
  PROVE  OvershootBounded'
<1> SUFFICES ASSUME NEW u \in UserIds
             PROVE  Cardinality(CharactersOf(u)') + Cardinality(Inserting(u)')
                      <= MaxCharacters - 1 + Cardinality(WebRequests)
  BY DEF OvershootBounded
<1>0. AuthTypeOK' /\ CreateInv'
  <2>1. AuthTypeOK /\ UNCHANGED authVars => AuthTypeOK'
    BY DEF AuthTypeOK, authVars, userVars, characterVars, ticketVars
  <2> QED
    BY <2>1, AuthTypeStep, CreateInvStep
<1>1. ASSUME NEW r \in WebRequests, Arrive(r)
      PROVE  Cardinality(CharactersOf(u)') + Cardinality(Inserting(u)')
               <= MaxCharacters - 1 + Cardinality(WebRequests)
  <2>1. CharactersOf(u)' = CharactersOf(u)
    BY <1>1, RowsUntouched DEF CharactersOf
  <2>2. Inserting(u)' \subseteq Inserting(u)
    <3>1. ASSUME NEW op, NEW at, NEW v, NEW k, NEW n, Begin(r, op, at, v, k, n),
                 at # "insert"
          PROVE  Inserting(u)' \subseteq Inserting(u)
      <4>1. /\ request'[r].at # "insert"
            /\ \A q \in Requests : q # r => request'[q] = request[q]
        BY <3>1 DEF Begin, AuthTypeOK, Requests
      <4> QED
        BY <4>1 DEF Inserting, IsAt
    <3>2. "insert user" # "insert" /\ "issue" # "insert" /\ "name" # "insert"
          /\ "password" # "insert"
      OBVIOUS
    <3> QED
      BY <1>1, <3>1, <3>2, Zenon DEF Arrive, Register, Login, CreateCharacter, DeleteUser
  <2> QED
    BY <2>1, <2>2, FewerKeepBound
<1>2. ASSUME NEW r \in Requests, Serve(r), ~CountCharacters(r), ~CreatePlayer(r)
      PROVE  Cardinality(CharactersOf(u)') + Cardinality(Inserting(u)')
               <= MaxCharacters - 1 + Cardinality(WebRequests)
  <2>1. CASE DeletePlayers(r) \/ DeleteUserRow(r)
    <3>1. characters' \subseteq characters /\ owner' = owner
      BY <2>1 DEF DeletePlayers, DeleteUserRow
    <3>2. CharactersOf(u)' \subseteq CharactersOf(u)
      BY <3>1 DEF CharactersOf
    <3> QED
      BY <1>2, <3>2, InsertingShrinks, FewerKeepBound
  <2>2. CASE ~(DeletePlayers(r) \/ DeleteUserRow(r))
    <3>1. UNCHANGED <<characters, owner>>
      BY <1>2, <2>2, RowsUntouched DEF Serve, ServeClient, Verify
    <3>2. CharactersOf(u)' = CharactersOf(u)
      BY <3>1 DEF CharactersOf
    <3> QED
      BY <1>2, <3>2, InsertingShrinks, FewerKeepBound
  <2> QED
    BY <2>1, <2>2
<1>3. ASSUME NEW r \in Requests, CountCharacters(r)
      PROVE  Cardinality(CharactersOf(u)') + Cardinality(Inserting(u)')
               <= MaxCharacters - 1 + Cardinality(WebRequests)
  <2>1. CharactersOf(u)' = CharactersOf(u)
    BY <1>3, RowsUntouched DEF CharactersOf
  <2>2. CASE Inserting(u)' \subseteq Inserting(u)
    BY <2>1, <2>2, FewerKeepBound
  <2>3. CASE ~(Inserting(u)' \subseteq Inserting(u))
    <3>1. PICK q \in Requests : /\ IsAt(q, "create", "insert")'
                               /\ request'[q].user = u
                               /\ ~(IsAt(q, "create", "insert") /\ request[q].user = u)
      BY <2>3 DEF Inserting
    <3>2. q = r
      BY <1>3, <3>1, OpStays DEF Serve, ServeClient, Verify, IsAt
    <3>3. CASE Cardinality(CharactersOf(request[r].user)) >= MaxCharacters
      <4>1. Answer(r, "refused")
        BY <1>3, <3>3 DEF CountCharacters
      <4>2. request'[r].at # "insert"
        BY <4>1 DEF Answer, GoOn, MoveTo, Idle, AuthTypeOK
      <4> QED
        BY <3>1, <3>2, <4>2 DEF IsAt
    <3>4. CASE ~(Cardinality(CharactersOf(request[r].user)) >= MaxCharacters)
      <4>1. GoOn(r, "insert")
        BY <1>3, <3>4 DEF CountCharacters
      <4>2. request'[r].user = request[r].user
        BY <4>1 DEF GoOn, MoveTo, AuthTypeOK
      <4>3. ~(Cardinality(CharactersOf(u)) >= MaxCharacters)
        BY <3>1, <3>2, <3>4, <4>2
      <4>4. Cardinality(Inserting(u)') <= Cardinality(WebRequests)
            /\ Cardinality(Inserting(u)') \in Nat
        <5>1. Inserting(u)' \subseteq WebRequests
          BY <1>0 DEF Inserting, IsAt, CreateInv
        <5> QED
          BY <5>1, FS_Subset, FS_CardinalityType, AuthAssumption
      <4> QED
        BY <2>1, <4>3, <4>4, CountsAreFinite, AuthAssumption
    <3> QED
      BY <3>3, <3>4
  <2> QED
    BY <2>2, <2>3
<1>4. ASSUME NEW r \in Requests, CreatePlayer(r)
      PROVE  Cardinality(CharactersOf(u)') + Cardinality(Inserting(u)')
               <= MaxCharacters - 1 + Cardinality(WebRequests)
  <2>0. Serve(r) /\ ~CountCharacters(r)
    BY <1>4 DEF Serve, ServeClient, Verify, CreatePlayer, CountCharacters, IsAt
  <2>1. Inserting(u)' \subseteq Inserting(u)
    BY <2>0, InsertingShrinks
  <2>2. CASE CharactersOf(u)' \subseteq CharactersOf(u)
    BY <2>1, <2>2, FewerKeepBound
  <2>3. CASE ~(CharactersOf(u)' \subseteq CharactersOf(u))
    <3>1. ~UNCHANGED characterVars
      BY <2>3 DEF CharactersOf, characterVars
    <3>2. PICK c \in Characters :
            /\ owner[c] = NoUser
            /\ owner' = [owner EXCEPT ![c] = request[r].user]
            /\ characters' = characters \cup {c}
      BY <1>4, <3>1 DEF CreatePlayer
    <3>3. \A d \in Characters : d # c => owner'[d] = owner[d]
      BY <3>2 DEF AuthTypeOK
    <3>4. owner'[c] = request[r].user
      BY <3>2 DEF AuthTypeOK
    <3>5. request[r].user = u
      BY <2>3, <3>2, <3>3, <3>4 DEF CharactersOf, AuthTypeOK
    <3>6. CharactersOf(u)' = CharactersOf(u) \cup {c} /\ c \notin CharactersOf(u)
      BY <3>2, <3>3, <3>4, <3>5, AuthAssumption DEF CharactersOf, AuthTypeOK
    <3>7. Cardinality(CharactersOf(u)') = Cardinality(CharactersOf(u)) + 1
      BY <3>6, CountsAreFinite, FS_AddElement
    <3>8. r \in Inserting(u) /\ r \notin Inserting(u)'
      BY <1>4, <2>0, <3>5, OpStays DEF CreatePlayer, Inserting, IsAt
    <3>9. Inserting(u)' \subseteq Inserting(u) \ {r}
      BY <2>1, <3>8
    <3>10. /\ Cardinality(Inserting(u) \ {r}) = Cardinality(Inserting(u)) - 1
           /\ IsFiniteSet(Inserting(u) \ {r})
      BY <3>8, CountsAreFinite, FS_RemoveElement
    <3>11. /\ Cardinality(Inserting(u)') <= Cardinality(Inserting(u)) - 1
           /\ Cardinality(Inserting(u)') \in Nat
      BY <3>9, <3>10, FS_Subset, FS_CardinalityType
    <3> QED
      BY <3>7, <3>11, CountsAreFinite, AuthAssumption DEF OvershootBounded
  <2> QED
    BY <2>2, <2>3
<1>5. ASSUME NEW k \in Tickets, Logout(k)
      PROVE  Cardinality(CharactersOf(u)') + Cardinality(Inserting(u)')
               <= MaxCharacters - 1 + Cardinality(WebRequests)
  <2>1. CharactersOf(u)' = CharactersOf(u) /\ Inserting(u)' = Inserting(u)
    BY <1>5, RowsUntouched DEF Logout, CharactersOf, Inserting, IsAt
  <2> QED
    BY <2>1, FewerKeepBound
<1>6. CASE UNCHANGED authVars
  <2>1. CharactersOf(u)' = CharactersOf(u) /\ Inserting(u)' = Inserting(u)
    BY <1>6 DEF authVars, characterVars, CharactersOf, Inserting, IsAt
  <2> QED
    BY <2>1, FewerKeepBound
<1> QED
  BY <1>1, <1>2, <1>3, <1>4, <1>5, <1>6, NextCases DEF Serve

(* However many requests of a user race between the count and the insertion, *)
(* its characters exceed the limit by at most the requests served at the     *)
(* same time, less one.                                                      *)
THEOREM LimitOvershoot == AuthSpec => []OvershootBounded
<1>1. AuthInit => CreateInv
  BY DEF AuthInit, CreateInv, Idle
<1>2. AuthInit => OvershootBounded
  <2> SUFFICES ASSUME AuthInit, NEW u \in UserIds
               PROVE  Cardinality(CharactersOf(u)) + Cardinality(Inserting(u))
                        <= MaxCharacters - 1 + Cardinality(WebRequests)
    BY DEF OvershootBounded
  <2>1. CharactersOf(u) = {} /\ Inserting(u) = {}
    BY DEF AuthInit, CharactersOf, Inserting, IsAt, Idle
  <2>2. Cardinality(WebRequests) \in Nat
    BY FS_CardinalityType, AuthAssumption
  <2> QED
    BY <2>1, <2>2, FS_EmptySet, AuthAssumption
<1> QED
  BY <1>1, <1>2, CreateInvStep, OvershootStep, AuthTypeCorrect, ClientSteps, PTL DEF AuthSpec
=============================================================================
