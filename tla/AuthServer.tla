----------------------------- MODULE AuthServer -----------------------------
(***************************************************************************)
(* The auth server (auth/Controllers/AuthController.cs): users and their   *)
(* characters in a MySQL database, login tickets with a time to live in    *)
(* Redis.  Requests are served concurrently; every await of a handler is   *)
(* one access to the database or to Redis, and one step here.  Nothing     *)
(* holds a transaction across two of them.                                 *)
(*                                                                         *)
(* Ids are AUTO_INCREMENT and never used twice, and a ticket is a new      *)
(* Guid: an id that was given out keeps its owner for good, whether or not *)
(* its row still exists.  The answers are told apart as ok, refused (4xx)  *)
(* and failed (500).  Reading the list of characters changes nothing and   *)
(* is left out.                                                            *)
(***************************************************************************)
EXTENDS Integers, FiniteSets

CONSTANTS
  WebRequests,     \* requests of clients served at the same time
  Verifications,   \* requests of the game server
  UserIds, Usernames,
  Username,        \* the name a user id is registered under
  Characters,      \* character ids
  Names,
  Name,            \* the name a character id is created with
  Tickets,
  NoUser, NoCharacter, NoTicket, NoName,
  MaxCharacters    \* the three of CreateCharacter

Requests == WebRequests \cup Verifications

ASSUME AuthAssumption ==
  /\ WebRequests \cap Verifications = {}
  /\ Username \in [UserIds -> Usernames]
  /\ Name \in [Characters -> Names]
  /\ NoUser \notin UserIds
  /\ NoCharacter \notin Characters
  /\ NoTicket \notin Tickets
  /\ MaxCharacters \in Nat \ {0}
  /\ IsFiniteSet(WebRequests)
  /\ IsFiniteSet(Characters)

VARIABLES
  users,        \* rows of the table users
  newUsers,     \* user ids not given out yet
  characters,   \* rows of the table players
  owner,        \* the user a character id was created for
  tickets,      \* keys session:<ticket> in Redis
  ticketUser,   \* the user a ticket was issued to
  request       \* where each request is

userVars      == <<users, newUsers>>
characterVars == <<characters, owner>>
ticketVars    == <<tickets, ticketUser>>
authVars      == <<userVars, characterVars, ticketVars, request>>

Operations == {"register", "login", "verify", "create", "delete"}
Results    == {"ok", "refused", "failed"}
Steps      == {"insert user", "issue", "ticket", "player", "name", "count",
               "insert", "password", "erase players", "erase user", "erase ticket"}
Texts      == Usernames \cup Names \cup {NoName}

Request ==
  [op : Operations \cup {"none"}, at : Steps \cup Results \cup {"idle"},
   user : UserIds \cup {NoUser}, ticket : Tickets \cup {NoTicket},
   text : Texts, character : Characters \cup {NoCharacter}]

Idle == [op |-> "none", at |-> "idle", user |-> NoUser, ticket |-> NoTicket,
         text |-> NoName, character |-> NoCharacter]

AuthTypeOK ==
  /\ users \subseteq UserIds \ newUsers
  /\ newUsers \subseteq UserIds
  /\ characters \subseteq Characters
  /\ owner \in [Characters -> UserIds \cup {NoUser}]
  /\ tickets \subseteq Tickets
  /\ ticketUser \in [Tickets -> UserIds \cup {NoUser}]
  /\ request \in [Requests -> Request]

AuthInit ==
  /\ users = {}
  /\ newUsers = UserIds
  /\ characters = {}
  /\ owner = [c \in Characters |-> NoUser]
  /\ tickets = {}
  /\ ticketUser = [k \in Tickets |-> NoUser]
  /\ request = [r \in Requests |-> Idle]

-----------------------------------------------------------------------------
(* What a step does to the request that takes it.                            *)

MoveTo(r, at, u) ==
  LET q == request[r]
  IN request' = [request EXCEPT ![r] =
       [op |-> q.op, at |-> at, user |-> u, ticket |-> q.ticket, text |-> q.text,
        character |-> q.character]]

GoOn(r, at) == MoveTo(r, at, request[r].user)

(* The answer to the game server is kept until it is read.                   *)
Answer(r, result) ==
  IF r \in WebRequests THEN request' = [request EXCEPT ![r] = Idle] ELSE GoOn(r, result)

IsAt(r, op, at) == request[r].op = op /\ request[r].at = at

(* A client's request begins with its first access; one that is refused      *)
(* there changes nothing and is left out.                                    *)
Begin(r, op, at, u, k, n) ==
  /\ request[r] = Idle
  /\ request' = [request EXCEPT ![r] = [op |-> op, at |-> at, user |-> u, ticket |-> k,
                                        text |-> n, character |-> NoCharacter]]
  /\ UNCHANGED <<userVars, characterVars, ticketVars>>

-----------------------------------------------------------------------------
(* Register and Login.                                                       *)

Registered(n) == {u \in users : Username[u] = n}

(* Register finds no user of this name.                                      *)
Register(r, n) ==
  Registered(n) = {} /\ Begin(r, "register", "insert user", NoUser, NoTicket, n)

(* CreateUserAsync: the column is UNIQUE, and the INSERT fails when another  *)
(* request has registered the name since the look-up.                        *)
CreateUser(r) ==
  /\ IsAt(r, "register", "insert user")
  /\ IF Registered(request[r].text) # {}
     THEN Answer(r, "failed") /\ UNCHANGED userVars
     ELSE \E u \in newUsers :
            /\ Username[u] = request[r].text
            /\ users' = users \cup {u}
            /\ newUsers' = newUsers \ {u}
            /\ MoveTo(r, "issue", u)
  /\ UNCHANGED <<characterVars, ticketVars>>

(* Login finds the user, and the password is right.                          *)
Login(r, u) == u \in users /\ Begin(r, "login", "issue", u, NoTicket, Username[u])

(* StringSetAsync, for the user read before: it may be deleted by now.       *)
IssueTicket(r) ==
  /\ request[r].at = "issue"
  /\ \E k \in Tickets :
       /\ ticketUser[k] = NoUser
       /\ ticketUser' = [ticketUser EXCEPT ![k] = request[r].user]
       /\ tickets' = tickets \cup {k}
  /\ Answer(r, "ok")
  /\ UNCHANGED <<userVars, characterVars>>

-----------------------------------------------------------------------------
(* The end of a ticket, and Verify.                                          *)

(* A client logs out, or the ticket's hour is over.                          *)
Logout(k) ==
  /\ k \in tickets
  /\ tickets' = tickets \ {k}
  /\ UNCHANGED <<ticketUser, request, userVars, characterVars>>

FindTicket(r) ==
  /\ IsAt(r, "verify", "ticket")
  /\ IF request[r].ticket \in tickets
     THEN MoveTo(r, "player", ticketUser[request[r].ticket])
     ELSE Answer(r, "refused")
  /\ UNCHANGED <<userVars, characterVars, ticketVars>>

(* Mutant: whose character it is is not compared.                            *)
FindPlayerOfAnyone(r) ==
  /\ IsAt(r, "verify", "player")
  /\ Answer(r, IF request[r].character \in characters THEN "ok" ELSE "refused")
  /\ UNCHANGED <<userVars, characterVars, ticketVars>>

(* GetPlayerByIdAsync, and the comparison of its owner.                      *)
FindPlayer(r) ==
  /\ IsAt(r, "verify", "player")
  /\ Answer(r, IF /\ request[r].character \in characters
                  /\ owner[request[r].character] = request[r].user
               THEN "ok" ELSE "refused")
  /\ UNCHANGED <<userVars, characterVars, ticketVars>>

-----------------------------------------------------------------------------
(* CreateCharacter.                                                          *)

Named(n)        == {c \in characters : Name[c] = n}
CharactersOf(u) == {c \in characters : owner[c] = u}

(* The ticket is found.                                                      *)
CreateCharacter(r, k, n) ==
  k \in tickets /\ Begin(r, "create", "name", ticketUser[k], NoTicket, n)

IsPlayerNameExists(r) ==
  /\ IsAt(r, "create", "name")
  /\ IF Named(request[r].text) # {} THEN Answer(r, "refused") ELSE GoOn(r, "count")
  /\ UNCHANGED <<userVars, characterVars, ticketVars>>

(* Mutant: a user with as many characters as allowed may have one more.      *)
CountCharactersInclusive(r) ==
  /\ IsAt(r, "create", "count")
  /\ IF Cardinality(CharactersOf(request[r].user)) > MaxCharacters
     THEN Answer(r, "refused") ELSE GoOn(r, "insert")
  /\ UNCHANGED <<userVars, characterVars, ticketVars>>

CountCharacters(r) ==
  /\ IsAt(r, "create", "count")
  /\ IF Cardinality(CharactersOf(request[r].user)) >= MaxCharacters
     THEN Answer(r, "refused") ELSE GoOn(r, "insert")
  /\ UNCHANGED <<userVars, characterVars, ticketVars>>

(* The INSERT fails on a name that was taken or a user that was deleted      *)
(* since they were read (UNIQUE and FOREIGN KEY of the table).               *)
CreatePlayer(r) ==
  /\ IsAt(r, "create", "insert")
  /\ IF Named(request[r].text) # {} \/ request[r].user \notin users
     THEN Answer(r, "failed") /\ UNCHANGED characterVars
     ELSE \E c \in Characters :
            /\ owner[c] = NoUser
            /\ Name[c] = request[r].text
            /\ owner' = [owner EXCEPT ![c] = request[r].user]
            /\ characters' = characters \cup {c}
            /\ Answer(r, "ok")
  /\ UNCHANGED <<userVars, ticketVars>>

-----------------------------------------------------------------------------
(* DeleteUser.                                                               *)

(* The ticket is found.                                                      *)
DeleteUser(r, k) ==
  k \in tickets /\ Begin(r, "delete", "password", ticketUser[k], k, NoName)

(* GetUserByIdAsync: no such user, a wrong password, or the right one.       *)
CheckPassword(r) ==
  /\ IsAt(r, "delete", "password")
  /\ \/ Answer(r, "refused")
     \/ request[r].user \in users /\ GoOn(r, "erase players")
  /\ UNCHANGED <<userVars, characterVars, ticketVars>>

DeletePlayers(r) ==
  /\ IsAt(r, "delete", "erase players")
  /\ characters' = characters \ CharactersOf(request[r].user)
  /\ GoOn(r, "erase user")
  /\ UNCHANGED <<owner, userVars, ticketVars>>

(* Mutant: the foreign key of the table is dropped.                          *)
DeleteUserOnly(r) ==
  /\ IsAt(r, "delete", "erase user")
  /\ users' = users \ {request[r].user}
  /\ IF request[r].user \in users THEN GoOn(r, "erase ticket") ELSE Answer(r, "refused")
  /\ UNCHANGED <<newUsers, characterVars, ticketVars>>

(* DeleteUserAsync takes with it the characters created since (ON DELETE     *)
(* CASCADE); no row is affected when another request was faster.             *)
DeleteUserRow(r) ==
  /\ IsAt(r, "delete", "erase user")
  /\ users' = users \ {request[r].user}
  /\ characters' = characters \ CharactersOf(request[r].user)
  /\ IF request[r].user \in users THEN GoOn(r, "erase ticket") ELSE Answer(r, "refused")
  /\ UNCHANGED <<newUsers, owner, ticketVars>>

(* Only the ticket that came with the request is deleted.                    *)
DeleteTicket(r) ==
  /\ IsAt(r, "delete", "erase ticket")
  /\ tickets' = tickets \ {request[r].ticket}
  /\ Answer(r, "ok")
  /\ UNCHANGED <<ticketUser, userVars, characterVars>>

-----------------------------------------------------------------------------
(* MySQL or Redis does not answer: the exception becomes a 500, and what the *)
(* request has done so far stays.                                            *)
AccessFails(r) ==
  /\ request[r].at \in Steps
  /\ Answer(r, "failed")
  /\ UNCHANGED <<userVars, characterVars, ticketVars>>

Arrive(r) ==
  \/ \E n \in Usernames : Register(r, n)
  \/ \E u \in UserIds : Login(r, u)
  \/ \E k \in Tickets, n \in Names : CreateCharacter(r, k, n)
  \/ \E k \in Tickets : DeleteUser(r, k)

ServeClient(r) ==
  \/ CreateUser(r) \/ IssueTicket(r)
  \/ IsPlayerNameExists(r) \/ CountCharacters(r) \/ CreatePlayer(r)
  \/ CheckPassword(r) \/ DeletePlayers(r) \/ DeleteUserRow(r) \/ DeleteTicket(r)
  \/ AccessFails(r)

(* Verify, for the game server.                                              *)
Verify(r) == FindTicket(r) \/ FindPlayer(r) \/ AccessFails(r)

ClientNext ==
  \/ \E r \in WebRequests : Arrive(r) \/ ServeClient(r)
  \/ \E k \in Tickets : Logout(k)

AuthNext == ClientNext \/ \E r \in Verifications : Verify(r)

(* The auth server without a game server; Login composes the two.            *)
AuthSpec == AuthInit /\ [][ClientNext]_authVars

-----------------------------------------------------------------------------
(* A character never outlives its user, although DeleteUser deletes the      *)
(* characters and the user in two steps and CreateCharacter may insert one   *)
(* in between, or after the deletion, for a user it has read before          *)
(* (AuthController.DeleteUser, CreateCharacter).                             *)
NoOrphans == \A c \in characters : owner[c] \in users

(* The requests that have counted the characters of u and go on to insert.   *)
Inserting(u) == {r \in Requests : IsAt(r, "create", "insert") /\ request[r].user = u}

(* How far the limit ("Maximum character limit reached") is exceeded when    *)
(* requests overtake each other: a user can have one character less than the *)
(* limit, and one for each request that counted before the others inserted   *)
(* (AuthController.CreateCharacter).                                         *)
OvershootBounded ==
  \A u \in UserIds :
    Cardinality(CharactersOf(u)) + Cardinality(Inserting(u))
      <= MaxCharacters - 1 + Cardinality(WebRequests)
=============================================================================
