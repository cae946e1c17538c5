CONSTANTS
  u1 = u1
  u2 = u2
  c1 = c1
  n1 = n1
  k1 = k1
  k2 = k2
  l1 = l1
  s1 = s1
  r1 = r1
  ann = ann
  bob = bob
  NoUser = NoUser
  NoCharacter = NoCharacter
  NoTicket = NoTicket
  NoName = NoName
  UserIds = {u1, u2}
  Usernames = {ann, bob}
  Username <- UsernameOf
  Name <- NameOf
  Tickets = {k1, k2}
  MaxCharacters = 1
  WebRequests = {r1}
  Verifications = {l1}
  Characters = {c1}
  Names = {n1}
  Sessions = {s1}
  SessionOf <- OneSession
SPECIFICATION FairSpec
INVARIANTS OnlyOwners AnsweredOnce
PROPERTIES LoginsAreAnswered
CHECK_DEADLOCK FALSE
