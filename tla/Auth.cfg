CONSTANTS
  u1 = u1
  u2 = u2
  c1 = c1
  c2 = c2
  n1 = n1
  n2 = n2
  k1 = k1
  k2 = k2
  r1 = r1
  r2 = r2
  ann = ann
  bob = bob
  NoUser = NoUser
  NoCharacter = NoCharacter
  NoTicket = NoTicket
  NoName = NoName
  UserIds = {u1, u2}
  Usernames = {ann, bob}
  Username <- UsernameOf
  Name <- NameOf
  Tickets = {k1, k2}
  MaxCharacters = 1
  WebRequests = {r1, r2}
  Verifications = {}
  Characters = {c1, c2}
  Names = {n1, n2}
SPECIFICATION AuthSpec
INVARIANTS NoOrphans OvershootBounded
CHECK_DEADLOCK FALSE
