SPECIFICATION Spec
CONSTANTS
  c1 = c1
  c2 = c2
  Clients = {c1, c2}
  ann = ann
  bob = bob
  Names = {ann, bob}
  p1 = p1
  p2 = p2
  Passwords = {p1, p2}
  NoName = NoName
  NoPw = NoPw
  AdminName = ann
  AdminPw = p1
  CommandLines <- AdminOnly
  MaxId = 1
  MaxToken = 3
  MaxFaults = 0
INVARIANT OtherSessionsSignedOut
CHECK_DEADLOCK FALSE
