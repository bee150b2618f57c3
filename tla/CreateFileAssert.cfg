SPECIFICATION Spec
CONSTANTS
  c1 = c1
  c2 = c2
  f1 = f1
  MServs <- TwoMservs
  DServs <- OneDserv
  Clients <- TwoClients
  Names <- OneName
  Nearby <- Anywhere
  MaxCreate <- Once
  MaxTimeout = 0
  MaxLeave = 0
INVARIANTS
  AssertHolds
CHECK_DEADLOCK FALSE
