SPECIFICATION FairSpec
CONSTANTS
  c1 = c1
  c2 = c2
  f1 = f1
  MServs <- TwoMservs
  DServs <- OneDserv
  Clients <- TwoClients
  Names <- OneName
  Nearby <- Anywhere
  MaxCreate <- Once
  MaxTimeout = 0
  MaxLeave = 1
INVARIANTS
  MservsAgree
PROPERTIES
  EveryCreateAnswered
CHECK_DEADLOCK FALSE
