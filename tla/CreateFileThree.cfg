SPECIFICATION Spec
CONSTANTS
  c1 = c1
  c2 = c2
  f1 = f1
  MServs <- ThreeMservs
  DServs <- NoDserv
  Clients <- TwoClients
  Names <- OneName
  Nearby <- NearEnds
  MaxCreate <- OnceTwice
  MaxTimeout = 1
  MaxLeave = 0
INVARIANTS
  AnsweredOnce
  CreatedOnce
  EntryIsCalledBack
  SuccessMeansStored
CHECK_DEADLOCK FALSE
