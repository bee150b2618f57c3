SPECIFICATION FairSpec
CONSTANTS
  c1 = c1  c2 = c2  c3 = c3  b1 = b1  b2 = b2
  Clients <- MCClients
  Bits <- MCBits
  MaxTry = 1
  MaxCrash = 2
INVARIANTS MutualExclusion NoLeak WaitersAreBlocked
PROPERTIES OnlyOwnerFrees EveryRequestGranted
CHECK_DEADLOCK FALSE
