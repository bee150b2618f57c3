SPECIFICATION FairSpec
CONSTANTS
  c1 = c1  c2 = c2  lA = lA  lB = lB  lC = lC  lD = lD
  Servers = {1, 2, 3}
  Clients <- MCClients
  Locks <- MCLocks4
  Owner <- MCOwner4
  Chain <- MCChain4
  MaxCrash = 0
INVARIANTS SameOrder ArrivesInPlace WakeupPending
PROPERTY EveryLockEnds
CHECK_DEADLOCK FALSE
