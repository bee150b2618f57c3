SPECIFICATION Spec
CONSTANTS
  c1 = c1  c2 = c2  lA = lA  lB = lB  lC = lC  lD = lD
  Servers = {1, 2, 3}
  Clients <- MCClient
  Locks <- MCLocks3
  Owner <- MCOwner3
  Chain <- MCChain3
  MaxCrash = 1
INVARIANTS SameOrder UnlockFindsLock CountsEnds
CHECK_DEADLOCK FALSE
