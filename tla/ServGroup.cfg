SPECIFICATION FairSpec
CONSTANTS
  Procs <- TwoProcs
  MaxConn = 2
  MaxCall = 2
  MaxFault = 1
INVARIANTS
  WaitForConnAsserts
  OneConnection
  CalledBackOnce
  OwnAnswer
PROPERTIES
  Reconnected
  CallsEnd
CHECK_DEADLOCK FALSE
