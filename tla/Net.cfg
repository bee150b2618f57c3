SPECIFICATION FairSpec
CONSTANTS
  Size = 2
  Room = 2
  MaxSock = 2
  MaxMsg = 2
  MaxPeer = 2
  Talkers = {1}
  MaxSend = 3
INVARIANTS
  StreamsRight
  RefsExact
  NothingLost
PROPERTIES
  PendingSent
  CloseTold
CHECK_DEADLOCK FALSE
