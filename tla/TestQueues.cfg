SPECIFICATION Spec
CONSTANTS
  LOOP = 4
  MAX_BUF = 10000000
INVARIANT MsTailNotBehindHead
PROPERTY OneIsFifo
PROPERTY LocksAreFifo
PROPERTY MsIsFifo
PROPERTY AllTaken
