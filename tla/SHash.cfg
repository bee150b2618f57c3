SPECIFICATION Spec
CONSTANTS
  Key = {1, 2, 3, 4, 5}
  Hash <- MCHash
  Value = {1, 2}
  NElem = 2
  MaxElem = 8
INVARIANT TableSound
PROPERTY MapSpec
