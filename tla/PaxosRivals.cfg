SPECIFICATION Spec
CONSTANTS
  N = 4
  NormalTopics = {"x"}
  Starts <- Rivals
INVARIANTS Agreement VersionAgreement
CHECK_DEADLOCK FALSE
