SPECIFICATION Spec
CONSTANTS
  N = 2
  NormalTopics = {"x"}
  Starts <- Join
INVARIANTS ChosenKept LearnCountExact
CHECK_DEADLOCK FALSE
