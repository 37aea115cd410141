SPECIFICATION Spec
CONSTANTS
  a = a
  b = b
  Tabs <- TwoTabs
  LockModes <- BothModes
  MaxSessions = 2
  MaxTokens = 2
INVARIANTS
  OneSuccessor
  LogoutEnds
  SessionSurvives
  GraceHolds
SYMMETRY Symmetric
CHECK_DEADLOCK FALSE
