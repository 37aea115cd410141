SPECIFICATION FairSpec
CONSTANTS
  Records <- ThreeRecords
  Department <- TwoDepartments
  Keyed = {"main"}
  Poison = {1}
  Budget = 1
  Batch = 1
PROPERTIES
  EveryIssueIsSearched
  PolledUnlessBlocked
CHECK_DEADLOCK FALSE
