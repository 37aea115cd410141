SPECIFICATION Spec
CONSTANTS
  Paid = 2
  Amounts = {2}
  MaxRefunds = 2
INVARIANT
  RevokedGivesNothing
CHECK_DEADLOCK FALSE
