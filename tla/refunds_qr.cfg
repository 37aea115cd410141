SPECIFICATION FairSpec
CONSTANTS
  Paid = 2
  Amounts = {2}
  MaxRefunds = 2
CONSTRAINT OneRevocation
INVARIANT
  NoOverRefund
PROPERTIES
  MoneyIsCounted
  ReservationEnds
CHECK_DEADLOCK FALSE
