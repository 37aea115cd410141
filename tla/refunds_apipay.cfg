SPECIFICATION FairSpec
CONSTANTS
  Paid = 2
  Amounts = {1, 2}
  MaxRefunds = 2
INVARIANTS
  NoOverRefund
  CountedOnce
  CompletedIsTrue
PROPERTIES
  RefundIsCounted
  ReservationEnds
CHECK_DEADLOCK FALSE
