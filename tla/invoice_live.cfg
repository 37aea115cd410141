SPECIFICATION FairSpec
CONSTANTS
  Payments <- OnePayment
  Total = 1
  Amounts = {1}
  Kinds <- QrClient
  MaxVer = 4
PROPERTIES
  IssueSettles
  PaidIsConfirmed
  ReservationIsFreed
CHECK_DEADLOCK FALSE
