SPECIFICATION Spec
CONSTANTS
  Payments <- ThreePayments
  Total = 3
  Amounts = {1, 2, 3}
  Kinds <- QrThenTwoCash
  MaxVer = 3
CONSTRAINT OnlyQrWithdrawn
INVARIANT
  LateMoneyEvicts
PROPERTY
  OverbookedOnlyByLateMoney
CHECK_DEADLOCK FALSE
