SPECIFICATION Spec
CONSTANTS
  Payments <- OnePayment
  Total = 2
  Amounts = {2}
  Kinds <- PhoneAnyone
  MaxVer = 4
INVARIANTS
  OneInvoicePerPayment
  MoneyIsConfirmed
  ClosedHoldsNothing
  RetiredKeyHasNoInvoice
  PaymentStatusInSync
PROPERTY
  MoneyNeverRegresses
CHECK_DEADLOCK FALSE
