----------------------------- MODULE OrderMoney -----------------------------
(***************************************************************************)
(* The vocabulary of money shared by every payment module: the statuses of *)
(* a payment and of a provider invoice, the table of invoice transitions   *)
(* the backend accepts, and the derived payment status of an order.        *)
(*   backend/apps/orders/{models,apipay,debt,reconciliation}.py            *)
(***************************************************************************)
EXTENDS Integers

InProgress == {"requested", "received"}
PaymentStatuses == InProgress \cup {"confirmed", "rejected"}

MoneyReceived == {"paid", "partially_refunded"}

\* "superseded" is the backend's own mark: the client chose another method.
Closed == {"cancelled", "expired", "error", "superseded"}

\* Statuses the reconciliation polls whatever the age of the invoice.
Active == {"creating", "processing", "pending", "cancelling"}

ProviderStatuses ==
  {"processing", "pending", "paid", "cancelling", "cancelled", "expired",
   "error", "partially_refunded"}

RecordStatuses == ProviderStatuses \cup {"creating", "superseded"}

\* Which provider statuses each local status may be replaced by.
AllowedTransitions ==
  [creating           |-> ProviderStatuses,
   processing         |-> ProviderStatuses,
   superseded         |-> ProviderStatuses,
   pending            |-> ProviderStatuses \ {"processing"},
   cancelling         |-> ProviderStatuses \ {"processing"},
   cancelled          |-> {"cancelled"} \cup MoneyReceived,
   expired            |-> {"expired"} \cup MoneyReceived,
   error              |-> {"error", "pending"} \cup MoneyReceived,
   paid               |-> MoneyReceived,
   partially_refunded |-> {"partially_refunded"}]

\* max(0, n): no balance is ever reported negative.
NonNegative(n) == IF n > 0 THEN n ELSE 0

OrderPaymentStatus(total, paid) ==
  IF paid <= 0 THEN "unpaid"
  ELSE IF total > 0 /\ paid >= total THEN "settled"
  ELSE "partial"
=============================================================================
