----------------------------- MODULE RefundJournal -----------------------------
(***************************************************************************)
(* The refunds of one confirmed payment (backend/apps/orders/refunds.py and*)
(* models PaymentRefund, Payment): the journal, the two totals kept on the *)
(* payment, and the refund paid from the till.  ApiPayRefunds and QrRefunds*)
(* add the ways that go through the provider.                              *)
(***************************************************************************)
EXTENDS Naturals, Sequences, FiniteSets, FiniteSetsExt

CONSTANTS
  Paid,      \* the amount of the payment
  Amounts,   \* amounts a refund may ask for
  MaxRefunds \* bound: refunds people ask for

ASSUME JournalAssumption ==
  /\ Paid \in Nat \ {0} /\ Amounts \subseteq Nat \ {0}
  /\ MaxRefunds \in Nat

VARIABLES
  rows,       \* PaymentRefund rows: [method, status, amount, link]
  refunded,   \* Payment.refunded_amount
  reserved    \* Payment.pending_refund_amount

journal == <<rows, refunded, reserved>>

RefundStatuses == {"pending", "completed", "failed"}
RefundRows(methods, links) ==
  [method : methods, status : RefundStatuses, amount : Nat, link : links]

NewRow(method, status, amount, link) ==
  [method |-> method, status |-> status, amount |-> amount, link |-> link]

Indexes(rs, P(_)) == {i \in DOMAIN rs : P(rs[i])}
SumOf(rs, P(_)) == MapThenSumSet(LAMBDA i : rs[i].amount, Indexes(rs, P))
Total(rs, status) == SumOf(rs, LAMBDA r : r.status = status)

JournalInit == rows = <<>> /\ refunded = 0 /\ reserved = 0

\* sync_refund_totals: the totals are summed anew from the journal.
Write(rs) ==
  /\ rows' = rs
  /\ refunded' = Total(rs, "completed")
  /\ reserved' = Total(rs, "pending")

\* Payment.available_for_refund of a confirmed payment.
Minus(a, b) == IF a > b THEN a - b ELSE 0
\* Mutant: what is reserved is not subtracted.
AvailableWithReserved == Minus(Paid, refunded)

Available == Minus(Minus(Paid, refunded), reserved)

\* validated_refund_amount, under the lock of the payment.
Refundable(a) == a \in Amounts /\ a <= Available

\* create_cash_refund: the money is given out on the spot.
CashRefund(a) ==
  /\ Refundable(a)
  /\ Write(Append(rows, NewRow("cash", "completed", a, 0)))

\* settle_reserved_refund overwrites the status, whatever it was.
Settled(i, status) == [rows EXCEPT ![i].status = status]

Cash == SumOf(rows, LAMBDA r : r.method = "cash")
=============================================================================
