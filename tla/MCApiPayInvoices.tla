-------------------------- MODULE MCApiPayInvoices --------------------------
(* Small instances of ApiPayInvoices for TLC. *)
EXTENDS ApiPayInvoices

OnePayment == {1}
ThreePayments == {1, 2, 3}

ClientQr == [method |-> "qr", owner |-> "client"]
ClientCash == [method |-> "cash", owner |-> "client"]
ClientPhone == [method |-> "phone", owner |-> "client"]
StaffPhone == [method |-> "phone", owner |-> "staff"]

PhoneAnyone == [p \in OnePayment |-> {ClientPhone, StaffPhone}]
QrClient == [p \in OnePayment |-> {ClientQr}]

\* The QR payment may be paid late, the two cash requests stand in its way.
QrThenTwoCash ==
  [p \in Payments |-> IF p = 1 THEN {ClientQr} ELSE {ClientCash}]

\* Bound: one withdrawal request and one piece of provider evidence
\* (a webhook event or a snapshot read) in flight at a time.
FewRequests ==
  /\ Cardinality({<<p, a>> \in Payments \X {"reject", "release"} : a \in act[p]}) <= 1
  /\ Cardinality(inbox) + Cardinality(held) <= 1

\* Bound for three payments: only the QR payment is withdrawn, and its late
\* money comes by webhook.
OnlyQrWithdrawn == FewRequests /\ held = {} /\ \A p \in Payments \ {1} : act[p] = {}
=============================================================================
