--------------------------- MODULE ApiPayInvoices ---------------------------
(***************************************************************************)
(* Payments of one shipped order and the Kaspi invoices issued for them    *)
(* through the ApiPay provider (backend/apps/orders/{services,apipay,      *)
(* webhooks,reconciliation,views}.py and portal/views.py).                 *)
(*                                                                         *)
(* One database transaction of the backend is one action.  A network call  *)
(* made while the order row is locked (provider_scope_fence) is one action *)
(* too: nothing local can run beside it, and what the provider does in the *)
(* meantime commutes with it.  A call made without that lock (search and   *)
(* polling by the reconciliation) is split into reading and applying.      *)
(*                                                                         *)
(* The provider is external: it creates an invoice, moves it, and announces*)
(* each move by a webhook that may be late, reordered or lost.             *)
(***************************************************************************)
EXTENDS OrderMoney, FiniteSets, Functions

CONSTANTS
  Payments,   \* primary keys, assigned in creation order
  Total,      \* what the order costs
  Amounts,    \* sums a client or an employee may ask for
  Kinds,      \* the [method, owner] pairs each payment may be recorded with
  MaxVer      \* bound: moves the provider makes with one invoice

Methods == {"qr", "phone", "cash"}
Owners == {"client", "staff"}
AllKinds == [method : Methods, owner : Owners]
Online == {"qr", "phone"}

ASSUME ConstantsAssumption ==
  /\ Payments \subseteq Nat /\ IsFiniteSet(Payments)
  /\ Total \in Nat
  /\ Amounts \subseteq Nat \ {0}
  /\ Kinds \in [Payments -> SUBSET AllKinds]
  /\ MaxVer \in Nat \ {0}

VARIABLES
  pay,        \* Payment rows
  inv,        \* ApiPayInvoice rows, one-to-one with payments
  orderPaid,  \* Order.payment_status
  issue,      \* the request issuing an invoice for a payment, step by step
  act,        \* reject and release requests that passed their first checks
  search,     \* what the reconciliation's search by key has answered
  held,       \* provider snapshots read and not yet applied
  prov,       \* the provider's invoice of each payment
  inbox       \* webhook events not yet processed

vars == <<pay, inv, orderPaid, issue, act, search, held, prov, inbox>>

-----------------------------------------------------------------------------
(* State *)

NoPayment == [status |-> "none", method |-> "cash", owner |-> "staff",
              amount |-> 0, recv |-> FALSE]
NoRecord == [status |-> "none", mapped |-> FALSE, at |-> 0,
             channel |-> "qr", aged |-> FALSE]
NoIssue == [pc |-> "idle", channel |-> "qr", ans |-> "processing"]
NoInvoice == [status |-> "none", ver |-> 0, count |-> 0]

IssueSteps == {"idle", "wanted", "posting", "answered", "merged", "ambiguous",
               "refused", "recovering", "failed"}

PaymentRows ==
  [status : PaymentStatuses \cup {"none"}, method : Methods, owner : Owners,
   amount : Nat, recv : BOOLEAN]
InvoiceRows ==
  [status : RecordStatuses \cup {"none"}, mapped : BOOLEAN, at : 0..MaxVer,
   channel : Online, aged : BOOLEAN]
IssueStates == [pc : IssueSteps, channel : Online, ans : ProviderStatuses]
ProviderInvoices ==
  [status : ProviderStatuses \cup {"none", "queued"}, ver : 0..MaxVer, count : Nat]

\* ver = 0: the payload carries no provider time.
Snapshots == [p : Payments, status : ProviderStatuses, ver : 0..MaxVer]

TypeOK ==
  /\ pay \in [Payments -> PaymentRows]
  /\ inv \in [Payments -> InvoiceRows]
  /\ orderPaid \in {"unpaid", "partial", "settled"}
  /\ issue \in [Payments -> IssueStates]
  /\ act \in [Payments -> SUBSET {"reject", "release"}]
  /\ search \in [Payments -> {"none", "found", "absent"}]
  /\ held \subseteq Snapshots
  /\ prov \in [Payments -> ProviderInvoices]
  /\ inbox \subseteq Snapshots

-----------------------------------------------------------------------------
(* Money of the order *)

Sum(f, S) == SumFunction([p \in S |-> f[p].amount])

Having(f, statuses) == {p \in Payments : f[p].status \in statuses}
Confirmed(f) == Sum(f, Having(f, {"confirmed"}))
Reserved(f) == Sum(f, Having(f, InProgress))
Remaining(f) == NonNegative(Total - Confirmed(f))
\* Mutant: the sums reserved by other payments are forgotten.
AvailableWithReserved(f) == Remaining(f)

Available(f) == NonNegative(Total - Confirmed(f) - Reserved(f))

\* sync_payment_status: the stored status follows the confirmed money.
Synced(f) == OrderPaymentStatus(Total, Confirmed(f))

Init ==
  /\ pay = [p \in Payments |-> NoPayment]
  /\ inv = [p \in Payments |-> NoRecord]
  /\ orderPaid = Synced(pay)
  /\ issue = [p \in Payments |-> NoIssue]
  /\ act = [p \in Payments |-> {}]
  /\ search = [p \in Payments |-> "none"]
  /\ held = {}
  /\ prov = [p \in Payments |-> NoInvoice]
  /\ inbox = {}

HasRecord(p) == inv[p].status # "none"
Open(p) == pay[p].status \in InProgress
SetStatus(p, s) == [pay EXCEPT ![p].status = s]
RejectIfOpen(p) == IF Open(p) THEN SetStatus(p, "rejected") ELSE pay
RestoredStage(p) == IF pay[p].recv THEN "received" ELSE "requested"

-----------------------------------------------------------------------------
(* apply_invoice_status: one provider status reaches the local record *)

\* Mutant: newer evidence always wins, whatever the transition.
AcceptsByTime(p, s, ts) == ~(ts > 0 /\ inv[p].at > 0 /\ ts < inv[p].at)

Accepts(p, s, ts) ==
  /\ ~(ts > 0 /\ inv[p].at > 0 /\ ts < inv[p].at)
  /\ s \in AllowedTransitions[inv[p].status]

\* Mutant: only closed invoices go.
EvictedClosed(p) ==
  {q \in Having(pay, InProgress) \ {p} : inv[q].status \in Closed}

\* Late money has priority: newest first, the other reservations that can be
\* dropped are, until the rest fits what is left of the order.
Evicted(p) ==
  LET others == Having(pay, InProgress) \ {p}
      droppable == {q \in others :
                      \/ ~HasRecord(q) /\ pay[q].status = "requested"
                      \/ inv[q].status \in Closed}
      newer(q) == {r \in droppable : r > q}
  IN {q \in droppable :
        Sum(pay, others) - Sum(pay, newer(q))
          > Remaining(SetStatus(p, "confirmed"))}

\* Mutant: a closed invoice keeps its payment.
PayAfterClosed(p, s) ==
  IF s \in MoneyReceived THEN SetStatus(p, "confirmed") ELSE pay

PayAfter(p, s) ==
  IF s \in MoneyReceived /\ pay[p].status # "confirmed"
  THEN [q \in Payments |->
          IF q = p THEN [pay[q] EXCEPT !.status = "confirmed"]
          ELSE IF q \in Evicted(p) THEN [pay[q] EXCEPT !.status = "rejected"]
          ELSE pay[q]]
  ELSE IF /\ s = "pending" /\ inv[p].status = "error"
          /\ pay[p].status = "rejected" /\ pay[p].amount <= Available(pay)
  THEN SetStatus(p, RestoredStage(p))
  ELSE IF s \in {"cancelled", "expired", "error"} THEN RejectIfOpen(p)
  ELSE pay

\* The record is mapped to the provider's invoice in the same transaction or
\* has been before.
ApplyStatus(p, s, ts) ==
  LET record == [inv[p] EXCEPT !.mapped = TRUE]
  IN IF Accepts(p, s, ts)
     THEN /\ inv' = [inv EXCEPT ![p] =
                       [record EXCEPT !.status = s,
                                      !.at = IF ts > 0 THEN ts ELSE @]]
          /\ pay' = PayAfter(p, s)
          /\ orderPaid' = IF pay' # pay THEN Synced(pay') ELSE orderPaid
     ELSE /\ inv' = [inv EXCEPT ![p] = record]
          /\ UNCHANGED <<pay, orderPaid>>

-----------------------------------------------------------------------------
(* Recording payments: the cashier's desk and the client's cabinet *)

\* The stage a new payment starts from.
FirstStage(k) ==
  CASE k.owner = "client" -> IF k.method = "qr" THEN "received" ELSE "requested"
    [] k.owner = "staff"  -> IF k.method = "cash" THEN "confirmed" ELSE "requested"

Begin(p, m) ==
  issue' = [issue EXCEPT ![p] =
              IF m \in Online
              THEN [NoIssue EXCEPT !.pc = "wanted", !.channel = m] ELSE @]

CreatePayment(p, k, a) ==
  /\ pay[p].status = "none"
  /\ \A q \in Payments : q < p => pay[q].status # "none"
  /\ a <= Available(pay)
  /\ pay' = [pay EXCEPT ![p] =
               [status |-> FirstStage(k), method |-> k.method,
                owner |-> k.owner, amount |-> a,
                recv |-> FirstStage(k) # "requested"]]
  /\ orderPaid' = IF FirstStage(k) = "confirmed" THEN Synced(pay') ELSE orderPaid
  /\ Begin(p, k.method)
  /\ UNCHANGED <<inv, act, search, held, prov, inbox>>

\* A client who names no sum changes the method of the one open payment of
\* theirs, if no invoice was issued for it.
SwitchMethod(p, m) ==
  LET k == [method |-> m, owner |-> "client"]
      others == Reserved(pay) - pay[p].amount
      sum == Remaining(pay) - others
  IN /\ k \in Kinds[p]
     /\ Having(pay, InProgress) \cap {q \in Payments : pay[q].owner = "client"} = {p}
     /\ ~HasRecord(p)
     /\ m \in Online => issue[p].pc = "idle"
     /\ sum \in 1..Total
     /\ pay' = [pay EXCEPT ![p].status = FirstStage(k), ![p].method = m,
                           ![p].amount = sum,
                           ![p].recv = (FirstStage(k) = "received")]
     /\ Begin(p, m)
     /\ UNCHANGED <<inv, orderPaid, act, search, held, prov, inbox>>

ReceivePayment(p) ==
  /\ pay[p].status = "requested"
  /\ pay' = [pay EXCEPT ![p].status = "received", ![p].recv = TRUE]
  /\ UNCHANGED <<inv, orderPaid, issue, act, search, held, prov, inbox>>

\* Online money is confirmed by the provider, never by an accountant.
ConfirmPayment(p) ==
  /\ pay[p].status = "received"
  /\ inv[p].status \in {"none", "paid"}
  /\ pay[p].amount <= Remaining(pay)
  /\ pay' = SetStatus(p, "confirmed")
  /\ orderPaid' = Synced(pay')
  /\ UNCHANGED <<inv, issue, act, search, held, prov, inbox>>

\* Mutant: reopening forgets sync_payment_status.
ReopenUnsynced(p) ==
  /\ pay[p].status = "confirmed" /\ ~HasRecord(p)
  /\ pay' = SetStatus(p, "received")
  /\ UNCHANGED <<inv, orderPaid, issue, act, search, held, prov, inbox>>

ReopenPayment(p) ==
  /\ pay[p].status = "confirmed" /\ ~HasRecord(p)
  /\ pay' = SetStatus(p, "received")
  /\ orderPaid' = Synced(pay')
  /\ UNCHANGED <<inv, issue, act, search, held, prov, inbox>>

\* Mutant: a payment is restored beside a closed invoice.
RestoreAny(p) ==
  /\ pay[p].status = "rejected" /\ pay[p].amount <= Available(pay)
  /\ pay' = SetStatus(p, RestoredStage(p))
  /\ UNCHANGED <<inv, orderPaid, issue, act, search, held, prov, inbox>>

\* A phone payment goes on to issue its invoice; a QR one does not.
RestorePayment(p) ==
  /\ pay[p].status = "rejected"
  /\ \/ ~HasRecord(p)
     \/ ~inv[p].mapped /\ inv[p].status = "creating"
     \/ inv[p].mapped /\ inv[p].status \notin Closed
  /\ pay[p].amount <= Available(pay)
  /\ pay' = SetStatus(p, RestoredStage(p))
  /\ IF pay[p].method = "phone"
     THEN issue[p].pc = "idle" /\ Begin(p, "phone")
     ELSE UNCHANGED issue
  /\ UNCHANGED <<inv, orderPaid, act, search, held, prov, inbox>>

-----------------------------------------------------------------------------
(* Issuing an invoice (create_invoice, one request at a time by its mutex) *)

Goto(p, step) == issue' = [issue EXCEPT ![p].pc = step]

\* The cashier asks again for the invoice of an open phone payment.
RetryIssue(p) ==
  /\ issue[p].pc = "idle" /\ Open(p) /\ pay[p].method = "phone"
  /\ ~(inv[p].mapped /\ inv[p].status \in Closed)
  /\ Begin(p, "phone")
  /\ UNCHANGED <<pay, inv, orderPaid, act, search, held, prov, inbox>>

Reserve(p) ==
  /\ issue[p].pc = "wanted"
  /\ \/ /\ inv[p].mapped
        /\ Goto(p, "idle") /\ UNCHANGED inv
     \/ /\ ~inv[p].mapped /\ inv[p].status \notin {"none", "creating"}
        /\ Goto(p, "failed") /\ UNCHANGED inv
     \/ /\ ~inv[p].mapped /\ inv[p].status \in {"none", "creating"}
        /\ Goto(p, "failed") /\ UNCHANGED inv      \* no key of the department
     \/ /\ inv[p].status = "none"
        /\ inv' = [inv EXCEPT ![p] = [NoRecord EXCEPT !.status = "creating",
                                                      !.channel = issue[p].channel]]
        /\ Goto(p, "posting")
     \/ /\ ~inv[p].mapped /\ inv[p].status = "creating"
        /\ Goto(p, "recovering") /\ UNCHANGED inv
  /\ UNCHANGED <<pay, orderPaid, act, search, held, prov, inbox>>

NewInvoice(p, s) ==
  prov' = [prov EXCEPT ![p] = [status |-> s, ver |-> 1, count |-> @.count + 1]]

\* The POST itself: created and answered, created but the answer lost, still
\* queued at the provider, never arrived, or refused.
PostInvoice(p) ==
  /\ issue[p].pc = "posting"
  /\ \/ \E s \in {"processing", "pending"}, answer \in {"answered", "ambiguous"} :
          /\ NewInvoice(p, s)
          /\ issue' = [issue EXCEPT ![p].pc = answer, ![p].ans = s]
     \/ /\ \E s \in {"none", "queued"} : prov' = [prov EXCEPT ![p].status = s]
        /\ Goto(p, "ambiguous")
     \/ Goto(p, "refused") /\ UNCHANGED prov
  /\ UNCHANGED <<pay, inv, orderPaid, act, search, held, inbox>>

MergeAnswer(p) ==
  /\ issue[p].pc = "answered"
  /\ inv' = [inv EXCEPT ![p].mapped = TRUE]
  /\ Goto(p, "merged")
  /\ UNCHANGED <<pay, orderPaid, act, search, held, prov, inbox>>

ApplyAnswer(p) ==
  /\ issue[p].pc = "merged"
  /\ ApplyStatus(p, issue[p].ans, 0)
  /\ Goto(p, "idle")
  /\ UNCHANGED <<act, search, held, prov, inbox>>

\* Only a definite refusal releases the reservation.
IssueError(p, definite) ==
  /\ inv' = [inv EXCEPT ![p].status = IF definite THEN "error" ELSE "creating"]
  /\ pay' = IF definite THEN RejectIfOpen(p) ELSE pay
  /\ orderPaid' = IF pay' # pay THEN Synced(pay') ELSE orderPaid

SaveIssueError(p) ==
  /\ issue[p].pc \in {"ambiguous", "refused"}
  /\ IF inv[p].mapped
     THEN Goto(p, "idle") /\ UNCHANGED <<pay, inv, orderPaid>>
     ELSE IssueError(p, issue[p].pc = "refused") /\ Goto(p, "failed")
  /\ UNCHANGED <<act, search, held, prov, inbox>>

\* Mutants: an invoice not found is posted again; it is given up at once.
RepostIssue(p) ==
  /\ issue[p].pc = "recovering" /\ ~inv[p].mapped /\ prov[p].count = 0
  /\ Goto(p, "posting")
  /\ UNCHANGED <<pay, inv, orderPaid, act, search, held, prov, inbox>>
RetireIssue(p) ==
  /\ issue[p].pc = "recovering" /\ ~inv[p].mapped /\ prov[p].count = 0
  /\ IssueError(p, TRUE) /\ Goto(p, "failed")
  /\ UNCHANGED <<act, search, held, prov, inbox>>

\* The key has been used once: look for the invoice, never POST again.
RecoverIssue(p) ==
  /\ issue[p].pc = "recovering"
  /\ \/ /\ inv[p].mapped \/ prov[p].count = 1
        /\ IF inv[p].mapped THEN UNCHANGED <<pay, inv, orderPaid>>
           ELSE \E ts \in {0, prov[p].ver} : ApplyStatus(p, prov[p].status, ts)
        /\ Goto(p, "idle")
     \/ /\ ~inv[p].mapped /\ prov[p].count = 0 /\ inv[p].aged
        /\ IssueError(p, TRUE)
        /\ Goto(p, "failed")
     \/ /\ ~inv[p].mapped       \* too young, quarantined, or the search failed
        /\ Goto(p, "failed")
        /\ UNCHANGED <<pay, inv, orderPaid>>
  /\ UNCHANGED <<act, search, held, prov, inbox>>

RejectUnissued(p) ==
  /\ issue[p].pc = "failed"
  /\ pay' = IF ~inv[p].mapped /\ inv[p].status = "creating" THEN pay
            ELSE RejectIfOpen(p)
  /\ Goto(p, "idle")
  /\ UNCHANGED <<inv, orderPaid, act, search, held, prov, inbox>>

\* The request dies, or was a plain retry that only reports its failure.
AbandonIssue(p) ==
  /\ issue[p].pc # "idle"
  /\ Goto(p, "idle")
  /\ UNCHANGED <<pay, inv, orderPaid, act, search, held, prov, inbox>>

-----------------------------------------------------------------------------
(* The provider (external) *)

\* A closed invoice can still be paid late (CLOSED_INVOICE_STATUSES).
Moves ==
  [processing         |-> {"pending", "error"},
   pending            |-> {"paid", "expired", "error"},
   cancelling         |-> {"cancelled", "paid"},
   error              |-> {"pending"},
   paid               |-> {"partially_refunded"},
   cancelled          |-> {"paid"},
   expired            |-> {"paid"},
   partially_refunded |-> {}]

\* A request that timed out is created or dropped by the provider later, within
\* the grace period the backend allows it.
ProcessQueued(p) ==
  /\ prov[p].status = "queued"
  /\ \/ \E s \in {"processing", "pending"} : NewInvoice(p, s)
     \/ prov' = [prov EXCEPT ![p].status = "none"]
  /\ UNCHANGED <<pay, inv, orderPaid, issue, act, search, held, inbox>>

Payable(p) == prov[p].status \in {"processing", "pending", "cancelling"}

\* Every move is announced; whether the event ever arrives is left open.
MoveTo(p, s) ==
  /\ prov[p].ver < MaxVer
  /\ prov' = [prov EXCEPT ![p].status = s, ![p].ver = @ + 1]
  /\ inbox' = inbox \cup {[p |-> p, status |-> s, ver |-> prov[p].ver + 1]}

ProviderMoves(p) ==
  /\ prov[p].status \in ProviderStatuses
  /\ \E s \in Moves[prov[p].status] : MoveTo(p, s)
  /\ UNCHANGED <<pay, inv, orderPaid, issue, act, search, held>>

-----------------------------------------------------------------------------
(* Withdrawing a payment: cancel_invoice, staff rejection, client release *)

\* A mapped phone invoice only.  The call may be executed and its answer lost.
CancelInvoice(p) ==
  /\ inv[p].mapped /\ inv[p].channel = "phone"
  /\ CASE prov[p].status \in {"processing", "pending"} ->
            \E s \in {"cancelling", "cancelled"} :
              /\ MoveTo(p, s)
              /\ \/ ApplyStatus(p, s, 0)
                 \/ UNCHANGED <<pay, inv, orderPaid>>
       [] prov[p].status = "cancelling" ->
            ApplyStatus(p, "cancelling", 0) /\ UNCHANGED <<prov, inbox>>
       [] prov[p].status = "cancelled" ->      \* invoice_already_cancelled
            ApplyStatus(p, "cancelled", 0) /\ UNCHANGED <<prov, inbox>>
       [] prov[p].status \in MoneyReceived ->  \* invoice_already_paid
            ApplyStatus(p, "pending", 0) /\ UNCHANGED <<prov, inbox>>
       [] OTHER -> FALSE

\* After a cancellation the withdrawal goes on only if the invoice is closed.
CancelThen(p, a) ==
  /\ CancelInvoice(p)
  /\ act' = [act EXCEPT ![p] = IF inv'[p].status \in Closed
                               THEN @ \cup {a} ELSE @]

Intend(p, a) ==
  /\ act' = [act EXCEPT ![p] = @ \cup {a}]
  /\ UNCHANGED <<pay, inv, orderPaid, prov, inbox>>

Unresolved(p) == inv[p].status = "creating" /\ ~inv[p].mapped

RejectRequest(p) ==
  /\ Open(p) /\ "reject" \notin act[p]
  /\ inv[p].status \notin MoneyReceived
  /\ ~Unresolved(p)
  /\ IF inv[p].status \in Closed \cup {"none"} THEN Intend(p, "reject")
     ELSE inv[p].channel = "phone" /\ CancelThen(p, "reject")
  /\ UNCHANGED <<issue, search, held>>

\* Mutant: the status read before the cancellation is trusted.
RejectUnchecked(p) ==
  /\ "reject" \in act[p]
  /\ act' = [act EXCEPT ![p] = @ \ {"reject"}]
  /\ pay' = SetStatus(p, "rejected")
  /\ UNCHANGED <<inv, orderPaid, issue, search, held, prov, inbox>>

RejectPayment(p) ==
  /\ "reject" \in act[p]
  /\ act' = [act EXCEPT ![p] = @ \ {"reject"}]
  /\ pay' = RejectIfOpen(p)
  /\ UNCHANGED <<inv, orderPaid, issue, search, held, prov, inbox>>

\* client_release_invoice_error
Releasable(p) ==
  /\ inv[p].status \notin MoneyReceived
  /\ ~(inv[p].channel = "qr" /\ Unresolved(p))

ReleaseRequest(p) ==
  /\ pay[p].status # "none" /\ pay[p].owner = "client"
  /\ "release" \notin act[p]
  /\ Releasable(p)
  /\ IF inv[p].channel = "phone" /\ inv[p].status \notin Closed \cup {"none"}
     THEN CancelThen(p, "release")
     ELSE Intend(p, "release")
  /\ UNCHANGED <<issue, search, held>>

ReleasePayment(p) ==
  /\ "release" \in act[p]
  /\ act' = [act EXCEPT ![p] = @ \ {"release"}]
  /\ IF Open(p) /\ Releasable(p)
     THEN /\ pay' = SetStatus(p, "rejected")
          /\ inv' = IF HasRecord(p) THEN [inv EXCEPT ![p].status = "superseded"]
                    ELSE inv
     ELSE UNCHANGED <<pay, inv>>
  /\ UNCHANGED <<orderPaid, issue, search, held, prov, inbox>>

-----------------------------------------------------------------------------
(* Evidence from the provider: webhooks and the reconciliation *)

\* An event for an unmapped record maps it by the key it carries.
Webhook(e) ==
  /\ e \in inbox
  /\ inv[e.p].mapped \/ inv[e.p].status \in {"creating", "error"}
  /\ ApplyStatus(e.p, e.status, e.ver)
  /\ inbox' = inbox \ {e}
  /\ UNCHANGED <<issue, act, search, held, prov>>

Snapshot(p) == {[p |-> p, status |-> prov[p].status, ver |-> ts] :
                  ts \in {0, prov[p].ver}}
Busy(p) == search[p] # "none" \/ \E s \in held : s.p = p

\* Mutant: an invoice that is not there is searched for for ever.
SearchFound(p) ==
  /\ Unresolved(p) /\ ~Busy(p) /\ prov[p].count = 1
  /\ \E s \in Snapshot(p) : held' = held \cup {s}
  /\ search' = [search EXCEPT ![p] = "found"]
  /\ UNCHANGED <<pay, inv, orderPaid, issue, act, prov, inbox>>

\* The complete search by key; finding nothing counts only after the grace.
SearchIssue(p) ==
  /\ Unresolved(p) /\ ~Busy(p)
  /\ \/ /\ prov[p].count = 1
        /\ \E s \in Snapshot(p) : held' = held \cup {s}
        /\ search' = [search EXCEPT ![p] = "found"]
     \/ /\ prov[p].count = 0 /\ inv[p].aged
        /\ search' = [search EXCEPT ![p] = "absent"]
        /\ UNCHANGED held
  /\ UNCHANGED <<pay, inv, orderPaid, issue, act, prov, inbox>>

\* A webhook may have mapped the record after the search: it wins.
SettleSearch(p) ==
  /\ search[p] # "none"
  /\ search' = [search EXCEPT ![p] = "none"]
  /\ \/ /\ search[p] = "found"
        /\ inv' = [inv EXCEPT ![p].mapped = TRUE]
        /\ UNCHANGED <<pay, orderPaid>>
     \/ search[p] = "absent" /\ inv[p].mapped /\ UNCHANGED <<pay, inv, orderPaid>>
     \/ search[p] = "absent" /\ ~inv[p].mapped /\ IssueError(p, TRUE)
  /\ UNCHANGED <<issue, act, held, prov, inbox>>

\* Mutant: an invoice closed here is never looked at again.
PollActive(p) ==
  /\ inv[p].mapped /\ inv[p].status \in Active /\ ~Busy(p)
  /\ \E s \in Snapshot(p) : held' = held \cup {s}
  /\ UNCHANGED <<pay, inv, orderPaid, issue, act, search, prov, inbox>>

\* A closed invoice is polled for the lookback (72 hours): the model assumes
\* that its late money and one complete cycle fall into it.
PollStatus(p) ==
  /\ inv[p].mapped /\ inv[p].status \in Active \cup Closed
  /\ ~Busy(p)
  /\ \E s \in Snapshot(p) : held' = held \cup {s}
  /\ UNCHANGED <<pay, inv, orderPaid, issue, act, search, prov, inbox>>

ApplyHeld(p) ==
  /\ search[p] = "none"
  /\ \E s \in held :
       /\ s.p = p
       /\ ApplyStatus(p, s.status, s.ver)
       /\ held' = held \ {s}
  /\ UNCHANGED <<issue, act, search, prov, inbox>>

\* The reconciliation worker dies between reading and applying.
DropHeld(p) ==
  /\ Busy(p)
  /\ held' = {s \in held : s.p # p}
  /\ search' = [search EXCEPT ![p] = "none"]
  /\ UNCHANGED <<pay, inv, orderPaid, issue, act, prov, inbox>>

\* INVOICE_RECOVERY_NOT_FOUND_GRACE passes.  No request takes that long
\* between its reservation and the outcome of its POST, at either end.
Age(p) ==
  /\ Unresolved(p) /\ ~inv[p].aged
  /\ prov[p].status # "queued"
  /\ issue[p].pc \notin {"posting", "answered", "merged", "ambiguous", "refused"}
  /\ inv' = [inv EXCEPT ![p].aged = TRUE]
  /\ UNCHANGED <<pay, orderPaid, issue, act, search, held, prov, inbox>>

-----------------------------------------------------------------------------
Desk(p) ==
  \/ \E k \in Kinds[p], a \in Amounts : CreatePayment(p, k, a)
  \/ \E m \in Methods : SwitchMethod(p, m)
  \/ ReceivePayment(p) \/ ConfirmPayment(p) \/ ReopenPayment(p)
  \/ RestorePayment(p) \/ RetryIssue(p)
  \/ RejectRequest(p) \/ RejectPayment(p)
  \/ ReleaseRequest(p) \/ ReleasePayment(p)

Worker(p) ==
  \/ Reserve(p) \/ PostInvoice(p) \/ MergeAnswer(p) \/ ApplyAnswer(p)
  \/ SaveIssueError(p) \/ RecoverIssue(p) \/ RejectUnissued(p)

Failure(p) == AbandonIssue(p) \/ DropHeld(p)

Reconcile(p) ==
  SearchIssue(p) \/ SettleSearch(p) \/ PollStatus(p) \/ ApplyHeld(p)

Next ==
  \/ \E p \in Payments :
       Desk(p) \/ Worker(p) \/ Failure(p) \/ Reconcile(p) \/ Age(p)
         \/ ProviderMoves(p) \/ ProcessQueued(p)
  \/ \E e \in inbox : Webhook(e)

Spec == Init /\ [][Next]_vars

\* A request ends or dies, time passes, and the periodic reconciliation keeps
\* reading and, however often it dies, now and then finishes a cycle.  The
\* provider decides on a queued request; nothing else is assumed of it, and
\* nothing of users or of webhooks.
Fairness ==
  \A p \in Payments :
    /\ WF_vars(Worker(p))
    /\ WF_vars(Age(p)) /\ WF_vars(ProcessQueued(p))
    /\ WF_vars(SearchIssue(p)) /\ WF_vars(PollStatus(p))
    /\ SF_vars(SettleSearch(p)) /\ SF_vars(ApplyHeld(p))

FairSpec == Spec /\ Fairness

-----------------------------------------------------------------------------
(* Safety *)

\* However often a request is retried, dies or loses its answer, the provider
\* is asked to create at most one invoice per payment (create_invoice).
OneInvoicePerPayment == \A p \in Payments : prov[p].count <= 1

\* Money the provider reported stays confirmed: no rejection, release, late
\* event or recovery leaves a paid record beside an unconfirmed payment.
MoneyIsConfirmed ==
  \A p \in Payments :
    inv[p].status \in MoneyReceived => pay[p].status = "confirmed"

\* A closed invoice holds no reservation, whatever order the closing event,
\* the restoration and the withdrawal came in.
ClosedHoldsNothing ==
  \A p \in Payments : inv[p].status \in Closed => ~Open(p)

\* A key retired as "never issued" really has no invoice at the provider: the
\* grace period and the complete search cannot release a reservation whose
\* invoice exists (recover_invoice_issue_mapping).
RetiredKeyHasNoInvoice ==
  \A p \in Payments :
    inv[p].status = "error" /\ ~inv[p].mapped => prov[p].count = 0

\* The stored payment status of the order follows the confirmed money after
\* every path that confirms, reopens or evicts.
PaymentStatusInSync == orderPaid = Synced(pay)

\* If late money overbooks the order, every reservation that could be dropped
\* has been: what is left is open at the provider or already in the till.
LateMoneyEvicts ==
  Confirmed(pay) + Reserved(pay) > Total =>
    \A p \in Payments : pay[p].status = "requested" => HasRecord(p)

\* The order is overbooked only by money that came for a payment already
\* rejected; no interleaving of requests, retries and restorations does it.
OverbookedOnlyByLateMoney ==
  [][ Confirmed(pay') + Reserved(pay') > Total =>
        \/ Confirmed(pay') + Reserved(pay') <= Confirmed(pay) + Reserved(pay)
        \/ \E p \in Payments : pay[p].status = "rejected"
                               /\ pay'[p].status = "confirmed"
                               /\ inv'[p].status \in MoneyReceived ]_vars

\* Money received is never taken back by older evidence or a local action.
MoneyNeverRegresses ==
  [][ \A p \in Payments :
        inv[p].status \in MoneyReceived =>
          /\ inv'[p].status \in MoneyReceived
          /\ inv[p].status = "partially_refunded" =>
               inv'[p].status = "partially_refunded" ]_vars

-----------------------------------------------------------------------------
(* What makes the safety invariants inductive: where an invoice can come from *)

Issued(p) == prov[p].count = 1

\* The provider holds an invoice exactly when it was asked for one.
CountMatches(p) ==
  IF prov[p].status \in ProviderStatuses THEN Issued(p) ELSE prov[p].count = 0

\* A payment that does not exist has no record and no request; a payment
\* without a record was never posted.
NothingBefore(p) ==
  /\ pay[p].status = "none" => ~HasRecord(p) /\ issue[p].pc = "idle"
  /\ ~HasRecord(p) => inv[p] = NoRecord /\ issue[p].pc \in {"idle", "wanted", "failed"}
  /\ ~HasRecord(p) \/ issue[p].pc \in {"posting", "refused"} => prov[p].status = "none"

\* Whoever knows the invoice knows one that exists.
KnownIsIssued(p) ==
  inv[p].mapped \/ issue[p].pc \in {"answered", "merged"} \/ search[p] = "found"
    => Issued(p)

\* After the grace nothing is on its way to the provider any more.
AgedIsQuiet(p) ==
  /\ inv[p].aged => prov[p].status # "queued" /\ issue[p].pc # "posting"
  /\ search[p] = "absent" => inv[p].aged /\ HasRecord(p) /\ (~inv[p].mapped => ~Issued(p))

RetiredIsQuiet(p) ==
  inv[p].status = "error" /\ ~inv[p].mapped
    => prov[p].status = "none" /\ issue[p].pc # "posting"

Provenance(p) ==
  /\ CountMatches(p) /\ NothingBefore(p) /\ KnownIsIssued(p)
  /\ AgedIsQuiet(p) /\ RetiredIsQuiet(p)

EvidenceIsOfInvoices == \A s \in held \cup inbox : Issued(s.p)

IInv ==
  /\ TypeOK
  /\ EvidenceIsOfInvoices
  /\ \A p \in Payments : Provenance(p)
  /\ MoneyIsConfirmed
  /\ ClosedHoldsNothing

-----------------------------------------------------------------------------
(* Liveness *)

\* An issue with an unknown outcome does not stay unknown.
IssueSettles == \A p \in Payments : Unresolved(p) ~> ~Unresolved(p)

\* What a client paid is confirmed, even if every webhook and every answer was
\* lost, the payment was released meanwhile, or workers keep dying.
PaidIsConfirmed ==
  \A p \in Payments :
    prov[p].status \in MoneyReceived ~> pay[p].status = "confirmed"

\* An invoice the provider closed stops reserving the order's balance.
ReservationIsFreed ==
  \A p \in Payments : prov[p].status \in {"cancelled", "expired"} ~> ~Open(p)

-----------------------------------------------------------------------------
(* What the code says of itself and does not keep *)

\* reject_unissued_payment: "reject the operation if no invoice was issued to
\* the provider" - it never rejects a payment whose invoice can be paid.
RejectsOnlyUnissued ==
  [][ \A p \in Payments :
        issue[p].pc = "failed" /\ Open(p) /\ issue'[p].pc = "idle"
          /\ pay'[p].status = "rejected"
          => ~Payable(p) ]_vars

\* _reject_payment_with_provider: "without leaving a payable phone invoice" -
\* no invoice is created at the provider for a payment already rejected.
NoInvoiceForRejected ==
  [][ \A p \in Payments :
        prov'[p].count > prov[p].count => pay[p].status # "rejected" ]_vars

\* release_client_payment: "release the reserved part without hiding a
\* possible late payment".
ReleaseHidesNoPayment ==
  \A p \in Payments :
    inv[p].status = "superseded" /\ prov[p].status \in MoneyReceived
      ~> pay[p].status = "confirmed"
=============================================================================
