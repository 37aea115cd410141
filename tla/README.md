# Verification of asyl-ltd

`src/` is the order, payment, loading and weighing system of a flour mill: a Django backend
(PostgreSQL, Redis, Celery), a collector process on the weighbridge computer, a Next.js frontend, and
two machines it does not own: the ApiPay payment provider and the camera computer that counts bags.
This directory holds TLA+ models of the parts where the order of events decides whether money, bags or
weighings are right, the TLC runs that check them and the TLAPS proofs about them.

    tlc -workers 2 -config invoice_phone.cfg MCApiPayInvoices.tla
    tlc -workers 2 -config outbox.cfg MCWeighbridgeOutbox.tla
    tlapm WeighbridgeOutbox_proofs.tla
    tlapm WagonArch_proofs.tla

`PROJECT.json` lists the components, the runs, the source lines every definition stands for, a mutation of
the model for every property (with it, the property fails), the hazards and the theorems.

## 1. The system

Paths are under `src/backend/apps/` unless they say otherwise.

| Component | State it keeps | Operations | What is hard | What makes it correct |
|---|---|---|---|---|
| Order payments (`orders/services.py`, `views.py`, `debt.py`, `portal/views.py`) | `Payment` rows, `Order.payment_status` | record, switch method, receive, confirm, reopen, reject, restore, release | several desks, the client and the provider act on one order; checks before the lock, network calls between two transactions | confirmed + reserved money fits the order; received money is never dropped; stored status = derived status |
| ApiPay invoices (`orders/apipay.py`) | one `ApiPayInvoice` per payment: key, provider id, status, provider time | reserve, POST, recover by key, apply status, cancel | the answer of a non-repeatable POST is lost; the process dies; evidence arrives in any order | one invoice per payment; statuses follow the provider; a key is retired only if nothing was issued |
| Webhook inbox (`orders/webhooks.py`) | `ApiPayWebhookEvent` rows | store, replay, defer | early, late, duplicated, lost events | each event counted once; none applied to another account's invoice |
| Reconciliation (`orders/reconciliation.py`, `reconciliation_runner.py`, `tasks.py`) | nothing but `updated_at` | search for unknown issues, poll statuses, under a lease and a request budget | dies between reading and applying; a budget that one record may exhaust | everything unknown is settled; every paid invoice is found |
| ApiPay refunds (`orders/apipay.py`, `refunds.py`, `refund_reconciliation.py`) | `PaymentRefund`, `ApiPayRefund`, totals on the payment | reserve, POST, link, apply, pair, release orphans | the POST is not idempotent; dashboard refunds look the same | never more than was paid is refunded; one local refund per provider refund |
| Kaspi QR refunds (`orders/qr_refunds.py`) | `ApiPayQrRefund` sessions | issue link, apply snapshot, execute, revoke | execute must go out once; revoke against late answers | one money request per session; the reservation ends with the session |
| Order life cycle (`orders/services.py`, `statuses.py`, `transport.py`) | `Order.status`, items | create, edit, approve, ship, cancel | edits against shipping and payments | stock and money follow the status |
| Returns, price fixation, debt payments (`orders/goods_returns.py`, `fixation.py`, `debt_payments.py`) | returns, prices, spread payments | sequential transactions | long chains of legal calls | balances add up |
| Shipments, stock (`shipments/`, `warehouse/services.py`) | `ShipmentSource`, `StockItem`, `StockMovement` | write off, restore, transfer, reconcile after edits | several rows locked in some order; rollback after a partial change | stock = movements; never negative where it must not be |
| Bag counting (`cameras/counting.py`, `sessions.py`, `ai.py`) | `AiCountingSession`, `Order.loading_camera`; the worker on the camera computer | stop at dispatch, clean up (`start` has no caller left) | remote stop with lost answers | a count reaches only its own order; a running orphan is remembered |
| Camera events, segments (`cameras/event_sync.py`, `shipping_segments.py`) | cursor, events, jobs | import, claim, retry | concurrent claims, gaps | no event twice, none skipped |
| Camera analytics and health (`cameras/analytics.py`, ...) | aggregates | reports | image heuristics | outside a state model |
| Weighbridge (`src/backend/weighbridge/`) | SQLite outbox, lane state | capture, attach photo and number, recover, acknowledge | power loss between any two writes; queues of trucks | every weighing delivered once, in order |
| Wagon arch trips (`grain/wagon_arch.py`, `services.py`) | `WagonArchStop` rows, `Wagon` trips | import, open or continue a trip, weigh, apply departures; operators weigh, settle, delete, dismiss | one tick works on rows read before, and may die between any two transactions; wagons are moved under the arch | a stop opens one trip; the weights are those of its first and last stop; no second weight |
| Truck passages (`grain/services.py`, `automatic_routing.py`, ...) | passages, captures | import, correct, close | importer dies between commit and ack | replay changes nothing |
| Login sessions (`accounts/credentials.py`) | refresh tokens, black list, successor cache | log in, rotate, log out | tabs, lost answers, a cache written before the commit | one successor; logout ends all |
| Locks and leases (`common/locks.py`) | advisory locks, Redis keys | claim, refresh, release | expiry under a live holder | only the owner releases |
| Employees, permissions, shop, clients, catalog, sales | reference data | CRUD | little | guards on who may call |
| Bots, notifications, tasks, assistant, event log | messages | send, render | nothing decides on them | - |
| Frontend, deployment | - | presentation; scripts | - | - |

How they interact: a desk or client request writes `Payment`, then issues the invoice after its own
commit; ApiPay answers, announces status changes by webhook and is polled by the reconciliation; all three
paths end in `apply_invoice_status`, which is the only place provider money becomes confirmed money and
which may reject other payments of the order. Orders, payments and invoices are locked in that order.
Shipping ends bag counting and moves stock; the collector's outbox feeds truck passages and wagon trips.

## 2. Modules

| Module | What it is |
|---|---|
| `OrderMoney` | Vocabulary: statuses of payments and invoices, the transition table `_ALLOWED_INVOICE_TRANSITIONS`, the derived payment status of an order. |
| `ApiPayInvoices`, `MCApiPayInvoices` | Payments of one shipped order, their invoices, the provider, the webhooks and the reconciliation, with all properties and the inductive invariant. |
| `ApiPayInvoices_proofs` | Theorems about it, for every value of the constants. |
| `Sums_proofs` | Lemmas about sums over finite sets and over journals, used by the proofs of money, refunds and stock. |
| `ReconcileCycle`, `MCReconcileCycle` | Which invoices one reconciliation iteration searches and polls, and how it spends its request budget. |
| `RefundJournal` | The refunds of one confirmed payment, its two stored totals and the refund from the till. Extended by the next two. |
| `ApiPayRefunds`, `MCApiPayRefunds` | Refunds of an invoice: the POST that cannot be repeated, dashboard refunds, pairing, release of orphans. |
| `ApiPayRefunds_proofs` | Its three safety properties, for any sums and any number of refunds. |
| `QrRefunds`, `MCQrRefunds` | Kaspi QR refund sessions: link, confirmation, the one `execute`, revocation. |
| `QrRefunds_proofs` | That no money is given back twice, but through the sessions two errors of the code give up. |
| `WeighingQueue` | Abstract: what the weighbridge promises the CRM. |
| `WeighbridgeOutbox`, `MCWeighbridgeOutbox` | Collector, writer thread, SQLite file and importer, each of which may die; implements `WeighingQueue`. |
| `WeighbridgeOutbox_proofs` | Theorems about it, the safety part of the refinement among them. |
| `WagonArch`, `MCWagonArch` | What the importer makes of the arch's events: stops, trips and their two weights, beside operators. |
| `WagonArch_proofs` | Its safety properties, for every value of the constants. |
| `LoginSessions`, `MCLoginSessions` | The server's refresh tokens and the tabs of one browser. |
| `LoginSessions_proofs` | Its four safety properties, for any number of tabs, sessions and tokens. |
| `ShipmentStock`, `MCShipmentStock` | Stock of several warehouses under shipments, edits, rollbacks, transfers and goods returns, with their row locks. |
| `ShipmentStock_proofs` | Its four safety properties, for any number of orders, products, warehouses and transactions. |

Every `MC` module only defines the instances (and state constraints) its `.cfg` files or section 6 name.

### ApiPayInvoices and the code

State: `pay` are the `Payment` rows (status, method, who recorded it, amount, whether `received_at` is set);
`inv` the `ApiPayInvoice` rows (`mapped` = has an `invoice_id`, `at` = `provider_status_at`, `aged` = older
than `INVOICE_RECOVERY_NOT_FOUND_GRACE`); `orderPaid` is `Order.payment_status`; `issue` the request that
issues an invoice, by its program counter; `act` the reject and release requests that have passed their
first checks and not yet their last; `search` and `held` what the reconciliation has read and not yet
applied; `prov` and `inbox` belong to the provider: its invoice for each key, how many times it created one,
and the events under way.

Granularity: a database transaction is one action. A provider call made while the order row is locked
(`provider_scope_fence`: recovery by the issuing request, cancellation) is inside it, because nothing local
can run beside it and a provider step commutes with the lock; calls made without that lock (the POST, the
reconciliation's search and poll) are separate actions, so anything may happen between asking and applying.
The issue mutex (`acquire_invoice_issue_lock`) admits one issuing request per payment, hence one program
counter per payment; a second request waits at the mutex and starts as a new one.

| Actions | Code |
|---|---|
| `CreatePayment`, `SwitchMethod`, `ReceivePayment`, `ConfirmPayment`, `ReopenPayment`, `RestorePayment` | `add_payment`, `record_staff_payment`, `create_client_payment`, `receive_payment`, `accountant_confirm_payment`, `reopen_confirmed_payment`, `restore_rejected_payment` |
| `RetryIssue`, `Reserve`, `PostInvoice`, `MergeAnswer`, `ApplyAnswer`, `SaveIssueError`, `RecoverIssue`, `RejectUnissued`, `AbandonIssue` | `create_invoice` and what it calls, one action per transaction; the request may die before each |
| `RejectRequest`/`RejectPayment`, `ReleaseRequest`/`ReleasePayment` | the two transactions of `_reject_payment_with_provider` and of the portal's `release_payment`, with `cancel_invoice` in the first |
| `Webhook`, `SearchIssue`, `SettleSearch`, `PollStatus`, `ApplyHeld`, `DropHeld` | `_replay_one_webhook`; `recover_invoice_issue_mapping`; `reconcile_apipay_invoices`; a worker that dies |
| `ApplyStatus` (used by six actions) | `apply_invoice_status`, including eviction of other reservations by late money |
| `ProviderMoves`, `ProcessQueued` | the provider (external), as the transition table and the recovery code expect it; a cancelled or expired invoice may still be paid |

Left out of it: amounts are integers; currency, department keys and permissions (a request that fails one of
these checks does nothing, or takes the "no key" branch of `Reserve`); refunds (`partially_refunded` is a
provider status only); `allow_overpayment`, which only the debt import passes; cancelling or editing the
order meanwhile; notes and event log.

### ReconcileCycle and the code

The only schedule of `reconcile_apipay_invoices` is `updated_at`: the oldest records come first, and a record younger
than `stale_after` is left out. `line` keeps the records in that order; `touched` are those updated since the last
iteration began, of which any (`fresh`) may still be too young, because the interval equals `stale_after` by default
and a retry comes later. `kind` is what a record is to the iteration; `target`, `left`, `spent` and `todo` are its
local variables: the issue candidate, `requests_remaining`, the requests sent, the batches left.

| Actions | Code |
|---|---|
| `Issue`, `Update`, `Lookback` | everything outside the iteration that makes, moves or ages a record |
| `Begin` | the choice of the issue candidate, which takes the whole budget |
| `Postpone`, `Settle`, `Overtaken` | `recover_invoice_issue_mapping` and the handling of its exceptions |
| `Select`, `Poll` | the candidate query with its limit, `_department_batches`, one status request and its results: a record is touched, or left as it was because the request failed, its evidence was refused or its update raised |
| `Die` | the worker dies or the task fails; the next beat begins anew |

The lease admits one iteration at a time, so there is one. What the answers mean is nondeterministic here and
modelled in `ApiPayInvoices`. `skipped` is history: the records an iteration selected and did not touch. They keep their
place at the head of the line; `Blocked(r)` says that as many of them as one iteration can poll stand before `r`.

### RefundJournal, ApiPayRefunds, QrRefunds and the code

`rows` are the `PaymentRefund` rows of one payment, `refunded` and `reserved` the totals `sync_refund_totals` writes on it
(`Write`: summed anew each time). `Refundable` is `validated_refund_amount` under the lock of the payment.

`ApiPayRefunds`: `prov` are the refunds at the provider (`origin` 0: made in its dashboard), `mirror` the `ApiPayRefund`
rows, `calls` the `create_refund` requests between reservation and answer, `old` the reservations past
`orphan_grace`; `pc`, `snap`, `match`, `complete` are the local variables of one `reconcile_apipay_refunds` iteration.

| Actions | Code |
|---|---|
| `Reserve`, `PostAccepted`, `PostRefused`, `PostUnknown`, `Answer` | the two transactions of `create_refund` and the POST between them, with every kind of answer |
| `Webhook`, `ApplySnapshot` (through `Apply`) | `apply_refund_status`: by identity, by the match of the snapshot, or by the only reservation of that amount |
| `ReadSnapshot`, `Release`, `ReconcilerDies` | `_correlation_matches`, `_release_absent_orphans`, and the worker's death between any two payloads |
| `PayCash`, `DashboardRefund`, `ProviderDecides`, `GrowsOld` | the till, the provider, the clock |

`QrRefunds`: `sess` are the `ApiPayQrRefund` rows (`known` = has a provider id, `executed`, `settled` = past
`EXECUTE_SETTLE_DELAY`), `calls` the requests in flight with the step they have reached, `prov` the sessions at ApiPay.

| Actions | Code |
|---|---|
| `Start`, `LinkPosted`, `LinkFailed`, `LinkStored`, `IssuingStale` | `start_qr_refund` and the stale link of `refresh_qr_refund` |
| `Webhook`, `Refresh` (through `ApplySnapshot`) | `apply_qr_refund_snapshot` from both of its callers |
| `ExecuteStart`, `Executed`, `ExecuteAnswered`, `CallDies` | `execute_qr_refund`, automatic or by hand: claim, POST, answer or none |
| `RevokeCheck`, `RevokeAtProvider`, `RevokeFinish` | the two transactions of `revoke_qr_refund` |

A revoke may overlap the request of its own link, and a webhook may bring any status the session ever had, at any time.
Both lead to errors (section 6), so two sets of history name the sessions they have struck: `revived`, whose
reservation a revoke gave up and which got its link all the same or was being executed; `outdated`, finished as failed
by a confirmation older than what its execute had reached. The properties speak of all other sessions (`Disowned`).

Left out: several invoices of one payment, which invoices a refund cycle takes, the choice among the customer's
purchases (an answer of the provider), the backoff of failed reads.

### WeighbridgeOutbox and the code

Site `"truck"` is `collector.py` (one event per truck, two evidence workers), site `"wagon"` is `wagon_collector.py`
with its `StopTracker`; an instance checks one or both. `made` are the events in the order their numbers were
drawn, `tracker` is `StopTracker.standing`, `pending` the writes `OutboxWriter` holds in memory, `rows` and `standing`
the two tables of the SQLite file, `taken` what the CRM has committed, `importing` what it has committed and not yet
acknowledged. A crash of the collector keeps `rows`, `standing`; one of the importer `rows`, `taken`. `missed` is history: the
arrivals whose poll ended at a locked state file, before they were queued.

| Actions | Code |
|---|---|
| `Comes`, `Leaves` | the vehicle (external) |
| `CaptureTruck` | `Collector._poll` with `start_evidence`, a busy worker giving its part up |
| `WagonArrives`, `ArrivalRemembered` | `StopTracker.observe`; then `remember_standing` and the queued arrival: the process may die between |
| `WagonDeparts`, `DepartureRemembered` | `StopTracker._depart`; the departure queued first, then the state forgotten |
| `StandingBusy`, `StableReading` | `remember_standing` finds the file locked, `CollectorProcess.poll` swallows the error and the rest of the poll is skipped; a later stable reading writes the state again |
| `WorkerDone`, `Flush` | a worker's `finish`; `OutboxWriter` committing the head of its line |
| `Crash`, `Restart` | death of the process; `Outbox.recover` and `restore_standing` |
| `Import`, `Ack`, `ImporterDies` | `import_event` (idempotent by event id), `Outbox.ack` after the commit |

Left out: when a weight counts as stable, OCR itself, outages of the scale, the journal of incidents, the scale
lane (`Lane`) that shares the file, what an imported event does to a passage.

### WagonArch and the code

What `WeighbridgeOutbox` delivers from the arch becomes trips. `seen`, `gone`, `feed` and `graced` are the world: stops made,
wagons gone, events not acknowledged, stops past `WAGON_ARCH_EXIT_GRACE_SECONDS`. `stops` are the `WagonArchStop` rows
(`since` = where the window of `_previous_pending` starts, `root` = the `continues` chain, `entered`, `out` = the two
`..._applied_at`, `blocked` = there is a reason), `trips` the `Wagon` rows (`by` = the stop that opened it, `gross` and
`tare` = whose weight was booked, a stop or a hand). `phase`, `todo`, `mem`, `job` are the local state of the one tick:
which loop, what is left of it, the objects **as they were read**, and the transaction that comes next. `Save`
is `save(update_fields=...)`: only what the object changed is written, from an object that may be stale.

| Actions | Code |
|---|---|
| `Arrive`, `Depart`, `GraceOver` | the wagons and the clock |
| `ImportArrival`, `ImportDeparture`, `Ack`, `TickDies` | `_import_arrival`, `_import_departure`, the acknowledging loop; a tick that ends anywhere |
| `OpenNothing`, `OpenedBefore`, `ContinueTrip`, `OpenTrip` | the first transaction of `_open_and_apply`: `open_trip`, `_previous_pending`, `_continues`, `arrive_expected_wagon` |
| `Enter`, `WeighEntry` | `apply_entry`: its checks on the object, then `record_simple_entry_weight` under the lock of the trip |
| `Leave`, `WeighExit` | `apply_departure` likewise, `record_simple_exit_weight` |
| `ReadArrivals`, `ReadDepartures`, `EndTick` | `apply_pending`: its two reads, also with events left in the outbox (a tick takes ten) |
| `RegisterArrival`, `WeighByHand`, `Resolve`, `DeleteTrip`, `Dismiss` | the operators' requests |
| `AssignSilo` | external: somebody gives a silo to a trip that has none (section 6) |

Abstracted: a departure applied from inside `open_trip` is one step with it; whether a silo is full and whether a
weight is off the expected one are free choices; the clock is read at the decision, not at the start of the tick; which of
several expected trips of one number is taken is free. Left out: stocks and reservations of silos, photos,
`blocked` trips, shipments by wagon.

### LoginSessions and the code

The server: `minted`, `valid`, `black` are the tokens of each session, the committed `OutstandingToken` rows and
`BlacklistedToken`; `successor` the cache entry a rotation leaves for 120 seconds; `aged` the tokens past an hour;
`refused` sessions of a changed password or disabled account. The browser: `cookie`, `hint` (localStorage), `access`
per tab and `news`, the storage events under way: for which tab, and whether the hint was removed or replaced. `flight` has one request per tab and one (`"gone"`) that nobody waits for.
`ended` and `excused` are history, for the properties only.

| Actions | Code |
|---|---|
| `SendRefresh`, `SendLogout`, `SendLogin`, `Reload` | `api.ts` `refreshAccess`, `accessFor`; `auth.ts` `signOut`, `login`, behind `withAuthLock` |
| `RefuseRefresh`, `Keep`, `Rotate`, `CommitRotation` | `refresh_session`: the row lock, the successor read or made, the commit |
| `BeginLogout`, `CommitLogout`, `EmptyLogout`, `ServeLogin`, `PasswordChanged` | `end_session`, `LoginView`, `_check_session_user` |
| `HearRefresh`, `HearLogin`, `HearLogout`, `Abandon`, `Unheard` | what a tab does with an answer or a timeout |
| `StorageEvent` | `app-shell.tsx`: a removed hint makes the tab log out locally, which forgets the hint if it is of the tab's own session; a replaced one makes it read the session anew |
| `GraceEnds`, `HourPasses` | the clock |

Left out: cleaning of expired rows, two-factor details, other browsers of the same user, and a commit that fails after
the cache was written (section 6).

### ShipmentStock and the code

`items`, `status`, `rows` (`ShipmentSource`), `deducted`, `stock` (`StockItem.bags`), `transferred` (what transfers and the
opening balance put in a cell), `goods` (one goods return). A transaction `tx[t]` is what it still has to lock, in the
order of the code, and what it holds; PostgreSQL's compatibility of `FOR UPDATE` with the `KEY SHARE` of deferred
foreign keys is part of it, and so is the deadlock detector.

| Actions | Code |
|---|---|
| `AskDispatch`, `AskComplete`, `Checks`, `CommitShip` | `loader_dispatch`, `manual_complete_order`; `dispatch_order`, `mark_order_shipped`, `write_off` |
| `AskEdit`, `CommitEdit` | `replace_items` with `reconcile_sources` and `absorb_delta` |
| `AskRollback`, `CommitRollback` | `rollback_shipment` with `restore_stock` |
| `AskTransfer`, `CommitTransfer` | `transfer_stock` |
| `AskReturn`, `AcceptLine`, `CommitClose`, `CommitReopen` | `confirm_goods_return_item`, `close_goods_return`, `reopen_goods_return` |
| `Grant`, `DeadlockAbort` | a row lock is granted; the database breaks a circle |

`Init` includes shipments an older release or a price fixation left behind, whose rows disagree with the items.

Left out: the shop's replenishment, receipts and manual adjustments, the stock-card trigger, deleted products, money
checks, rail wagons as rows of their own, AI sessions, a rollback to a status other than confirmed,
`set_order_warehouse`, and the lock of the client in a return.

## 3. Runs

| Run | Instance | Question |
|---|---|---|
| `invoice_phone` | one phone payment of a client or of the staff, four provider moves, everything in flight at once | the state invariants and `MoneyNeverRegresses` |
| `invoice_mixed` | a QR payment released and paid late beside two cash requests, total 3, sums 1 to 3 | late money evicts all it must (`LateMoneyEvicts`) and nothing else overbooks the order |
| `invoice_live` | one QR payment of a client under `FairSpec`, four provider moves, webhooks and answers may all be lost | `IssueSettles`, `PaidIsConfirmed`, `ReservationIsFreed` |
| `reconcile_rotates` | three records of two departments, one without a key, budget 1, batch 1, one issue that can never be settled, polls that may leave any record untouched | every issue gets its search, every active invoice its poll unless an issue waits or it is `Blocked` |
| `outbox` | three trucks or two wagon stops, two starts of the collector, importer deaths, locked state files | each weighing taken once, in order, with its evidence, nothing missing but what met the locked file; `ImplementsQueue`, liveness included |
| `refunds_apipay` | a payment of 2, refunds of 1 or 2, two people asking at the desk, at the till or in the dashboard | nothing over-refunded, counted twice or shown completed too early; all of it counted, all reservations ended |
| `refunds_qr` | a payment of 2, two full refunds by session or cash | no second refund of the same money and none uncounted, but for the sessions of the two errors; every reservation ends |
| `wagon_arch` | three stops, one upset (a death, or an operator), trips expected with and without number and silo | one wagon per trip, the right weights, those of settled trips unchanged; every stop settled or explained |
| `sessions` | two tabs, two sessions, two tokens in all, with and without Web Locks | one live token per session, logout final, a running session not lost |
| `stock` | two orders, two products, two warehouses, two operations at once | every bag explained, undo exact, sorted writers without deadlock |
| `qr_resurrects`, `stock_deadlock` | the instances of the runs above, with a property that makes no exception | two disagreements of section 6; TLC finds each |

Bounds.

- Invoices: `MaxVer` limits the states an invoice goes through at the provider: 4 lets it be created, pending, cancelled or
  expired and then paid, or go to error, back to pending and on to paid; `invoice_mixed` has 3, created, closed and paid
  late. A record can be reopened only by moves of the provider, so longer lives repeat these. Three payments are needed for
  the order of eviction. `OnlyQrWithdrawn` withdraws only the QR payment, brings its money by webhook, and allows one
  withdrawal and one piece of evidence in flight; `invoice_phone` has no such constraint.
- `reconcile_rotates` has the budget at its tightest (one request, one record in a batch), so two of three records always
  wait, every rotation of the line occurs and one record passed over is enough to block the others; a larger budget only
  shortens the wait and needs more such records.
- `outbox`: three trucks give one before, during and after a restart; a wagon's stop is two events and may itself span the
  restart, so `TwoWagons` cuts the wagons to two stops. `MaxEpoch` 2 is one restart; a second restart finds what the
  first one finds: the file. The proofs of section 5 have none of these bounds.
- Refunds: `MaxRefunds` 2 lets two people ask for the same money, which is what every safety property is about; `Paid` 2 lets
  one refund be partial or the whole sum. `OneRevocation` keeps `refunds_qr` to one revoke in flight, which may last through
  the life of another session; `qr_resurrects` and the proof of `NoOverRefund` have no such constraint.
- `wagon_arch`: three stops give a wagon moved twice, or one moved and the next one behind it; a trip opened, continued and
  closed by force. Deaths and operators share `MaxUpsets`, so one run covers a death anywhere or one intervention
  anywhere; the invariant of section 5 was checked with two stops and two upsets too, and is proved without bounds. Departures
  without a weight or with a gap are in the module, and in the proofs, but not in the instance.
- `sessions`: `MaxTokens` 2 bounds the tokens of all sessions together: either one session that rotates once, or two logins.
  A race needs two tabs and the request nobody waits for. A rotation beside a second login, and a token rotated twice,
  are beyond the run; the proofs of section 5 have no such bound, and `IInv` was checked with one session of three tokens.
- `stock`: `MaxOps` 2 over an initial state that already has a history (three source distributions, shipped or not,
  written off or not) covers every pair of operations, and two transactions are enough for a circle of waits.

Deadlock is checked in `wagon_arch` only, whose tick never ends. Elsewhere the system may stop: an order whose payments are settled has nothing left to do, a browser may stay
closed, and the bounds on vehicles, refunds and operations end every other behaviour. In `stock` a circle of waiting
transactions is a property of its own.

Every action fires in some passing run (checked with `-coverage`).

## 4. Fairness

`ApiPayInvoices` `FairSpec` assumes only what the deployment provides:

- a request in progress takes its next step or dies (`WF(Worker)`; `AbandonIssue` disables it); the client
  timeout of a provider call is 10 s, so the 30-minute grace passes only after the request has ended at both
  ends (guard of `Age`, `WF(Age)`, `WF(ProcessQueued)`);
- the reconciliation runs every 30 seconds, so what it may read it reads (`WF(SearchIssue)`,
  `WF(PollStatus)`), and however often it dies between reading and applying, it sometimes completes
  (`SF(SettleSearch)`, `SF(ApplyHeld)`: `DropHeld` keeps disabling them);
- nothing is assumed of users, webhooks, or the provider's later moves.

Two assumptions stand in this fairness and are not proved by it: late money of a closed invoice comes, and one
cycle completes, within the 72-hour lookback; and no other unknown issue takes the whole request budget of
every cycle. `ReconcileCycle` is about the latter (section 6).

`ReconcileCycle`: iterations begin (`WF(Begin)`) and, however often the worker dies, some get to select, some
searches end, and a record selected again and again is polled (`SF`). Nothing is assumed of what a poll brings: every request
may fail and every record stay untouched, for ever. `SettlingSpec`, used only to show what even it cannot give, adds that
an issue searched for again and again is settled if it can be.

`WeighbridgeOutbox`: workers are bounded by timeouts (`WF(WorkerDone)`), the writer thread is restarted by every poll
(`WF(Flush)`), the service manager restarts the collector (`WF(Restart)`), a poll ends (`WF(ArrivalRemembered)`,
`WF(DepartureRemembered)`; `StandingBusy` ends it too), the monitor calls the importer every tick (`WF(Import)`); the importer may die before an
acknowledgement, but not before every one (`SF(Ack)`).

`ApiPayRefunds`: the refund reconciliation runs on a timer and does not die before the same payload for ever
(`WF(ReadSnapshot)`, `SF(ApplySnapshot)`, `SF(Release)`); the provider decides (`WF(ProviderDecides)`), calls end by
timeout (`WF(PostUnknown)`), time passes (`SF(GrowsOld)`: an iteration in progress puts it off). `QrRefunds`:
`reconcile_qr_refunds` reads the sessions that may still move (`SF(Refresh)`), calls end, the provider closes every
session in the end; the latter happen only so often in a session's life, so one `WF` of their disjunction stands for one of
each. Nothing is assumed of webhooks or desks in either.

`WagonArch`: the monitor starts a tick every few seconds and a tick goes on (`WF(Import)`), the grace period ends
(`WF(GraceOver)`). Deaths of ticks are bounded by `MaxUpsets`, so some ticks are complete; nothing is assumed of operators.

`LoginSessions` and `ShipmentStock` have safety properties only.

## 5. Proofs

`ApiPayInvoices_proofs` proves for any finite set of payments, amounts, kinds and any `MaxVer`: `TypeCorrect`,
`NoDoubleInvoice` (`OneInvoicePerPayment`), `PaidStaysConfirmed` (`MoneyIsConfirmed`),
`NoReservationBehindClosed` (`ClosedHoldsNothing`), `RetirementIsSafe` (`RetiredKeyHasNoInvoice`),
`OrderStatusInSync` (`PaymentStatusInSync`) and `NoRegression` (`MoneyNeverRegresses`, an action property), all from
`Invariance` (`Spec => []IInv`). The only assumption is `ConstantsAssumption`.

None of these is inductive alone. That the provider has at most one invoice needs to know who may still ask for
one: `IInv` adds `Provenance(p)`, which ties the record, the request's program counter, the search and the
provider together (an unposted payment has no record; who knows an invoice knows one that exists; an aged record
has nothing on its way; a retired one had none), and `EvidenceIsOfInvoices` (events and snapshots speak of issued
invoices). With these, a POST is possible only from a record just created, whose invoice count is zero.
`MoneyIsConfirmed` and `ClosedHoldsNothing` go through `ApplyStatus`: a lemma for each says what one status does to
the record, its payment and the others, using that an evicted payment is open and so not beside received
money. Each action then has one lemma; `Invariance` puts them together by one case per disjunct of `Next`.
`PaymentStatusInSync` is its own induction: every step that changes the confirmed sum writes `Synced(pay')`; the
others leave the set of confirmed payments and their amounts alone, so the sum is the same (no arithmetic on the
fold is needed).

Two properties do need that arithmetic: `LateMoneyEvictsHolds` (`LateMoneyEvicts`) and `OverbookedOnlyByLateMoneyHolds`
(`OverbookedOnlyByLateMoney`). What an order holds is written as one sum: `Weight` is a payment's amount if its status
counts, `Load` the sum of all weights, which equals `Confirmed + Reserved`. `MoneyStep` says that every step keeps all recorded payments positive
and either makes no payment count that did not, or ends with a load that fits the total, or is late money; one
lemma per action, none of which ever adds weight except after comparing with `Available`. For late money,
`EvictionFits`: `Evicted` drops a payment unless what is newer already frees enough; amounts being positive, the
oldest droppable one that stays would give a load that fits, so an order still overbooked has none left.

`Sums_proofs` has the facts about sums that these, the refunds' and the stock's proofs cite: a sum changes by what one element
changes, splits over disjoint parts, is monotone, is the sum of an image. `MapThenSumSet` recurs over
sets, and the library's induction over sets cannot be instantiated here: each lemma takes a smallest set
for which it fails and derives a contradiction.

`WeighbridgeOutbox_proofs` proves for either site, any number of vehicles and any number of restarts:
`OrderOfCapture` (`CaptureOrder`), `NothingAckedUntaken` (`AckedIsTaken`), `TakenWithEvidence` (`EvidenceTravels`),
`LineKeepsAll` (`NothingDropped`), `OneArrival` (`OneArrivalPerStop`), `ArrivalBeforeDeparture`
(`DepartureFindsArrival`), `TypeCorrect` and `ImplementsQueueSafely`: `Spec => Queue!SafeSpec`. The only assumption is
`OutboxAssumption`. The runs use `FairSpec`, which implies `Spec`. A locked state file is a step of `Spec`; what it costs is
the exception `missed` in `NothingDropped` and `DepartureFindsArrival`.

Its `IInv` has five layers, each preserved with the help of those before it:

1. `Counted`: event numbers are drawn in order and never run out within the bounds; what the collector remembers it has
   made; while it is down nothing is in memory.
2. `InOrder`: an arrival about to be queued is younger than everything in the line, the line is in order, and everything on
   disk is older than the line. `CaptureOrder` is its first conjunct; alone, it does not survive `Flush`.
3. `Kept`: an event of the living collector is on disk, in the line, about to be queued or in `missed`, and the file has no
   other gap among the events of one collector. This gives `NothingDropped` and `DepartureFindsArrival`.
4. `OneStop`: while a recorded wagon stands, both the file and the tracker remember its arrival; this is what makes a
   restart under a standing wagon harmless.
5. `Taken`: the CRM has a prefix of the file, of finished rows, all but its last acknowledged.

The refinement maps `recorded` to the numbers in the file and `taken` to itself: `Flush` of a `put` is `Record`, `Import`
is `Take` (or a stutter when the importer died after its commit), every other action is a stutter. `Taken` is what makes
`Import` take the next one, `InOrder` what makes `Record` new.

`WagonArch_proofs` proves for any events, any expected trips, any number of stops, deaths and interventions:
`OneWagon` (`OneWagonPerTrip`), `RightWeights` (`WeightsOfTheTrip`) and `SettledStays` (`SettledWeightsStay`, an action
property), from `Invariance` (`Spec => [](IInv /\ Reported)`). The only assumption is `ArchAssumption`.

The tick decides on objects that may be stale, so the heart of `IInv` is what stays true of them (`Faithful`): nobody
but the importer gives a stop its trip, so an object knows the trip of its row unless that trip was deleted, and a row
that was closed stays so for it. Then:

1. `Remembered` and `Linked`: a stop that opened a trip has `opened` set, whoever deletes the trip, so a repeated tick does not open
   another one (`OneTripPerStop`); a stop without `opened` has neither trip nor chain.
2. `OneChainPerTrip`: a stop joins only the trip of the previous stop, takes its root and ends its wait in the same
   transaction.
3. `LastOfTrip`: when the departures are read, no stop can join a trip any more, so the object of a departure is the last of its chain
   even if it is stale.
4. `Booked`: the full weight is that of the root; an empty one comes after every stop of the trip and leaves none waiting.
   It is `WeightsOfTheTrip` made inductive. `NotWeighedYet` makes it start right.

The rows that `Save` writes, and the trips it leaves alone, have lemmas of their own (`Saved`, `Calm`, `Harmless`, `Fits`);
then each action has one lemma. The maximum in `_previous_pending` exists by the well-foundedness of the naturals.

`ApiPayRefunds_proofs` proves for any sums and any number of refunds `CountedOnceHolds` (`CountedOnce`),
`CompletedIsTrueHolds` (`CompletedIsTrue`) and `NoOverRefundHolds` (`NoOverRefund`) from `Invariance`. `IInv` has a part that
holds always and one (`Held`) for a payment of which nothing was refunded in the dashboard:

1. `LinkedOnce`, `Truthful`, `MethodsKept`: rows have different links; whoever reports a final status, be it a snapshot,
   an answer, a mirror or a row, reports that of the provider, which never leaves a final status. This gives `CountedOnce` and
   `CompletedIsTrue`.
2. `Held`: every refund of the provider was posted for one reservation, which is linked to it or is the one reservation
   that waits (`Matched`, `OneWaits`); so all ways of pairing, by identity or by sum, find the same row (`OwnLink`). A
   reservation is released only after everything posted for it has been seen (`Seen`, `CallsMatched`), so money in
   flight always has its row, and the live refunds are an injective image of counted rows: `SumImage` and `refunded + reserved <= Paid`
   give `NoOverRefund`.

`QrRefunds_proofs` proves `NoOverRefundHolds` (`NoOverRefund`) for any sums, any number of sessions and any timing, without
assumptions beyond `JournalAssumption`. `IInv` says that a session asks for its
link and executes once each (`LinkedOnce`, `ExecutedOnce`), what the provider's statuses mean (`ProviderTrue`) and, the
heart of it, `GivenUpIsOver`: when a row has been marked failed, and its sum so freed for another refund, no money can
leave through its session any more, neither by a request in flight nor by a later one, unless the session is `Disowned`.
A disowned session may complete its row after the sum was freed, so `refunded + reserved <= Paid` does not hold as it
stands; `Balanced` is that inequality with the rows of disowned sessions counted as failed. Both halves of `Disowned` are
needed: `RevokedGivesNothing` and `UnexecutedGivesNothing` each lack one and are violated (section 6).

`LoginSessions_proofs` proves for any finite sets of tabs, any number of sessions and of tokens per session `OneSuccessorHolds`
(`OneSuccessor`), `LogoutEndsHolds` (`LogoutEnds`), `SessionSurvivesHolds` (`SessionSurvives`) and `GraceHoldsHolds` (`GraceHolds`)
from `Invariance`, and `TypeCorrect`. `IInv` has three layers:

1. The tokens: those of a session form one chain, all but its end used up or being rotated (`Chain`); a request that holds a
   row lock holds it alone and knows what it found (`Exchange`); whoever has a token of a session has the latest one, or nobody
   has and no one can get it, or the grace, a logout or its end covers both (`Family`). `OneSuccessor` and `GraceHolds` need no
   more.
2. Ended sessions: nobody has a token of an ended session that anything is granted for (`EndedIsSpent`), hence a request sent
   after the end gets nowhere (`LateIsSpent`); the token of a new session is only in the answer to its login (`FreshLogin`).
3. The browser, with Web Locks: one request at a time (`OneAtATime`); an exchange nobody waits for is in `excused`
   (`LostExchangeExcused`); the cookie of a running session is what every request of a tab carries, and its latest token
   whenever no exchange is under way (`BrowserHasLatest`). `SessionSurvives` follows.

`ShipmentStock_proofs` proves for any finite sets of orders, products, warehouses and open transactions
`CellsExplainedHolds` (`CellsExplained`), `UndoIsExactHolds` (`UndoIsExact`), `SortedWritersHolds`
(`SortedWritersNeverDeadlock`), `RowsStayTrueHolds` (`RowsStayTrue`, an action property) and `TypeCorrect`, from
`Invariance`. The only assumption is `StockAssumption`: ids are numbers, the sets are finite, an order has bags of at
least one product.

1. The data. `absorb_delta` takes the cells of a product in a strict total order. `Greedy`: taking from them one after the
   other takes exactly the need, or everything. Hence `AbsorbTotal` (a correction changes the product's bags by its delta) and
   `IncreaseUndone` (the cell that got the increase is first in the order of the new rows, so the decrease takes
   it from there). `CheckedTotal` and `ReconciledTotal`: what an order is taken to have shipped adds up to its items, before and after an edit.
   A shipment without rows has none to correct, so it matters that its reconciled cells are those that the
   next look at it derives from the new items (`LegacyFollows`).
2. `Covered`: a transaction other than a transfer holds its first lock, on the row of its order or of the return, from its checks to its
   commit, and what the checks found is still true. It is kept because nobody else writes that row: first locks are exclusive
   (`Exclusive`, `FirstLocksDiffer`).
3. `CellsExplained` follows one order at a time (`OneOrderMoves`): a commit moves the cards by the difference of
   what its order took before and takes now (`Truth`). `RecordedTruth` says that for rows just written this is the
   rows themselves; it gives `RowsStayTrue` too.
4. `Rising`: what a sorted writer asks for comes, in the order of the locks (`Precedes`), after everything it holds, or
   it holds it already, or it is a shared lock on a warehouse, which only an update lock could refuse. So every wait of one for another leads
   to a lock further on, and in a finite circle somebody would have nobody before him (`NoEndlessChain`).

Sorted enumerations of finite sets (`Ascending`, `CellOrder`) are CHOOSE expressions; `SortedExists` shows that there is one, by a
smallest set without.

Every `IInv` was checked by TLC before it was proved (the outbox with `MaxStops` and `MaxEpoch` 2; the refunds and
the stock on the instances of their runs; the sessions on that of `sessions` and with one session of three tokens).

Only model-checked: the liveness properties, and the fairness part of `ImplementsQueue` (out of the prover's reach); all
of `ReconcileCycle`, whose properties are liveness. Every invariant and action property of a passing run is a theorem. The type invariants no
run names (one per module, to spend the runs' properties on more than types) hold on the instances of section 3; those of
`ApiPayInvoices`, `WeighbridgeOutbox`, `WagonArch`, `LoginSessions` and `ShipmentStock` are proved too, as a part of `IInv`.

## 6. Where the code and its own words differ

With a run that shows it:

- `orders/qr_refunds.py:175`: the link of a session arrives after the session was revoked and brings it back to life,
  while its reservation has been given up; the same money can then be refunded twice. A revoke that read the session before
  its link was stored also ends one that is executing by then (`qr_resurrects`).
- `orders/services.py:1355`: the items an edit inserts refer to products by deferred foreign keys, which take shared locks on
  them at commit, after and outside the sorted ones of its stock corrections; two edits, each keeping a product the
  other changes, can deadlock (`stock_deadlock`), against `warehouse/services.py:482`, "two corrections with
  overlapping mixed products cannot deadlock". The database rolls one back.

Stated as definitions of the modules; adding one to the properties of the cfg named shows the counterexample:

- `RejectsOnlyUnissued` (`invoice_phone.cfg`): `orders/apipay.py:938` `reject_unissued_payment`, "reject the operation if no
  invoice was issued to the provider", rejects whenever the record is not an unmapped `creating` one. After an ambiguous POST
  a webhook may map a payable invoice before this check; the payment is then rejected under it. The money of such
  an invoice is still found and confirmed (`PaidIsConfirmed`).
- `NoInvoiceForRejected` (`invoice_phone.cfg`): `orders/views.py:220`, "reject a pending payment without leaving a payable
  phone invoice": a payment rejected after its creation and before its invoice was reserved still gets its invoice,
  because `_reserve_invoice_issue` does not read the payment's status.
- `ReleaseHidesNoPayment` (`invoice_phone.cfg`): `orders/services.py:483`, "release the reserved part without hiding a
  possible late payment": a phone record of unknown issue is superseded; webhooks map only `creating` and `error`
  records and the search takes only `creating` ones, so its late money is never recorded.
- `RequestsWithinBudget` (`ReconcileCycle`, two records of two departments, budget 1, batch 2):
  `orders/reconciliation.py:143`, "`request_budget` is a hard cap on provider requests for this call": the candidates are
  limited to `requests_remaining * batch_size`, but are sent in batches of one department each, so several
  departments need more requests than that.
- `UnexecutedGivesNothing` (`refunds_qr.cfg`): `orders/qr_refunds.py:222`, "the money has not left" of a session still
  confirmed `EXECUTE_SETTLE_DELAY` after its execute. A webhook of the confirmation, delivered late or deferred in the inbox,
  says so too. If the answer of the execute was lost, the session is finished as failed and its reservation freed while the
  money leaves; the `completed` that follows finds a final status and is not applied, so the sum can be refunded again.
- `ActiveIsPolled` (`ReconcileCycle`, under `SettlingSpec`, `TwoRecords` of `OneDepartment`, one of them in `Poison`, budget and
  batch 1): `orders/reconciliation.py:33`, "active provider operations must remain recoverable regardless of age": a stale
  issue takes the whole budget of its cycle. One that cannot be settled (several invoices for its key, a department without
  its key, too many pages) is postponed and stale again at the next, the interval being `stale_after`, and no active
  invoice is polled while it exists; with an interval shorter than that, two such issues do the same. Webhooks still arrive.
- `EveryDepartureFindsArrival` (`outbox.cfg`): `weighbridge/wagon_collector.py:232` adopts the stop, then writes the state
  file, then queues the arrival; when the file is locked beyond its timeout the poll ends, the next one finds the stop adopted
  and never queues its arrival, and the importer drops its departure. `runtime.py:51` promises that "the next tick
  retries with the same state". `NothingDropped` and `DepartureFindsArrival` except exactly these arrivals (`missed`).
- `HandTareStays` (`wagon_arch.cfg`): `grain/wagon_arch.py:398`, "the operator has closed the trip by hand: the automation has
  nothing to add". Between this check and the lock of the trip an operator books the exit and it ends in a
  discrepancy; the transition table lets a discrepancy be weighed again, and the importer writes its own weight over the
  operator's. The interactive path passes `expected_status` for exactly this; the automatic one does not.
  `SettledWeightsStay` excepts the weights of a discrepancy for this reason.
- `DismissalHolds` (`wagon_arch.cfg`): `grain/wagon_arch.py:522`, "the operator has settled it: the stop is closed and waits
  for the automation no more". A loop of the tick that read the stop before writes its own status over it, and the stop
  asks for attention again.
- `AttentionHasReason` (`wagon_arch.cfg`): a trip deleted between the read and `apply_entry` puts the stop in attention with the reason
  "wagon_deleted", and `_open_and_apply` (`:306`) clears the reason at once: the operator sees a stop that waits for
  them and not why.

Seen while modelling, not in a run:

- `grain/wagon_arch.py`: a stop blocked because its number is already on the site is tried again by every tick. When the
  trip on the site is the same wagon, registered by hand, the stop opens a second trip with no wagon in it as soon as
  the first one completes.
- A trip the importer creates has no supply, so no route gives it a silo, and nothing in the program assigns one
  to it later; numbered expected trips come only from outside it. So without a supply the entry stays blocked until
  somebody writes to the database (`AssignSilo`).
- `grain/services.py` `delete_wagon` locks the trip and then, by `SET_NULL`, its stop rows, `open_trip` the other way round: the two may
  deadlock; the database rolls one back.
- `orders/reconciliation.py:282`, `:243` and `apipay.py:1858`: a record whose update raises, whose batch fails or whose evidence is
  refused as stale keeps its `updated_at`, so it stays first in line; a budget's worth of these keep the rest from being
  polled (`Blocked` in `PolledUnlessBlocked`).
- `weighbridge/wagon_collector.py:254` says that the standing stop is forgotten "only after the departure is queued: a
  crash in between would otherwise forget the stop without having recorded its exit"; but the queue is in memory, so a
  crash after both and before the writer's commit forgets it all the same, and the passage is left open.
- `accounts/credentials.py:188`: the successor is put into the cache before the transaction commits. A commit that fails leaves two
  live tokens: the old one, and the successor whose row does not exist.
- `frontend/src/lib/api.ts:168` decides by the `newValue` of the storage event and not by the present hint: the "removed" of an
  earlier logout, heard after this tab has logged in again, makes it forget the new hint while its cookie is live
  (`SessionSurvives` says nothing of a browser without a hint).
- Without Web Locks two refreshes of one browser are only kept apart by the 120 seconds of grace; a reordered answer may
  put an older cookie back (`SessionSurvives` speaks of browsers that have them).
- `orders/goods_returns.py:256` and `:341` lock the stock cells of a return in the order of its lines, so two returns, or a
  return and a shipment, may deadlock; the database rolls one back (`SortedWritersNeverDeadlock` names who does not).

## 7. Not modelled, and the plan

Next, most important first:

1. Truck passages: `grain/services.py` passages, `automatic_routing.py`, `weighing_identity.py`, the scale lane and
   `vehicle_weight_capture.py`. Property: a passage gets the weights of one vehicle, in order, though captures are matched by time
   and number; composed with `WeighingQueue` in the place of the outbox.
2. `PaymentLedger`, the abstract promise of the payment components (an order's money: promised, received, given back), and
   `ApiPayInvoices` with `RefundJournal` shown to implement it.
3. Leases (`common/locks.py:122`: an expired holder still at work) and the row locks and backoff of the webhook inbox.
4. Camera event import (`cameras/event_sync.py`): cursor, claims and retries.

What the models above leave out of their own components is said in section 2. Beyond that:

- Bag counting: `start` has no caller left in the program. What remains is a best-effort stop of the remote worker at
  dispatch and rollback; nothing can be counting then but a worker an older release left behind.
- The heuristics of `StopTracker` and of number recognition: which weights are stable and which photos show the same
  wagon is a matter of thresholds; the models take any outcome.
- Order edits beyond stock, price fixation and spreading of debt payments: single transactions on one locked order.
- Reports, analytics, camera health: aggregates over rows, no state of their own that decides anything.
- Employees, permissions, the internal shop, clients, catalog and sales: reference data behind sequential forms.
- Bots, notifications, tasks, assistant, event log, dashboard: nothing decides on what they send or show.
- Frontend pages (other than the session code in `LoginSessions`) and deployment scripts.
