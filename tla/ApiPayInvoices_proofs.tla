----------------------- MODULE ApiPayInvoices_proofs -----------------------
(* Theorems about ApiPayInvoices, for every set of payments and every order. *)
EXTENDS ApiPayInvoices, Sums_proofs

-----------------------------------------------------------------------------
(* Types of the helpers *)

LEMMA OrderStatusType ==
  ASSUME NEW t, NEW n
  PROVE  OrderPaymentStatus(t, n) \in {"unpaid", "partial", "settled"}
BY DEF OrderPaymentStatus

LEMMA StatusSets ==
  /\ InProgress \subseteq PaymentStatuses
  /\ "confirmed" \in PaymentStatuses /\ "rejected" \in PaymentStatuses
  /\ ProviderStatuses \subseteq RecordStatuses
  /\ MoneyReceived \subseteq ProviderStatuses
  /\ "creating" \in RecordStatuses /\ "superseded" \in RecordStatuses
BY DEF InProgress, PaymentStatuses, RecordStatuses, MoneyReceived, ProviderStatuses

LEMMA SetStatusType ==
  ASSUME pay \in [Payments -> PaymentRows], NEW p \in Payments,
         NEW s \in PaymentStatuses
  PROVE  SetStatus(p, s) \in [Payments -> PaymentRows]
BY DEF SetStatus, PaymentRows

LEMMA RestoredStageType ==
  ASSUME NEW p \in Payments
  PROVE  RestoredStage(p) \in PaymentStatuses
BY DEF RestoredStage, PaymentStatuses, InProgress

LEMMA FirstStageType ==
  ASSUME NEW k \in AllKinds
  PROVE  FirstStage(k) \in PaymentStatuses
BY DEF FirstStage, AllKinds, Owners, PaymentStatuses, InProgress

LEMMA MarkedRowType ==
  ASSUME inv \in [Payments -> InvoiceRows], NEW p \in Payments
  PROVE  /\ [inv EXCEPT ![p].mapped = TRUE] \in [Payments -> InvoiceRows]
         /\ [inv EXCEPT ![p].aged = TRUE] \in [Payments -> InvoiceRows]
<1>1. [inv[p] EXCEPT !.mapped = TRUE] \in InvoiceRows
  BY DEF InvoiceRows
<1>2. [inv[p] EXCEPT !.aged = TRUE] \in InvoiceRows
  BY DEF InvoiceRows
<1> QED BY <1>1, <1>2

LEMMA PayAfterType ==
  ASSUME pay \in [Payments -> PaymentRows], NEW p \in Payments, NEW s
  PROVE  PayAfter(p, s) \in [Payments -> PaymentRows]
<1>1. CASE s \in MoneyReceived /\ pay[p].status # "confirmed"
  <2>1. \A q \in Payments : [pay[q] EXCEPT !.status = "confirmed"] \in PaymentRows
    BY StatusSets DEF PaymentRows
  <2>2. \A q \in Payments : [pay[q] EXCEPT !.status = "rejected"] \in PaymentRows
    BY StatusSets DEF PaymentRows
  <2> QED BY <1>1, <2>1, <2>2 DEF PayAfter
<1>2. CASE ~(s \in MoneyReceived /\ pay[p].status # "confirmed")
  BY <1>2, SetStatusType, RestoredStageType, StatusSets DEF PayAfter, RejectIfOpen
<1> QED BY <1>1, <1>2

LEMMA ApplyStatusType ==
  ASSUME TypeOK, NEW p \in Payments, NEW s \in ProviderStatuses,
         NEW ts \in 0..MaxVer, ApplyStatus(p, s, ts)
  PROVE  /\ inv' \in [Payments -> InvoiceRows]
         /\ pay' \in [Payments -> PaymentRows]
         /\ orderPaid' \in {"unpaid", "partial", "settled"}
<1> DEFINE record == [inv[p] EXCEPT !.mapped = TRUE]
<1>0. inv[p] \in InvoiceRows
  BY DEF TypeOK
<1>1. record \in InvoiceRows
  BY <1>0 DEF InvoiceRows
<1>2. [record EXCEPT !.status = s, !.at = IF ts > 0 THEN ts ELSE @] \in InvoiceRows
  BY <1>1, StatusSets DEF InvoiceRows
<1>3. CASE Accepts(p, s, ts)
  BY <1>2, <1>3, PayAfterType, OrderStatusType DEF ApplyStatus, TypeOK, Synced
<1>4. CASE ~Accepts(p, s, ts)
  BY <1>1, <1>4 DEF ApplyStatus, TypeOK
<1> QED BY <1>3, <1>4

LEMMA IssueErrorType ==
  ASSUME TypeOK, NEW p \in Payments, NEW definite \in BOOLEAN, IssueError(p, definite)
  PROVE  /\ inv' \in [Payments -> InvoiceRows]
         /\ pay' \in [Payments -> PaymentRows]
         /\ orderPaid' \in {"unpaid", "partial", "settled"}
<1>1. "error" \in RecordStatuses
  BY DEF RecordStatuses, ProviderStatuses
<1>2. inv' \in [Payments -> InvoiceRows]
  BY <1>1, StatusSets DEF IssueError, TypeOK, InvoiceRows
<1>3. pay' \in [Payments -> PaymentRows]
  BY StatusSets, SetStatusType DEF IssueError, TypeOK, RejectIfOpen
<1> QED BY <1>2, <1>3, OrderStatusType DEF IssueError, Synced, TypeOK

LEMMA GotoType ==
  ASSUME TypeOK, NEW p \in Payments, NEW step \in IssueSteps, Goto(p, step)
  PROVE  issue' \in [Payments -> IssueStates]
BY DEF Goto, TypeOK, IssueStates

LEMMA BeginType ==
  ASSUME TypeOK, NEW p \in Payments, NEW m \in Methods, Begin(p, m)
  PROVE  issue' \in [Payments -> IssueStates]
<1>1. CASE m \in Online
  <2>1. [NoIssue EXCEPT !.pc = "wanted", !.channel = m] \in IssueStates
    BY <1>1 DEF NoIssue, IssueStates, IssueSteps, ProviderStatuses
  <2> QED BY <1>1, <2>1 DEF Begin, TypeOK
<1>2. CASE m \notin Online
  BY <1>2 DEF Begin, TypeOK
<1> QED BY <1>1, <1>2

LEMMA MoveToType ==
  ASSUME TypeOK, NEW p \in Payments, NEW s \in ProviderStatuses, MoveTo(p, s)
  PROVE  prov' \in [Payments -> ProviderInvoices] /\ inbox' \subseteq Snapshots
<1>1. prov[p].ver + 1 \in 0..MaxVer
  BY ConstantsAssumption DEF MoveTo, TypeOK, ProviderInvoices
<1>2. prov' \in [Payments -> ProviderInvoices]
  BY <1>1 DEF MoveTo, TypeOK, ProviderInvoices
<1>3. inbox' \subseteq Snapshots
  BY <1>1 DEF MoveTo, TypeOK, Snapshots
<1> QED BY <1>2, <1>3

LEMMA NewInvoiceType ==
  ASSUME TypeOK, NEW p \in Payments, NEW s \in {"processing", "pending"}, NewInvoice(p, s)
  PROVE  prov' \in [Payments -> ProviderInvoices]
BY ConstantsAssumption DEF NewInvoice, TypeOK, ProviderInvoices, ProviderStatuses

LEMMA SnapshotType ==
  ASSUME TypeOK, NEW p \in Payments, CountMatches(p), Issued(p)
  PROVE  /\ prov[p].status \in ProviderStatuses
         /\ Snapshot(p) \subseteq Snapshots
<1>1. prov[p].status \in ProviderStatuses
  BY DEF CountMatches, Issued
<1>2. prov[p].ver \in 0..MaxVer /\ 0 \in 0..MaxVer
  BY ConstantsAssumption DEF TypeOK, ProviderInvoices
<1>3. \A ts \in {0, prov[p].ver} :
        [p |-> p, status |-> prov[p].status, ver |-> ts] \in Snapshots
  BY <1>1, <1>2 DEF Snapshots
<1> QED BY <1>1, <1>3 DEF Snapshot

-----------------------------------------------------------------------------
(* Every step keeps the types *)

LEMMA WithdrawalType ==
  ASSUME TypeOK, NEW p \in Payments, NEW a \in {"reject", "release"},
         Intend(p, a) \/ CancelThen(p, a)
  PROVE  /\ inv' \in [Payments -> InvoiceRows]
         /\ pay' \in [Payments -> PaymentRows]
         /\ orderPaid' \in {"unpaid", "partial", "settled"}
         /\ act' \in [Payments -> SUBSET {"reject", "release"}]
         /\ prov' \in [Payments -> ProviderInvoices] /\ inbox' \subseteq Snapshots
<1>1. CASE Intend(p, a)
  BY <1>1 DEF Intend, TypeOK
<1>2. CASE CancelThen(p, a)
  <2>1. act' \in [Payments -> SUBSET {"reject", "release"}]
    BY <1>2 DEF CancelThen, TypeOK
  <2>2. CancelInvoice(p)
    BY <1>2 DEF CancelThen
  <2>3. /\ {"cancelling", "cancelled", "pending"} \subseteq ProviderStatuses
        /\ 0 \in 0..MaxVer
    BY ConstantsAssumption DEF ProviderStatuses
  <2>4. CASE prov[p].status \in {"processing", "pending"}
    <3> PICK s \in {"cancelling", "cancelled"} :
          MoveTo(p, s) /\ (ApplyStatus(p, s, 0) \/ UNCHANGED <<pay, inv, orderPaid>>)
      BY <2>2, <2>4 DEF CancelInvoice, MoneyReceived
    <3> QED BY <2>1, <2>3, MoveToType, ApplyStatusType DEF TypeOK
  <2>5. CASE prov[p].status \notin {"processing", "pending"}
    <3>1. /\ UNCHANGED <<prov, inbox>>
          /\ \E s \in {"cancelling", "cancelled", "pending"} : ApplyStatus(p, s, 0)
      BY <2>2, <2>5 DEF CancelInvoice
    <3> QED BY <2>1, <2>3, <3>1, ApplyStatusType DEF TypeOK
  <2> QED BY <2>4, <2>5
<1> QED BY <1>1, <1>2

LEMMA DeskType ==
  ASSUME IInv, NEW p \in Payments, Desk(p)
  PROVE  TypeOK'
<1> USE DEF IInv
<1>1. CASE \E k \in Kinds[p], a \in Amounts : CreatePayment(p, k, a)
  <2> PICK k \in Kinds[p], a \in Amounts : CreatePayment(p, k, a)
    BY <1>1
  <2>1. k \in AllKinds /\ a \in Nat
    BY ConstantsAssumption
  <2>2. k.method \in Methods /\ k.owner \in Owners
    BY <2>1 DEF AllKinds
  <2>3. pay' \in [Payments -> PaymentRows]
    BY <2>1, <2>2, FirstStageType DEF CreatePayment, TypeOK, PaymentRows
  <2>4. issue' \in [Payments -> IssueStates]
    BY <2>2, BeginType DEF CreatePayment
  <2> QED BY <2>3, <2>4, OrderStatusType DEF CreatePayment, TypeOK, Synced
<1>2. CASE \E m \in Methods : SwitchMethod(p, m)
  <2> PICK m \in Methods : SwitchMethod(p, m)
    BY <1>2
  <2> DEFINE k == [method |-> m, owner |-> "client"]
             sum == Remaining(pay) - (Reserved(pay) - pay[p].amount)
  <2>1. k \in AllKinds
    BY DEF AllKinds, Owners
  <2>2. FirstStage(k) \in PaymentStatuses
    BY <2>1, FirstStageType
  <2>3. sum \in Nat
    BY ConstantsAssumption DEF SwitchMethod
  <2>4. pay' = [pay EXCEPT ![p].status = FirstStage(k), ![p].method = m,
                           ![p].amount = sum,
                           ![p].recv = (FirstStage(k) = "received")]
    BY DEF SwitchMethod
  <2>5. pay' \in [Payments -> PaymentRows]
    <3> DEFINE row == [pay[p] EXCEPT !.status = FirstStage(k), !.method = m,
                                     !.amount = sum,
                                     !.recv = (FirstStage(k) = "received")]
    <3>1. row \in PaymentRows
      <4>1. (FirstStage(k) = "received") \in BOOLEAN
        OBVIOUS
      <4>2. pay[p] \in PaymentRows
        BY DEF TypeOK
      <4> HIDE DEF k, sum
      <4> QED BY <2>2, <2>3, <4>1, <4>2 DEF PaymentRows
    <3>2. pay' = [pay EXCEPT ![p] = row]
      BY <2>4 DEF TypeOK
    <3> HIDE DEF row
    <3> QED BY <3>1, <3>2 DEF TypeOK
  <2>6. issue' \in [Payments -> IssueStates]
    BY BeginType DEF SwitchMethod
  <2> QED BY <2>5, <2>6 DEF SwitchMethod, TypeOK
<1>3. CASE ReceivePayment(p)
  <2>1. "received" \in PaymentStatuses
    BY DEF PaymentStatuses, InProgress
  <2>2. [pay[p] EXCEPT !.status = "received", !.recv = TRUE] \in PaymentRows
    BY <2>1 DEF TypeOK, PaymentRows
  <2>3. pay' = [pay EXCEPT ![p] = [pay[p] EXCEPT !.status = "received", !.recv = TRUE]]
    BY <1>3 DEF ReceivePayment, TypeOK
  <2>4. pay' \in [Payments -> PaymentRows]
    BY <2>2, <2>3 DEF TypeOK
  <2> QED BY <1>3, <2>4 DEF ReceivePayment, TypeOK
<1>4. CASE ConfirmPayment(p)
  BY <1>4, SetStatusType, StatusSets, OrderStatusType DEF ConfirmPayment, TypeOK, Synced
<1>5. CASE ReopenPayment(p)
  <2>1. "received" \in PaymentStatuses
    BY DEF PaymentStatuses, InProgress
  <2> QED BY <1>5, <2>1, SetStatusType, OrderStatusType DEF ReopenPayment, TypeOK, Synced
<1>6. CASE RestorePayment(p)
  <2>1. pay' \in [Payments -> PaymentRows]
    BY <1>6, SetStatusType, RestoredStageType DEF RestorePayment, TypeOK
  <2>2. issue' \in [Payments -> IssueStates]
    BY <1>6, BeginType DEF RestorePayment, TypeOK, Methods
  <2> QED BY <1>6, <2>1, <2>2 DEF RestorePayment, TypeOK
<1>7. CASE RetryIssue(p)
  <2>1. issue' \in [Payments -> IssueStates]
    BY <1>7, BeginType DEF RetryIssue, Methods
  <2> QED BY <1>7, <2>1 DEF RetryIssue, TypeOK
<1>8. CASE RejectRequest(p)
  BY <1>8, WithdrawalType DEF RejectRequest, TypeOK
<1>9. CASE RejectPayment(p)
  BY <1>9, SetStatusType, StatusSets DEF RejectPayment, TypeOK, RejectIfOpen
<1>10. CASE ReleaseRequest(p)
  BY <1>10, WithdrawalType DEF ReleaseRequest, TypeOK
<1>11. CASE ReleasePayment(p)
  <2>1. [inv EXCEPT ![p].status = "superseded"] \in [Payments -> InvoiceRows]
    BY StatusSets DEF TypeOK, InvoiceRows
  <2>2. SetStatus(p, "rejected") \in [Payments -> PaymentRows]
    BY SetStatusType, StatusSets DEF TypeOK
  <2>3. inv' \in [Payments -> InvoiceRows] /\ pay' \in [Payments -> PaymentRows]
    BY <1>11, <2>1, <2>2 DEF ReleasePayment, TypeOK
  <2>4. act' \in [Payments -> SUBSET {"reject", "release"}]
    BY <1>11 DEF ReleasePayment, TypeOK
  <2> QED BY <1>11, <2>3, <2>4 DEF ReleasePayment, TypeOK
<1> QED BY <1>1, <1>2, <1>3, <1>4, <1>5, <1>6, <1>7, <1>8, <1>9, <1>10, <1>11 DEF Desk

LEMMA WorkerType ==
  ASSUME IInv, NEW p \in Payments, Worker(p) \/ Failure(p)
  PROVE  TypeOK'
<1> USE DEF IInv
<1> {"idle", "posting", "merged", "recovering", "failed"} \subseteq IssueSteps
  BY DEF IssueSteps
<1>1. CASE Reserve(p)
  <2>1. issue' \in [Payments -> IssueStates]
    BY <1>1, GotoType DEF Reserve
  <2>2. [NoRecord EXCEPT !.status = "creating", !.channel = issue[p].channel] \in InvoiceRows
    <3>1. issue[p].channel \in Online /\ "qr" \in Online /\ 0 \in 0..MaxVer
      BY ConstantsAssumption DEF TypeOK, IssueStates, Online
    <3> QED BY <3>1, StatusSets DEF NoRecord, InvoiceRows
  <2>3. inv' \in [Payments -> InvoiceRows]
    BY <1>1, <2>2 DEF Reserve, TypeOK
  <2> QED BY <1>1, <2>1, <2>3 DEF Reserve, TypeOK
<1>2. CASE PostInvoice(p)
  <2>1. CASE \E s \in {"processing", "pending"}, answer \in {"answered", "ambiguous"} :
               /\ NewInvoice(p, s)
               /\ issue' = [issue EXCEPT ![p].pc = answer, ![p].ans = s]
    <3> PICK s \in {"processing", "pending"}, answer \in {"answered", "ambiguous"} :
               /\ NewInvoice(p, s)
               /\ issue' = [issue EXCEPT ![p].pc = answer, ![p].ans = s]
      BY <2>1
    <3>0. issue[p] \in IssueStates
      BY DEF TypeOK
    <3>1. [issue[p] EXCEPT !.pc = answer, !.ans = s] \in IssueStates
      BY <3>0 DEF IssueStates, IssueSteps, ProviderStatuses
    <3>2. issue' = [issue EXCEPT ![p] = [issue[p] EXCEPT !.pc = answer, !.ans = s]]
      BY DEF TypeOK
    <3>3. issue' \in [Payments -> IssueStates]
      BY <3>1, <3>2 DEF TypeOK
    <3> QED BY <1>2, <3>3, NewInvoiceType DEF PostInvoice, TypeOK
  <2>2. CASE /\ \E s \in {"none", "queued"} : prov' = [prov EXCEPT ![p].status = s]
             /\ Goto(p, "ambiguous")
    <3>1. prov' \in [Payments -> ProviderInvoices]
      BY <2>2 DEF TypeOK, ProviderInvoices
    <3>2. issue' \in [Payments -> IssueStates]
      BY <2>2, GotoType DEF IssueSteps
    <3> QED BY <1>2, <3>1, <3>2 DEF PostInvoice, TypeOK
  <2>3. CASE Goto(p, "refused") /\ UNCHANGED prov
    BY <1>2, <2>3, GotoType DEF PostInvoice, TypeOK, IssueSteps
  <2> QED BY <1>2, <2>1, <2>2, <2>3 DEF PostInvoice
<1>3. CASE MergeAnswer(p)
  <2>1. inv' \in [Payments -> InvoiceRows]
    BY <1>3, MarkedRowType DEF MergeAnswer, TypeOK
  <2> QED BY <1>3, <2>1, GotoType DEF MergeAnswer, TypeOK
<1>4. CASE ApplyAnswer(p)
  <2>1. issue[p].ans \in ProviderStatuses /\ 0 \in 0..MaxVer
    BY ConstantsAssumption DEF TypeOK, IssueStates
  <2> QED BY <1>4, <2>1, GotoType, ApplyStatusType DEF ApplyAnswer, TypeOK
<1>5. CASE SaveIssueError(p)
  <2>1. issue' \in [Payments -> IssueStates]
    BY <1>5, GotoType DEF SaveIssueError
  <2>2. (issue[p].pc = "refused") \in BOOLEAN
    OBVIOUS
  <2>3. CASE inv[p].mapped
    BY <1>5, <2>1, <2>3 DEF SaveIssueError, TypeOK
  <2>4. CASE ~inv[p].mapped
    BY <1>5, <2>1, <2>2, <2>4, IssueErrorType DEF SaveIssueError, TypeOK
  <2> QED BY <2>3, <2>4
<1>6. CASE RecoverIssue(p)
  <2>1. issue' \in [Payments -> IssueStates]
    BY <1>6, GotoType DEF RecoverIssue
  <2>2. CASE UNCHANGED <<pay, inv, orderPaid>>
    BY <1>6, <2>1, <2>2 DEF RecoverIssue, TypeOK
  <2>3. CASE /\ prov[p].count = 1
             /\ \E ts \in {0, prov[p].ver} : ApplyStatus(p, prov[p].status, ts)
    <3>1. prov[p].status \in ProviderStatuses
      BY <2>3 DEF Provenance, CountMatches, Issued
    <3>2. {0, prov[p].ver} \subseteq 0..MaxVer
      BY ConstantsAssumption DEF TypeOK, ProviderInvoices
    <3> QED BY <1>6, <2>1, <2>3, <3>1, <3>2, ApplyStatusType DEF RecoverIssue, TypeOK
  <2>4. CASE IssueError(p, TRUE)
    BY <1>6, <2>1, <2>4, IssueErrorType DEF RecoverIssue, TypeOK
  <2> QED BY <1>6, <2>2, <2>3, <2>4 DEF RecoverIssue
<1>7. CASE RejectUnissued(p)
  <2>1. pay' \in [Payments -> PaymentRows]
    BY <1>7, SetStatusType, StatusSets DEF RejectUnissued, RejectIfOpen, TypeOK
  <2> QED BY <1>7, <2>1, GotoType DEF RejectUnissued, TypeOK
<1>8. CASE AbandonIssue(p)
  BY <1>8, GotoType DEF AbandonIssue, TypeOK
<1>9. CASE DropHeld(p)
  BY <1>9 DEF DropHeld, TypeOK
<1> QED BY <1>1, <1>2, <1>3, <1>4, <1>5, <1>6, <1>7, <1>8, <1>9 DEF Worker, Failure

LEMMA OutsideType ==
  ASSUME IInv,
         \/ \E p \in Payments : Reconcile(p) \/ Age(p) \/ ProviderMoves(p) \/ ProcessQueued(p)
         \/ \E e \in inbox : Webhook(e)
  PROVE  TypeOK'
<1> USE DEF IInv
<1>1. ASSUME NEW p \in Payments, SearchIssue(p) PROVE TypeOK'
  <2>1. CASE /\ prov[p].count = 1
             /\ \E s \in Snapshot(p) : held' = held \cup {s}
             /\ search' = [search EXCEPT ![p] = "found"]
    <3>1. held' \subseteq Snapshots
      BY <2>1, SnapshotType DEF TypeOK, Provenance, Issued
    <3> QED BY <1>1, <2>1, <3>1 DEF SearchIssue, TypeOK
  <2>2. CASE UNCHANGED held /\ search' = [search EXCEPT ![p] = "absent"]
    BY <1>1, <2>2 DEF SearchIssue, TypeOK
  <2> QED BY <1>1, <2>1, <2>2 DEF SearchIssue
<1>2. ASSUME NEW p \in Payments, SettleSearch(p) PROVE TypeOK'
  <2>1. search' \in [Payments -> {"none", "found", "absent"}]
    BY <1>2 DEF SettleSearch, TypeOK
  <2>2. CASE search[p] = "found"
    <3>1. inv' \in [Payments -> InvoiceRows]
      BY <1>2, <2>2, MarkedRowType DEF SettleSearch, TypeOK
    <3> QED BY <1>2, <2>1, <2>2, <3>1 DEF SettleSearch, TypeOK
  <2>3. CASE search[p] # "found" /\ inv[p].mapped
    BY <1>2, <2>1, <2>3 DEF SettleSearch, TypeOK
  <2>4. CASE search[p] # "found" /\ ~inv[p].mapped
    <3>1. IssueError(p, TRUE)
      BY <1>2, <2>4 DEF SettleSearch
    <3> QED BY <1>2, <2>1, <3>1, IssueErrorType DEF SettleSearch, TypeOK
  <2> QED BY <2>2, <2>3, <2>4
<1>3. ASSUME NEW p \in Payments, PollStatus(p) PROVE TypeOK'
  <2>1. Issued(p)
    BY <1>3 DEF PollStatus, Provenance, KnownIsIssued
  <2>2. held' \subseteq Snapshots
    BY <1>3, <2>1, SnapshotType DEF PollStatus, TypeOK, Provenance
  <2> QED BY <1>3, <2>2 DEF PollStatus, TypeOK
<1>4. ASSUME NEW p \in Payments, ApplyHeld(p) PROVE TypeOK'
  <2> PICK s \in held : ApplyStatus(p, s.status, s.ver) /\ held' = held \ {s}
    BY <1>4 DEF ApplyHeld
  <2>1. s.status \in ProviderStatuses /\ s.ver \in 0..MaxVer
    BY DEF TypeOK, Snapshots
  <2> QED BY <1>4, <2>1, ApplyStatusType DEF ApplyHeld, TypeOK
<1>5. ASSUME NEW p \in Payments, Age(p) PROVE TypeOK'
  <2>1. inv' \in [Payments -> InvoiceRows]
    BY <1>5, MarkedRowType DEF Age, TypeOK
  <2> QED BY <1>5, <2>1 DEF Age, TypeOK
<1>6. ASSUME NEW p \in Payments, ProviderMoves(p) PROVE TypeOK'
  <2> PICK s \in Moves[prov[p].status] : MoveTo(p, s)
    BY <1>6 DEF ProviderMoves
  <2>1. s \in ProviderStatuses
    BY <1>6 DEF ProviderMoves, Moves, ProviderStatuses
  <2> QED BY <1>6, <2>1, MoveToType DEF ProviderMoves, TypeOK
<1>7. ASSUME NEW p \in Payments, ProcessQueued(p) PROVE TypeOK'
  <2>1. ASSUME NEW s \in {"processing", "pending"}, NewInvoice(p, s)
        PROVE  prov' \in [Payments -> ProviderInvoices]
    BY <2>1, NewInvoiceType
  <2>2. ASSUME prov' = [prov EXCEPT ![p].status = "none"]
        PROVE  prov' \in [Payments -> ProviderInvoices]
    BY <2>2 DEF TypeOK, ProviderInvoices
  <2>3. prov' \in [Payments -> ProviderInvoices]
    BY <1>7, <2>1, <2>2 DEF ProcessQueued
  <2> QED BY <1>7, <2>3 DEF ProcessQueued, TypeOK
<1>8. ASSUME NEW e \in inbox, Webhook(e) PROVE TypeOK'
  <2>1. e.p \in Payments /\ e.status \in ProviderStatuses /\ e.ver \in 0..MaxVer
    BY DEF TypeOK, Snapshots
  <2> QED BY <1>8, <2>1, ApplyStatusType DEF Webhook, TypeOK
<1> QED BY <1>1, <1>2, <1>3, <1>4, <1>5, <1>6, <1>7, <1>8 DEF Reconcile

-----------------------------------------------------------------------------
(* Every step keeps the provenance of invoices *)

\* What the status engine changes of a record, and what it leaves alone.
LEMMA ApplyStatusFrame ==
  ASSUME TypeOK, NEW p \in Payments, HasRecord(p), NEW s \in ProviderStatuses,
         NEW ts, ApplyStatus(p, s, ts)
  PROVE  /\ \A q \in Payments \ {p} : inv'[q] = inv[q]
         /\ inv'[p].mapped /\ inv'[p].aged = inv[p].aged
         /\ inv'[p].status \in {inv[p].status, s} /\ inv'[p].status # "none"
         /\ \A q \in Payments : pay'[q].status = "none" => pay[q].status = "none"
<1>1. s # "none"
  BY DEF ProviderStatuses
<1>2. \A q \in Payments : PayAfter(p, s)[q].status = "none" => pay[q].status = "none"
  BY DEF PayAfter, TypeOK, PaymentRows, SetStatus, RejectIfOpen, RestoredStage
<1>3. CASE Accepts(p, s, ts)
  <2> DEFINE record == [inv[p] EXCEPT !.mapped = TRUE]
             row == [record EXCEPT !.status = s, !.at = IF ts > 0 THEN ts ELSE @]
  <2>1. /\ row.status = s /\ row.mapped /\ row.aged = inv[p].aged
    BY DEF TypeOK, InvoiceRows
  <2>2. inv' = [inv EXCEPT ![p] = row] /\ pay' = PayAfter(p, s)
    BY <1>3 DEF ApplyStatus
  <2> HIDE DEF row
  <2> QED BY <1>1, <1>2, <2>1, <2>2 DEF TypeOK
<1>4. CASE ~Accepts(p, s, ts)
  BY <1>4 DEF ApplyStatus, TypeOK, InvoiceRows, HasRecord
<1> QED BY <1>3, <1>4

\* No invoice appears or disappears.
InvoicesKept ==
  \A q \in Payments :
    \/ prov'[q] = prov[q]
    \/ /\ {prov[q].status, prov'[q].status} \subseteq ProviderStatuses
       /\ prov'[q].count = prov[q].count

LEMMA NotAProviderStatus ==
  "queued" \notin ProviderStatuses /\ "none" \notin ProviderStatuses
BY DEF ProviderStatuses

LEMMA EvidenceStep ==
  ASSUME IInv, NEW p \in Payments, HasRecord(p), Issued(p),
         NEW s \in ProviderStatuses, NEW ts, ApplyStatus(p, s, ts),
         InvoicesKept, UNCHANGED search,
         UNCHANGED issue \/ Goto(p, "idle")
  PROVE  \A q \in Payments : Provenance(q)'
<1> SUFFICES ASSUME NEW q \in Payments PROVE Provenance(q)'
  OBVIOUS
<1>1. Provenance(q) /\ TypeOK
  BY DEF IInv
<1>2. issue'[q].pc \in {issue[q].pc, "idle"}
  BY <1>1 DEF Goto, TypeOK, IssueStates
<1>3. CASE q = p
  BY <1>1, <1>2, <1>3, ApplyStatusFrame, NotAProviderStatus
  DEF Provenance, CountMatches, NothingBefore, KnownIsIssued, AgedIsQuiet,
      RetiredIsQuiet, Issued, HasRecord, InvoicesKept
<1>4. CASE q # p
  BY <1>1, <1>2, <1>4, ApplyStatusFrame, NotAProviderStatus
  DEF Provenance, CountMatches, NothingBefore, KnownIsIssued, AgedIsQuiet,
      RetiredIsQuiet, Issued, HasRecord, InvoicesKept
<1> QED BY <1>3, <1>4

LEMMA GotoFrame ==
  ASSUME TypeOK, NEW p \in Payments, NEW step, Goto(p, step)
  PROVE  issue'[p].pc = step /\ \A q \in Payments \ {p} : issue'[q] = issue[q]
BY DEF Goto, TypeOK, IssueStates

\* Giving up an issue is safe only where nothing is on its way.
LEMMA IssueErrorStep ==
  ASSUME IInv, NEW p \in Payments, HasRecord(p), ~inv[p].mapped,
         NEW definite \in BOOLEAN, IssueError(p, definite),
         definite => prov[p].status = "none" /\ issue'[p].pc # "posting",
         UNCHANGED prov, UNCHANGED issue \/ Goto(p, "failed"),
         UNCHANGED search \/ search' = [search EXCEPT ![p] = "none"]
  PROVE  \A q \in Payments : Provenance(q)'
<1> SUFFICES ASSUME NEW q \in Payments PROVE Provenance(q)'
  OBVIOUS
<1>1. Provenance(q) /\ TypeOK
  BY DEF IInv
<1>2. /\ issue'[q].pc = issue[q].pc \/ (q = p /\ issue'[q].pc = "failed")
      /\ search'[q] \in {search[q], "none"}
  <2>1. issue'[q].pc = issue[q].pc \/ (q = p /\ issue'[q].pc = "failed")
    BY <1>1, GotoFrame
  <2>2. search'[q] \in {search[q], "none"}
    BY <1>1 DEF TypeOK
  <2> QED BY <2>1, <2>2
<1>3. pay'[q].status = "none" => pay[q].status = "none"
  BY <1>1 DEF IssueError, RejectIfOpen, SetStatus, TypeOK, PaymentRows
<1>4. inv'[q] = IF q = p THEN [inv[q] EXCEPT !.status = IF definite THEN "error" ELSE "creating"]
                ELSE inv[q]
  BY <1>1 DEF IssueError, TypeOK
<1>5. CASE q = p
  <2>1. /\ inv'[q].status = IF definite THEN "error" ELSE "creating"
        /\ inv'[q].mapped = inv[q].mapped /\ inv'[q].aged = inv[q].aged
    BY <1>1, <1>4, <1>5 DEF TypeOK, InvoiceRows
  <2> QED BY <1>1, <1>2, <1>3, <1>5, <2>1
    DEF Provenance, CountMatches, NothingBefore, KnownIsIssued, AgedIsQuiet,
        RetiredIsQuiet, Issued, HasRecord
<1>6. CASE q # p
  BY <1>1, <1>2, <1>3, <1>4, <1>6
  DEF Provenance, CountMatches, NothingBefore, KnownIsIssued, AgedIsQuiet,
      RetiredIsQuiet, Issued, HasRecord
<1> QED BY <1>5, <1>6

\* A step of the payment rows, or of the provider's invoices, alone.
LEMMA PaymentsOnlyStep ==
  ASSUME IInv, \A q \in Payments : pay'[q].status = "none" => pay[q].status = "none",
         InvoicesKept, UNCHANGED <<inv, issue, search>>
  PROVE  \A q \in Payments : Provenance(q)'
BY NotAProviderStatus
DEF IInv, Provenance, CountMatches, NothingBefore, KnownIsIssued, AgedIsQuiet,
    RetiredIsQuiet, Issued, HasRecord, InvoicesKept

\* A request that begins or ends, for a payment that exists.
LEMMA RequestStep ==
  ASSUME IInv, NEW p \in Payments, pay'[p].status # "none",
         \A q \in Payments : pay'[q].status = "none" => pay[q].status = "none",
         issue'[p].pc \in {"wanted", "idle", "failed", "recovering"},
         issue'[p].pc = "recovering" => HasRecord(p),
         \A q \in Payments \ {p} : issue'[q] = issue[q],
         UNCHANGED <<inv, search, prov>>
  PROVE  \A q \in Payments : Provenance(q)'
<1> SUFFICES ASSUME NEW q \in Payments PROVE Provenance(q)'
  OBVIOUS
<1>1. Provenance(q)
  BY DEF IInv
<1>2. CASE q = p
  BY <1>1, <1>2
  DEF Provenance, CountMatches, NothingBefore, KnownIsIssued, AgedIsQuiet,
      RetiredIsQuiet, Issued, HasRecord
<1>3. CASE q # p
  BY <1>1, <1>3
  DEF Provenance, CountMatches, NothingBefore, KnownIsIssued, AgedIsQuiet,
      RetiredIsQuiet, Issued, HasRecord
<1> QED BY <1>2, <1>3

LEMMA BeginStep ==
  ASSUME IInv, NEW p \in Payments, NEW m \in Methods, Begin(p, m),
         pay'[p].status # "none",
         \A q \in Payments : pay'[q].status = "none" => pay[q].status = "none",
         UNCHANGED <<inv, search, prov>>
  PROVE  \A q \in Payments : Provenance(q)'
<1>1. CASE m \in Online
  <2>1. issue'[p].pc = "wanted" /\ \A q \in Payments \ {p} : issue'[q] = issue[q]
    BY <1>1 DEF Begin, NoIssue, IInv, TypeOK
  <2> QED BY <2>1, RequestStep
<1>2. CASE m \notin Online
  <2>1. UNCHANGED issue
    BY <1>2 DEF Begin, IInv, TypeOK
  <2> QED BY <2>1, PaymentsOnlyStep DEF InvoicesKept
<1> QED BY <1>1, <1>2

\* A provider move keeps the invoices, and announces one that exists.
LEMMA MoveKeeps ==
  ASSUME IInv, NEW p \in Payments, prov[p].status \in ProviderStatuses,
         NEW s \in ProviderStatuses, MoveTo(p, s), UNCHANGED held
  PROVE  InvoicesKept /\ EvidenceIsOfInvoices'
<1>0. TypeOK /\ EvidenceIsOfInvoices /\ CountMatches(p)
  BY DEF IInv, Provenance
<1>1. /\ prov'[p].status = s /\ prov'[p].count = prov[p].count
      /\ \A q \in Payments \ {p} : prov'[q] = prov[q]
  BY <1>0 DEF MoveTo, TypeOK, ProviderInvoices
<1>2. inbox' = inbox \cup {[p |-> p, status |-> s, ver |-> prov[p].ver + 1]}
  BY DEF MoveTo
<1>3. \A x \in held' \cup inbox' : x.p \in Payments
  BY <1>0, <1>2 DEF TypeOK, Snapshots
<1>4. \A x \in held' \cup inbox' : prov[x.p].count = 1
  BY <1>0, <1>2 DEF EvidenceIsOfInvoices, Issued, CountMatches
<1> QED BY <1>1, <1>3, <1>4 DEF InvoicesKept, EvidenceIsOfInvoices, Issued

LEMMA WithdrawalProvenance ==
  ASSUME IInv, NEW p \in Payments, NEW a,
         Intend(p, a) \/ CancelThen(p, a), UNCHANGED <<issue, search, held>>
  PROVE  (\A q \in Payments : Provenance(q)') /\ EvidenceIsOfInvoices'
<1>1. CASE Intend(p, a)
  BY <1>1, PaymentsOnlyStep DEF Intend, IInv, EvidenceIsOfInvoices, Issued, InvoicesKept
<1>2. CASE CancelThen(p, a)
  <2>1. CancelInvoice(p) /\ inv[p].mapped
    BY <1>2 DEF CancelThen, CancelInvoice
  <2>2. HasRecord(p) /\ Issued(p) /\ prov[p].status \in ProviderStatuses
    BY <2>1 DEF IInv, Provenance, NothingBefore, KnownIsIssued, CountMatches, NoRecord, Issued
  <2>3. {"cancelling", "cancelled", "pending"} \subseteq ProviderStatuses
    BY DEF ProviderStatuses
  <2>4. CASE prov[p].status \in {"processing", "pending"}
    <3> PICK s \in {"cancelling", "cancelled"} :
          MoveTo(p, s) /\ (ApplyStatus(p, s, 0) \/ UNCHANGED <<pay, inv, orderPaid>>)
      BY <2>1, <2>4 DEF CancelInvoice, MoneyReceived
    <3>1. InvoicesKept /\ EvidenceIsOfInvoices'
      BY <2>2, <2>3, MoveKeeps
    <3> QED BY <2>2, <2>3, <3>1, EvidenceStep, PaymentsOnlyStep
  <2>5. CASE prov[p].status \notin {"processing", "pending"}
    <3>1. /\ UNCHANGED <<prov, inbox>>
          /\ \E s \in {"cancelling", "cancelled", "pending"} : ApplyStatus(p, s, 0)
      BY <2>1, <2>5 DEF CancelInvoice
    <3>2. InvoicesKept /\ EvidenceIsOfInvoices'
      BY <3>1 DEF InvoicesKept, IInv, EvidenceIsOfInvoices, Issued
    <3> QED BY <2>2, <2>3, <3>1, <3>2, EvidenceStep
  <2> QED BY <2>4, <2>5
<1> QED BY <1>1, <1>2

LEMMA DeskProvenance ==
  ASSUME IInv, NEW p \in Payments, Desk(p)
  PROVE  (\A q \in Payments : Provenance(q)') /\ EvidenceIsOfInvoices'
<1>0. TypeOK
  BY DEF IInv
<1>1. CASE \E k \in Kinds[p], a \in Amounts : CreatePayment(p, k, a)
  <2> PICK k \in Kinds[p], a \in Amounts : CreatePayment(p, k, a)
    BY <1>1
  <2>1. k \in AllKinds /\ k.method \in Methods
    BY ConstantsAssumption DEF AllKinds
  <2>2. FirstStage(k) # "none"
    BY <2>1, FirstStageType DEF PaymentStatuses, InProgress
  <2>3. \A q \in Payments : pay'[q].status = IF q = p THEN FirstStage(k) ELSE pay[q].status
    BY <1>0 DEF CreatePayment, TypeOK
  <2> QED BY <2>1, <2>2, <2>3, BeginStep
    DEF CreatePayment, IInv, EvidenceIsOfInvoices, Issued
<1>2. CASE \E m \in Methods : SwitchMethod(p, m)
  <2> PICK m \in Methods : SwitchMethod(p, m)
    BY <1>2
  <2> DEFINE k == [method |-> m, owner |-> "client"]
  <2>1. FirstStage(k) # "none"
    BY FirstStageType DEF AllKinds, Owners, PaymentStatuses, InProgress
  <2>2. \A q \in Payments : pay'[q].status = IF q = p THEN FirstStage(k) ELSE pay[q].status
    BY <1>0 DEF SwitchMethod, TypeOK, PaymentRows
  <2> QED BY <2>1, <2>2, BeginStep
    DEF SwitchMethod, IInv, EvidenceIsOfInvoices, Issued
<1>3. CASE ReceivePayment(p) \/ ConfirmPayment(p) \/ ReopenPayment(p) \/ RejectPayment(p)
  <2>1. \A q \in Payments : pay'[q].status = "none" => pay[q].status = "none"
    BY <1>0, <1>3 DEF ReceivePayment, ConfirmPayment, ReopenPayment, RejectPayment,
       RejectIfOpen, SetStatus, TypeOK, PaymentRows
  <2>2. UNCHANGED <<inv, issue, search, prov, held, inbox>>
    BY <1>3 DEF ReceivePayment, ConfirmPayment, ReopenPayment, RejectPayment
  <2> QED BY <2>1, <2>2, PaymentsOnlyStep DEF IInv, EvidenceIsOfInvoices, Issued, InvoicesKept
<1>4. CASE RestorePayment(p)
  <2>1. \A q \in Payments :
          pay'[q].status = IF q = p THEN RestoredStage(p) ELSE pay[q].status
    BY <1>0, <1>4 DEF RestorePayment, SetStatus, TypeOK, PaymentRows
  <2>2. RestoredStage(p) # "none"
    BY DEF RestoredStage
  <2>3. UNCHANGED <<inv, search, prov, held, inbox>>
    BY <1>4 DEF RestorePayment
  <2>4. UNCHANGED issue \/ Begin(p, "phone")
    BY <1>4 DEF RestorePayment
  <2>5. "phone" \in Methods
    BY DEF Methods
  <2> QED BY <2>1, <2>2, <2>3, <2>4, <2>5, BeginStep, PaymentsOnlyStep
    DEF IInv, EvidenceIsOfInvoices, Issued, InvoicesKept
<1>5. CASE RetryIssue(p)
  <2>1. pay[p].status # "none" /\ "phone" \in Methods
    BY <1>5 DEF RetryIssue, Open, InProgress, Methods
  <2> QED BY <1>5, <2>1, BeginStep DEF RetryIssue, IInv, EvidenceIsOfInvoices, Issued
<1>6. CASE RejectRequest(p) \/ ReleaseRequest(p)
  BY <1>6, WithdrawalProvenance DEF RejectRequest, ReleaseRequest
<1>7. CASE ReleasePayment(p)
  <2>1. UNCHANGED <<issue, search, prov, held, inbox>>
    BY <1>7 DEF ReleasePayment
  <2>2. \A q \in Payments : pay'[q].status = "none" => pay[q].status = "none"
    BY <1>0, <1>7 DEF ReleasePayment, SetStatus, TypeOK, PaymentRows
  <2>3. \A q \in Payments : \/ inv'[q] = inv[q]
                            \/ /\ HasRecord(q) /\ inv'[q].status = "superseded"
                               /\ inv'[q].mapped = inv[q].mapped
                               /\ inv'[q].aged = inv[q].aged
    BY <1>0, <1>7 DEF ReleasePayment, TypeOK, InvoiceRows
  <2>4. \A q \in Payments : Provenance(q)
    BY DEF IInv
  <2>5. \A q \in Payments : Provenance(q)'
    BY <2>1, <2>2, <2>3, <2>4
    DEF Provenance, CountMatches, NothingBefore, KnownIsIssued, AgedIsQuiet,
        RetiredIsQuiet, Issued, HasRecord
  <2> QED BY <2>1, <2>5 DEF IInv, EvidenceIsOfInvoices, Issued, InvoicesKept
<1> QED BY <1>1, <1>2, <1>3, <1>4, <1>5, <1>6, <1>7 DEF Desk

LEMMA MappedFrame ==
  ASSUME TypeOK, NEW p \in Payments, inv' = [inv EXCEPT ![p].mapped = TRUE]
  PROVE  /\ inv'[p].mapped /\ inv'[p].status = inv[p].status /\ inv'[p].aged = inv[p].aged
         /\ \A q \in Payments \ {p} : inv'[q] = inv[q]
BY DEF TypeOK, InvoiceRows

LEMMA WorkerProvenance ==
  ASSUME IInv, NEW p \in Payments, Worker(p)
  PROVE  (\A q \in Payments : Provenance(q)') /\ EvidenceIsOfInvoices'
<1>0. TypeOK /\ EvidenceIsOfInvoices /\ \A q \in Payments : Provenance(q)
  BY DEF IInv
<1>1. ASSUME UNCHANGED <<held, prov, inbox>> PROVE InvoicesKept /\ EvidenceIsOfInvoices'
  BY <1>0, <1>1 DEF EvidenceIsOfInvoices, Issued, InvoicesKept
<1>2. issue[p].pc # "idle" => pay[p].status # "none"
  BY <1>0 DEF Provenance, NothingBefore
<1>3. CASE Reserve(p)
  <2>1. pay[p].status # "none" /\ issue[p].pc = "wanted"
    BY <1>2, <1>3 DEF Reserve
  <2>2. CASE /\ UNCHANGED inv
             /\ \E step \in {"idle", "failed", "recovering"} :
                  Goto(p, step) /\ (step = "recovering" => HasRecord(p))
    <3>1. /\ issue'[p].pc \in {"idle", "failed", "recovering"}
          /\ issue'[p].pc = "recovering" => HasRecord(p)
          /\ \A q \in Payments \ {p} : issue'[q] = issue[q]
      BY <1>0, <2>2, GotoFrame
    <3>2. UNCHANGED <<pay, search, prov, held, inbox>>
      BY <1>3 DEF Reserve
    <3> QED BY <1>1, <2>1, <2>2, <3>1, <3>2, RequestStep
  <2>3. CASE /\ inv[p].status = "none" /\ Goto(p, "posting")
             /\ inv' = [inv EXCEPT ![p] = [NoRecord EXCEPT !.status = "creating",
                                               !.channel = issue[p].channel]]
    <3>1. /\ inv'[p].status = "creating" /\ ~inv'[p].mapped /\ ~inv'[p].aged
          /\ issue'[p].pc = "posting"
          /\ \A q \in Payments \ {p} : inv'[q] = inv[q] /\ issue'[q] = issue[q]
      BY <1>0, <2>3, GotoFrame DEF TypeOK, NoRecord
    <3>2. UNCHANGED <<pay, search, prov>>
      BY <1>3 DEF Reserve
    <3>3. prov[p].status = "none" /\ search[p] = "none"
      BY <1>0, <2>3 DEF Provenance, NothingBefore, AgedIsQuiet, KnownIsIssued, CountMatches,
         Issued, HasRecord, TypeOK, ProviderStatuses
    <3>4. \A q \in Payments : Provenance(q)'
      <4> SUFFICES ASSUME NEW q \in Payments PROVE Provenance(q)'
        OBVIOUS
      <4>1. CASE q = p
        BY <1>0, <2>1, <3>1, <3>2, <3>3, <4>1
        DEF Provenance, CountMatches, NothingBefore, KnownIsIssued, AgedIsQuiet,
            RetiredIsQuiet, Issued, HasRecord
      <4>2. CASE q # p
        BY <1>0, <3>1, <3>2, <4>2
        DEF Provenance, CountMatches, NothingBefore, KnownIsIssued, AgedIsQuiet,
            RetiredIsQuiet, Issued, HasRecord
      <4> QED BY <4>1, <4>2
    <3> QED BY <1>1, <1>3, <3>4 DEF Reserve
  <2> QED BY <1>3, <2>2, <2>3 DEF Reserve, HasRecord
<1>4. CASE PostInvoice(p)
  <2>1. /\ issue[p].pc = "posting" /\ prov[p].status = "none" /\ prov[p].count = 0
        /\ pay[p].status # "none" /\ HasRecord(p) /\ ~inv[p].mapped
        /\ search[p] = "none" /\ ~inv[p].aged /\ inv[p].status # "error"
    BY <1>0, <1>2, <1>4 DEF PostInvoice, Provenance, NothingBefore, AgedIsQuiet,
       KnownIsIssued, CountMatches, RetiredIsQuiet, Issued, TypeOK, ProviderStatuses
  <2>2. UNCHANGED <<pay, inv, search, held, inbox>>
    BY <1>4 DEF PostInvoice
  <2>3. /\ \A q \in Payments \ {p} : prov'[q] = prov[q] /\ issue'[q] = issue[q]
        /\ \/ /\ issue'[p].pc \in {"answered", "ambiguous"}
              /\ prov'[p].status \in {"processing", "pending"} /\ prov'[p].count = 1
           \/ /\ issue'[p].pc = "ambiguous"
              /\ prov'[p].status \in {"none", "queued"} /\ prov'[p].count = 0
           \/ issue'[p].pc = "refused" /\ prov'[p].status = "none" /\ prov'[p].count = 0
    <3>1. CASE \E s \in {"processing", "pending"}, answer \in {"answered", "ambiguous"} :
                 /\ NewInvoice(p, s)
                 /\ issue' = [issue EXCEPT ![p].pc = answer, ![p].ans = s]
      BY <1>0, <2>1, <3>1 DEF NewInvoice, TypeOK, IssueStates
    <3>2. CASE /\ \E s \in {"none", "queued"} : prov' = [prov EXCEPT ![p].status = s]
               /\ Goto(p, "ambiguous")
      <4>1. issue'[p].pc = "ambiguous" /\ \A q \in Payments \ {p} : issue'[q] = issue[q]
        BY <1>0, <3>2, GotoFrame DEF TypeOK
      <4>2. /\ prov'[p].status \in {"none", "queued"} /\ prov'[p].count = 0
            /\ \A q \in Payments \ {p} : prov'[q] = prov[q]
        BY <1>0, <2>1, <3>2 DEF TypeOK, ProviderInvoices
      <4> QED BY <4>1, <4>2
    <3>3. CASE Goto(p, "refused") /\ UNCHANGED prov
      BY <1>0, <2>1, <3>3, GotoFrame DEF TypeOK
    <3> QED BY <1>4, <3>1, <3>2, <3>3 DEF PostInvoice
  <2>4. {"processing", "pending"} \subseteq ProviderStatuses
    BY DEF ProviderStatuses
  <2>5. \A q \in Payments : Provenance(q)'
    <3> SUFFICES ASSUME NEW q \in Payments PROVE Provenance(q)'
      OBVIOUS
    <3>1. CASE q = p
      BY <2>1, <2>2, <2>3, <2>4, <3>1, NotAProviderStatus
      DEF Provenance, CountMatches, NothingBefore, KnownIsIssued, AgedIsQuiet,
          RetiredIsQuiet, Issued, HasRecord
    <3>2. CASE q # p
      BY <1>0, <2>2, <2>3, <3>2
      DEF Provenance, CountMatches, NothingBefore, KnownIsIssued, AgedIsQuiet,
          RetiredIsQuiet, Issued, HasRecord
    <3> QED BY <3>1, <3>2
  <2>6. \A x \in held \cup inbox : x.p \in Payments \ {p}
    BY <1>0, <2>1 DEF EvidenceIsOfInvoices, Issued, TypeOK, Snapshots
  <2> QED BY <1>0, <2>2, <2>3, <2>5, <2>6 DEF EvidenceIsOfInvoices, Issued
<1>5. CASE MergeAnswer(p)
  <2>1. Issued(p) /\ HasRecord(p) /\ pay[p].status # "none"
    BY <1>0, <1>2, <1>5 DEF MergeAnswer, Provenance, KnownIsIssued, NothingBefore,
       CountMatches, Issued, ProviderStatuses
  <2>2. UNCHANGED <<pay, search, prov, held, inbox>>
    BY <1>5 DEF MergeAnswer
  <2>3. /\ inv'[p].mapped /\ inv'[p].status = inv[p].status /\ inv'[p].aged = inv[p].aged
        /\ issue'[p].pc = "merged"
        /\ \A q \in Payments \ {p} : inv'[q] = inv[q] /\ issue'[q] = issue[q]
    BY <1>0, <1>5, GotoFrame, MappedFrame DEF MergeAnswer
  <2>4. \A q \in Payments : Provenance(q)'
    <3> SUFFICES ASSUME NEW q \in Payments PROVE Provenance(q)'
      OBVIOUS
    <3>1. CASE q = p
      BY <1>0, <2>1, <2>2, <2>3, <3>1
      DEF Provenance, CountMatches, NothingBefore, KnownIsIssued, AgedIsQuiet,
          RetiredIsQuiet, Issued, HasRecord
    <3>2. CASE q # p
      BY <1>0, <2>2, <2>3, <3>2
      DEF Provenance, CountMatches, NothingBefore, KnownIsIssued, AgedIsQuiet,
          RetiredIsQuiet, Issued, HasRecord
    <3> QED BY <3>1, <3>2
  <2> QED BY <1>1, <2>2, <2>4
<1>6. CASE ApplyAnswer(p)
  <2>1. Issued(p) /\ HasRecord(p) /\ issue[p].ans \in ProviderStatuses
    BY <1>0, <1>6 DEF ApplyAnswer, Provenance, KnownIsIssued, NothingBefore,
       CountMatches, Issued, ProviderStatuses, TypeOK, IssueStates
  <2> QED BY <1>1, <1>6, <2>1, EvidenceStep DEF ApplyAnswer
<1>7. CASE SaveIssueError(p)
  <2>1. UNCHANGED <<search, prov, held, inbox>>
    BY <1>7 DEF SaveIssueError
  <2>2. CASE inv[p].mapped
    <3>1. Goto(p, "idle") /\ UNCHANGED <<pay, inv>> /\ pay[p].status # "none"
      BY <1>2, <1>7, <2>2 DEF SaveIssueError
    <3> QED BY <1>0, <1>1, <2>1, <3>1, GotoFrame, RequestStep
  <2>3. CASE ~inv[p].mapped
    <3>1. IssueError(p, issue[p].pc = "refused") /\ Goto(p, "failed")
      BY <1>7, <2>3 DEF SaveIssueError
    <3>2. HasRecord(p) /\ (issue[p].pc = "refused" => prov[p].status = "none")
      BY <1>0, <1>7 DEF SaveIssueError, Provenance, NothingBefore
    <3>3. issue'[p].pc # "posting"
      BY <1>0, <3>1, GotoFrame DEF TypeOK
    <3> QED BY <1>1, <2>1, <2>3, <3>1, <3>2, <3>3, IssueErrorStep
  <2> QED BY <2>2, <2>3
<1>8. CASE RecoverIssue(p)
  <2>1. UNCHANGED <<search, prov, held, inbox>> /\ pay[p].status # "none"
    BY <1>2, <1>8 DEF RecoverIssue
  <2>2. CASE UNCHANGED <<pay, inv, orderPaid>>
    <3>1. \E step \in {"idle", "failed"} : Goto(p, step)
      BY <1>8 DEF RecoverIssue
    <3> QED BY <1>0, <1>1, <2>1, <2>2, <3>1, GotoFrame, RequestStep
  <2>3. CASE /\ prov[p].count = 1 /\ Goto(p, "idle")
             /\ \E ts \in {0, prov[p].ver} : ApplyStatus(p, prov[p].status, ts)
    <3>1. Issued(p) /\ HasRecord(p) /\ prov[p].status \in ProviderStatuses
      BY <1>0, <2>3, NotAProviderStatus
      DEF Provenance, CountMatches, NothingBefore, Issued, HasRecord
    <3> QED BY <1>1, <2>1, <2>3, <3>1, EvidenceStep
  <2>4. CASE /\ ~inv[p].mapped /\ prov[p].count = 0 /\ inv[p].aged
             /\ IssueError(p, TRUE) /\ Goto(p, "failed")
    <3>1. prov[p].status = "none" /\ HasRecord(p)
      BY <1>0, <2>4 DEF Provenance, CountMatches, AgedIsQuiet, NothingBefore, Issued,
         TypeOK, ProviderInvoices, NoRecord
    <3>2. issue'[p].pc # "posting"
      BY <1>0, <2>4, GotoFrame DEF TypeOK
    <3> QED BY <1>1, <2>1, <2>4, <3>1, <3>2, IssueErrorStep
  <2> QED BY <1>8, <2>2, <2>3, <2>4 DEF RecoverIssue
<1>9. CASE RejectUnissued(p)
  <2>1. \A q \in Payments : pay'[q].status = "none" => pay[q].status = "none"
    BY <1>0, <1>9 DEF RejectUnissued, RejectIfOpen, SetStatus, TypeOK, PaymentRows
  <2>2. pay[p].status # "none"
    BY <1>2, <1>9 DEF RejectUnissued
  <2>3. UNCHANGED <<inv, search, prov, held, inbox>> /\ Goto(p, "idle")
    BY <1>9 DEF RejectUnissued
  <2> QED BY <1>0, <1>1, <2>1, <2>2, <2>3, GotoFrame, RequestStep
<1> QED BY <1>3, <1>4, <1>5, <1>6, <1>7, <1>8, <1>9 DEF Worker

LEMMA OutsideProvenance ==
  ASSUME IInv,
         \/ \E p \in Payments :
              \/ Failure(p) \/ Reconcile(p) \/ Age(p)
              \/ ProviderMoves(p) \/ ProcessQueued(p)
         \/ \E e \in inbox : Webhook(e)
  PROVE  (\A q \in Payments : Provenance(q)') /\ EvidenceIsOfInvoices'
<1>0. TypeOK /\ EvidenceIsOfInvoices /\ \A q \in Payments : Provenance(q)
  BY DEF IInv
<1>1. ASSUME held' \subseteq held, inbox' \subseteq inbox, UNCHANGED prov
      PROVE  InvoicesKept /\ EvidenceIsOfInvoices'
  BY <1>0, <1>1 DEF EvidenceIsOfInvoices, Issued, InvoicesKept
<1>2. ASSUME NEW p \in Payments, Issued(p),
             \E s \in Snapshot(p) : held' = held \cup {s}, UNCHANGED <<prov, inbox>>
      PROVE  EvidenceIsOfInvoices'
  BY <1>0, <1>2 DEF EvidenceIsOfInvoices, Issued, Snapshot
<1>3. \A p \in Payments : inv[p].mapped => HasRecord(p)
  BY <1>0 DEF Provenance, NothingBefore, NoRecord
<1>4. ASSUME NEW p \in Payments, AbandonIssue(p)
      PROVE  (\A q \in Payments : Provenance(q)') /\ EvidenceIsOfInvoices'
  <2>1. pay[p].status # "none"
    BY <1>0, <1>4 DEF AbandonIssue, Provenance, NothingBefore
  <2>2. UNCHANGED <<pay, inv, search, held, prov, inbox>> /\ Goto(p, "idle")
    BY <1>4 DEF AbandonIssue
  <2> QED BY <1>0, <1>1, <2>1, <2>2, GotoFrame, RequestStep
<1>5. ASSUME NEW p \in Payments, DropHeld(p)
      PROVE  (\A q \in Payments : Provenance(q)') /\ EvidenceIsOfInvoices'
  <2>1. \A q \in Payments : search'[q] \in {search[q], "none"}
    BY <1>0, <1>5 DEF DropHeld, TypeOK
  <2>2. \A q \in Payments : Provenance(q)'
    BY <1>0, <1>5, <2>1 DEF DropHeld, Provenance, CountMatches, NothingBefore,
       KnownIsIssued, AgedIsQuiet, RetiredIsQuiet, Issued, HasRecord
  <2> QED BY <1>1, <1>5, <2>2 DEF DropHeld
<1>6. ASSUME NEW p \in Payments, SearchIssue(p)
      PROVE  (\A q \in Payments : Provenance(q)') /\ EvidenceIsOfInvoices'
  <2>1. HasRecord(p) /\ ~inv[p].mapped
    BY <1>6 DEF SearchIssue, Unresolved, HasRecord
  <2>2. UNCHANGED <<pay, inv, issue, prov, inbox>>
    BY <1>6 DEF SearchIssue
  <2>3. /\ \A q \in Payments \ {p} : search'[q] = search[q]
        /\ \/ search'[p] = "found" /\ Issued(p)
           \/ search'[p] = "absent" /\ ~Issued(p) /\ inv[p].aged
    BY <1>0, <1>6 DEF SearchIssue, TypeOK, Issued
  <2>4. \A q \in Payments : Provenance(q)'
    BY <1>0, <2>1, <2>2, <2>3 DEF Provenance, CountMatches, NothingBefore,
       KnownIsIssued, AgedIsQuiet, RetiredIsQuiet, Issued, HasRecord
  <2> QED BY <1>1, <1>2, <1>6, <2>4 DEF SearchIssue, Issued
<1>7. ASSUME NEW p \in Payments, SettleSearch(p)
      PROVE  (\A q \in Payments : Provenance(q)') /\ EvidenceIsOfInvoices'
  <2>1. /\ UNCHANGED <<issue, held, prov, inbox>>
        /\ search' = [search EXCEPT ![p] = "none"]
    BY <1>7 DEF SettleSearch
  <2>2. \A q \in Payments : search'[q] = IF q = p THEN "none" ELSE search[q]
    BY <1>0, <2>1 DEF TypeOK
  <2>3. CASE search[p] = "found"
    <3>1. Issued(p) /\ HasRecord(p)
      BY <1>0, <2>3 DEF Provenance, KnownIsIssued, NothingBefore, CountMatches, Issued,
         ProviderStatuses
    <3>2. /\ inv'[p].mapped /\ inv'[p].status = inv[p].status /\ inv'[p].aged = inv[p].aged
          /\ \A q \in Payments \ {p} : inv'[q] = inv[q]
          /\ UNCHANGED pay
      BY <1>0, <1>7, <2>3, MappedFrame DEF SettleSearch, TypeOK
    <3>3. \A q \in Payments : Provenance(q)'
      <4> SUFFICES ASSUME NEW q \in Payments PROVE Provenance(q)'
        OBVIOUS
      <4>1. CASE q = p
        BY <1>0, <2>1, <2>2, <3>1, <3>2, <4>1
        DEF Provenance, CountMatches, NothingBefore, KnownIsIssued, AgedIsQuiet,
            RetiredIsQuiet, Issued, HasRecord
      <4>2. CASE q # p
        BY <1>0, <2>1, <2>2, <3>2, <4>2
        DEF Provenance, CountMatches, NothingBefore, KnownIsIssued, AgedIsQuiet,
            RetiredIsQuiet, Issued, HasRecord
      <4> QED BY <4>1, <4>2
    <3> QED BY <1>1, <2>1, <3>3
  <2>4. CASE search[p] # "found" /\ inv[p].mapped
    <3>1. UNCHANGED <<pay, inv>>
      BY <1>7, <2>4 DEF SettleSearch
    <3>2. \A q \in Payments : Provenance(q)'
      BY <1>0, <2>1, <2>2, <3>1 DEF Provenance, CountMatches, NothingBefore,
         KnownIsIssued, AgedIsQuiet, RetiredIsQuiet, Issued, HasRecord
    <3> QED BY <1>1, <2>1, <3>2
  <2>5. CASE search[p] # "found" /\ ~inv[p].mapped
    <3>1. IssueError(p, TRUE) /\ search[p] = "absent"
      BY <1>0, <1>7, <2>5 DEF SettleSearch, TypeOK
    <3>2. HasRecord(p) /\ prov[p].status = "none" /\ issue[p].pc # "posting"
      BY <1>0, <2>5, <3>1 DEF Provenance, AgedIsQuiet, CountMatches, Issued, TypeOK,
         ProviderInvoices
    <3> QED BY <1>1, <2>1, <2>5, <3>1, <3>2, IssueErrorStep
  <2> QED BY <2>3, <2>4, <2>5
<1>8. ASSUME NEW p \in Payments, PollStatus(p)
      PROVE  (\A q \in Payments : Provenance(q)') /\ EvidenceIsOfInvoices'
  <2>1. Issued(p)
    BY <1>0, <1>8 DEF PollStatus, Provenance, KnownIsIssued
  <2>2. UNCHANGED <<pay, inv, issue, search, prov, inbox>>
    BY <1>8 DEF PollStatus
  <2>3. \A q \in Payments : Provenance(q)'
    BY <2>2, PaymentsOnlyStep DEF InvoicesKept
  <2> QED BY <1>2, <1>8, <2>1, <2>3 DEF PollStatus
<1>9. ASSUME NEW p \in Payments, ApplyHeld(p)
      PROVE  (\A q \in Payments : Provenance(q)') /\ EvidenceIsOfInvoices'
  <2> PICK s \in held : /\ s.p = p
                        /\ ApplyStatus(p, s.status, s.ver) /\ held' = held \ {s}
    BY <1>9 DEF ApplyHeld
  <2>1. UNCHANGED <<issue, search, prov, inbox>>
    BY <1>9 DEF ApplyHeld
  <2>2. Issued(p) /\ s.status \in ProviderStatuses
    BY <1>0 DEF EvidenceIsOfInvoices, TypeOK, Snapshots
  <2>3. HasRecord(p)
    BY <1>0, <2>2, NotAProviderStatus DEF Provenance, NothingBefore, CountMatches, Issued
  <2> QED BY <1>1, <2>1, <2>2, <2>3, EvidenceStep
<1>10. ASSUME NEW p \in Payments, Age(p)
       PROVE  (\A q \in Payments : Provenance(q)') /\ EvidenceIsOfInvoices'
  <2>1. /\ Unresolved(p) /\ prov[p].status # "queued" /\ issue[p].pc # "posting"
        /\ UNCHANGED <<pay, issue, search, held, prov, inbox>>
    BY <1>10 DEF Age
  <2>2. /\ inv'[p].mapped = inv[p].mapped /\ inv'[p].status = inv[p].status /\ inv'[p].aged
        /\ \A q \in Payments \ {p} : inv'[q] = inv[q]
    BY <1>0, <1>10 DEF Age, TypeOK, InvoiceRows
  <2>3. \A q \in Payments : Provenance(q)'
    <3> SUFFICES ASSUME NEW q \in Payments PROVE Provenance(q)'
      OBVIOUS
    <3>1. CASE q = p
      BY <1>0, <2>1, <2>2, <3>1
      DEF Provenance, CountMatches, NothingBefore, KnownIsIssued, AgedIsQuiet,
          RetiredIsQuiet, Issued, HasRecord, Unresolved
    <3>2. CASE q # p
      BY <1>0, <2>1, <2>2, <3>2
      DEF Provenance, CountMatches, NothingBefore, KnownIsIssued, AgedIsQuiet,
          RetiredIsQuiet, Issued, HasRecord
    <3> QED BY <3>1, <3>2
  <2> QED BY <1>1, <2>1, <2>3
<1>11. ASSUME NEW p \in Payments, ProviderMoves(p)
       PROVE  (\A q \in Payments : Provenance(q)') /\ EvidenceIsOfInvoices'
  <2> PICK s \in Moves[prov[p].status] : MoveTo(p, s)
    BY <1>11 DEF ProviderMoves
  <2>1. prov[p].status \in ProviderStatuses /\ s \in ProviderStatuses
    BY <1>11 DEF ProviderMoves, Moves, ProviderStatuses
  <2>2. UNCHANGED <<pay, inv, issue, search, held>>
    BY <1>11 DEF ProviderMoves
  <2> QED BY <2>1, <2>2, MoveKeeps, PaymentsOnlyStep
<1>12. ASSUME NEW p \in Payments, ProcessQueued(p)
       PROVE  (\A q \in Payments : Provenance(q)') /\ EvidenceIsOfInvoices'
  <2>1. prov[p].status = "queued" /\ prov[p].count = 0 /\ ~Issued(p)
    BY <1>0, <1>12, NotAProviderStatus
    DEF ProcessQueued, Provenance, CountMatches, Issued
  <2>2. UNCHANGED <<pay, inv, issue, search, held, inbox>>
    BY <1>12 DEF ProcessQueued
  <2>3. /\ \A q \in Payments \ {p} : prov'[q] = prov[q]
        /\ \/ prov'[p].status \in {"processing", "pending"} /\ prov'[p].count = 1
           \/ prov'[p].status = "none" /\ prov'[p].count = 0
    BY <1>0, <1>12, <2>1 DEF ProcessQueued, NewInvoice, TypeOK, ProviderInvoices
  <2>4. {"processing", "pending"} \subseteq ProviderStatuses
    BY DEF ProviderStatuses
  <2>5. \A q \in Payments : Provenance(q)'
    <3> SUFFICES ASSUME NEW q \in Payments PROVE Provenance(q)'
      OBVIOUS
    <3>1. CASE q = p
      BY <1>0, <2>1, <2>2, <2>3, <2>4, <3>1, NotAProviderStatus
      DEF Provenance, CountMatches, NothingBefore, KnownIsIssued, AgedIsQuiet,
          RetiredIsQuiet, Issued, HasRecord
    <3>2. CASE q # p
      BY <1>0, <2>2, <2>3, <3>2
      DEF Provenance, CountMatches, NothingBefore, KnownIsIssued, AgedIsQuiet,
          RetiredIsQuiet, Issued, HasRecord
    <3> QED BY <3>1, <3>2
  <2>6. \A x \in held \cup inbox : x.p \in Payments \ {p}
    BY <1>0, <2>1 DEF EvidenceIsOfInvoices, TypeOK, Snapshots
  <2> QED BY <1>0, <2>2, <2>3, <2>5, <2>6 DEF EvidenceIsOfInvoices, Issued
<1>13. ASSUME NEW e \in inbox, Webhook(e)
       PROVE  (\A q \in Payments : Provenance(q)') /\ EvidenceIsOfInvoices'
  <2>1. /\ UNCHANGED <<issue, search, held, prov>> /\ inbox' \subseteq inbox
        /\ ApplyStatus(e.p, e.status, e.ver)
    BY <1>13 DEF Webhook
  <2>2. e.p \in Payments /\ e.status \in ProviderStatuses /\ Issued(e.p)
    BY <1>0 DEF EvidenceIsOfInvoices, TypeOK, Snapshots
  <2>3. HasRecord(e.p)
    BY <1>0, <2>2, NotAProviderStatus DEF Provenance, NothingBefore, CountMatches, Issued
  <2> QED BY <1>1, <2>1, <2>2, <2>3, EvidenceStep
<1> QED BY <1>4, <1>5, <1>6, <1>7, <1>8, <1>9, <1>10, <1>11, <1>12, <1>13
        DEF Failure, Reconcile

-----------------------------------------------------------------------------
(* Every step keeps money confirmed and closed invoices empty *)

LEMMA StatusesDiffer ==
  /\ "confirmed" \notin InProgress /\ "rejected" \notin InProgress
  /\ "none" \notin InProgress /\ "none" \notin MoneyReceived /\ "none" \notin Closed
  /\ MoneyReceived \cap Closed = {} /\ "pending" \notin MoneyReceived \cup Closed
  /\ "creating" \notin MoneyReceived \cup Closed
  /\ "error" \in Closed /\ "superseded" \in Closed /\ "superseded" \notin MoneyReceived
BY DEF InProgress, MoneyReceived, Closed

\* A payment row that only moves between stages that agree with its record.
LEMMA PaymentMoves ==
  ASSUME MoneyIsConfirmed, ClosedHoldsNothing,
         \A q \in Payments : inv'[q].status = inv[q].status,
         \A q \in Payments :
           \/ pay'[q].status = pay[q].status
           \/ inv[q].status \in MoneyReceived => pay'[q].status = "confirmed",
         \A q \in Payments :
           \/ pay'[q].status = pay[q].status
           \/ inv[q].status \in Closed => pay'[q].status \notin InProgress
  PROVE  MoneyIsConfirmed' /\ ClosedHoldsNothing'
BY DEF MoneyIsConfirmed, ClosedHoldsNothing, Open

LEMMA PayAfterFrame ==
  ASSUME TypeOK, NEW p \in Payments, NEW s \in ProviderStatuses
  PROVE  /\ \A q \in Payments \ {p} :
              \/ PayAfter(p, s)[q].status = pay[q].status
              \/ pay[q].status \in InProgress /\ PayAfter(p, s)[q].status = "rejected"
         /\ s \in MoneyReceived => PayAfter(p, s)[p].status = "confirmed"
         /\ s \in Closed => PayAfter(p, s)[p].status \notin InProgress
<1>1. \A q \in Evicted(p) : q # p /\ pay[q].status \in InProgress
  BY DEF Evicted, Having
<1>2. CASE s \in MoneyReceived /\ pay[p].status # "confirmed"
  BY <1>1, <1>2, StatusesDiffer DEF PayAfter, TypeOK, PaymentRows
<1>3. CASE ~(s \in MoneyReceived /\ pay[p].status # "confirmed")
  <2>1. CASE /\ s = "pending" /\ inv[p].status = "error"
             /\ pay[p].status = "rejected" /\ pay[p].amount <= Available(pay)
    BY <1>3, <2>1, StatusesDiffer DEF PayAfter, SetStatus, TypeOK, PaymentRows
  <2>2. CASE ~(/\ s = "pending" /\ inv[p].status = "error"
               /\ pay[p].status = "rejected" /\ pay[p].amount <= Available(pay))
    <3>1. CASE s \in {"cancelled", "expired", "error"}
      BY <1>3, <2>2, <3>1, StatusesDiffer
      DEF PayAfter, RejectIfOpen, Open, SetStatus, TypeOK, PaymentRows, MoneyReceived
    <3>2. CASE s \notin {"cancelled", "expired", "error"}
      BY <1>3, <2>2, <3>2 DEF PayAfter, Closed, ProviderStatuses
    <3> QED BY <3>1, <3>2
  <2> QED BY <2>1, <2>2
<1> QED BY <1>2, <1>3

LEMMA EvidenceMoney ==
  ASSUME IInv, NEW p \in Payments, NEW s \in ProviderStatuses, NEW ts,
         ApplyStatus(p, s, ts)
  PROVE  MoneyIsConfirmed' /\ ClosedHoldsNothing'
<1>0. TypeOK /\ MoneyIsConfirmed /\ ClosedHoldsNothing
  BY DEF IInv
<1> DEFINE record == [inv[p] EXCEPT !.mapped = TRUE]
<1>1. CASE Accepts(p, s, ts)
  <2> DEFINE row == [record EXCEPT !.status = s, !.at = IF ts > 0 THEN ts ELSE @]
  <2>1. row.status = s
    BY <1>0 DEF TypeOK, InvoiceRows
  <2>2. inv' = [inv EXCEPT ![p] = row] /\ pay' = PayAfter(p, s)
    BY <1>1 DEF ApplyStatus
  <2>3. inv'[p].status = s /\ \A q \in Payments \ {p} : inv'[q] = inv[q]
    <3> HIDE DEF row
    <3> QED BY <1>0, <2>1, <2>2 DEF TypeOK
  <2>4. MoneyIsConfirmed'
    BY <1>0, <2>2, <2>3, PayAfterFrame, StatusesDiffer DEF MoneyIsConfirmed
  <2>5. ClosedHoldsNothing'
    BY <1>0, <2>2, <2>3, PayAfterFrame, StatusesDiffer DEF ClosedHoldsNothing, Open
  <2> QED BY <2>4, <2>5
<1>2. CASE ~Accepts(p, s, ts)
  <2>1. inv' = [inv EXCEPT ![p] = record] /\ UNCHANGED pay
    BY <1>2 DEF ApplyStatus
  <2>2. record.status = inv[p].status
    BY <1>0 DEF TypeOK, InvoiceRows
  <2> HIDE DEF record
  <2>3. \A q \in Payments : inv'[q].status = inv[q].status
    BY <1>0, <2>1, <2>2 DEF TypeOK
  <2> QED BY <1>0, <2>1, <2>3 DEF MoneyIsConfirmed, ClosedHoldsNothing, Open
<1> QED BY <1>1, <1>2

LEMMA IssueErrorMoney ==
  ASSUME IInv, NEW p \in Payments, NEW definite \in BOOLEAN, IssueError(p, definite)
  PROVE  MoneyIsConfirmed' /\ ClosedHoldsNothing'
<1>0. TypeOK /\ MoneyIsConfirmed /\ ClosedHoldsNothing
  BY DEF IInv
<1>1. /\ inv'[p].status = IF definite THEN "error" ELSE "creating"
      /\ \A q \in Payments \ {p} : inv'[q] = inv[q]
  BY <1>0 DEF IssueError, TypeOK, InvoiceRows
<1>2. /\ \A q \in Payments \ {p} : pay'[q] = pay[q]
      /\ definite => pay'[p].status \notin InProgress
  BY <1>0, StatusesDiffer DEF IssueError, RejectIfOpen, Open, SetStatus, TypeOK, PaymentRows
<1> QED BY <1>0, <1>1, <1>2, StatusesDiffer DEF MoneyIsConfirmed, ClosedHoldsNothing, Open

\* Rejecting an open payment only.
LEMMA RejectMoney ==
  ASSUME IInv, NEW p \in Payments, UNCHANGED inv, pay' = RejectIfOpen(p) \/ UNCHANGED pay
  PROVE  MoneyIsConfirmed' /\ ClosedHoldsNothing'
<1>0. TypeOK /\ MoneyIsConfirmed /\ ClosedHoldsNothing
  BY DEF IInv
<1>1. \A q \in Payments :
        \/ pay'[q].status = pay[q].status
        \/ pay[q].status \in InProgress /\ pay'[q].status = "rejected"
  BY <1>0 DEF RejectIfOpen, Open, SetStatus, TypeOK, PaymentRows
<1> QED BY <1>0, <1>1, StatusesDiffer DEF MoneyIsConfirmed, ClosedHoldsNothing, Open

LEMMA DeskMoney ==
  ASSUME IInv, NEW p \in Payments, Desk(p)
  PROVE  MoneyIsConfirmed' /\ ClosedHoldsNothing'
<1>0. TypeOK /\ MoneyIsConfirmed /\ ClosedHoldsNothing /\ \A q \in Payments : Provenance(q)
  BY DEF IInv
<1>1. CASE \E k \in Kinds[p], a \in Amounts : CreatePayment(p, k, a)
  <2>1. inv[p].status = "none"
    BY <1>0, <1>1 DEF CreatePayment, Provenance, NothingBefore, HasRecord
  <2>2. UNCHANGED inv /\ \A q \in Payments \ {p} : pay'[q] = pay[q]
    BY <1>0, <1>1 DEF CreatePayment, TypeOK
  <2> QED BY <1>0, <2>1, <2>2, StatusesDiffer DEF MoneyIsConfirmed, ClosedHoldsNothing, Open
<1>2. CASE \E m \in Methods : SwitchMethod(p, m)
  <2>1. inv[p].status = "none"
    BY <1>2 DEF SwitchMethod, HasRecord
  <2>2. UNCHANGED inv /\ \A q \in Payments \ {p} : pay'[q] = pay[q]
    BY <1>0, <1>2 DEF SwitchMethod, TypeOK
  <2> QED BY <1>0, <2>1, <2>2, StatusesDiffer DEF MoneyIsConfirmed, ClosedHoldsNothing, Open
<1>3. CASE ReceivePayment(p)
  <2>1. Open(p) /\ inv[p].status \notin Closed \cup MoneyReceived
    BY <1>0, <1>3 DEF ReceivePayment, Open, InProgress, MoneyIsConfirmed, ClosedHoldsNothing
  <2>2. UNCHANGED inv /\ \A q \in Payments \ {p} : pay'[q] = pay[q]
    BY <1>0, <1>3 DEF ReceivePayment, TypeOK
  <2> QED BY <1>0, <2>1, <2>2 DEF MoneyIsConfirmed, ClosedHoldsNothing, Open
<1>4. CASE ConfirmPayment(p)
  BY <1>0, <1>4, PaymentMoves, StatusesDiffer
  DEF ConfirmPayment, SetStatus, TypeOK, PaymentRows
<1>5. CASE ReopenPayment(p)
  BY <1>0, <1>5, PaymentMoves, StatusesDiffer
  DEF ReopenPayment, SetStatus, TypeOK, PaymentRows, HasRecord
<1>6. CASE RestorePayment(p)
  <2>1. inv[p].status \notin Closed \cup MoneyReceived
    BY <1>0, <1>6, StatusesDiffer DEF RestorePayment, MoneyIsConfirmed, HasRecord
  <2>2. UNCHANGED inv /\ \A q \in Payments \ {p} : pay'[q] = pay[q]
    BY <1>0, <1>6 DEF RestorePayment, SetStatus, TypeOK
  <2> QED BY <1>0, <2>1, <2>2 DEF MoneyIsConfirmed, ClosedHoldsNothing, Open
<1>7. CASE RetryIssue(p)
  BY <1>0, <1>7 DEF RetryIssue, MoneyIsConfirmed, ClosedHoldsNothing, Open
<1>8. CASE RejectRequest(p) \/ ReleaseRequest(p)
  <2>1. CASE UNCHANGED <<pay, inv>>
    BY <1>0, <2>1 DEF MoneyIsConfirmed, ClosedHoldsNothing, Open
  <2>2. CASE CancelInvoice(p) /\ ~(UNCHANGED <<pay, inv>>)
    <3>1. \E s \in {"cancelling", "cancelled", "pending"} : ApplyStatus(p, s, 0)
      BY <2>2 DEF CancelInvoice
    <3>2. {"cancelling", "cancelled", "pending"} \subseteq ProviderStatuses
      BY DEF ProviderStatuses
    <3> QED BY <3>1, <3>2, EvidenceMoney
  <2> QED BY <1>8, <2>1, <2>2 DEF RejectRequest, ReleaseRequest, Intend, CancelThen
<1>9. CASE RejectPayment(p)
  BY <1>0, <1>9, RejectMoney DEF RejectPayment
<1>10. CASE ReleasePayment(p)
  <2>1. CASE Open(p) /\ Releasable(p)
    <3>1. /\ pay'[p].status = "rejected" /\ inv'[p].status \in {"none", "superseded"}
          /\ \A q \in Payments \ {p} : pay'[q] = pay[q] /\ inv'[q] = inv[q]
      BY <1>0, <1>10, <2>1
      DEF ReleasePayment, SetStatus, TypeOK, PaymentRows, InvoiceRows, HasRecord
    <3> QED BY <1>0, <3>1, StatusesDiffer DEF MoneyIsConfirmed, ClosedHoldsNothing, Open
  <2>2. CASE ~(Open(p) /\ Releasable(p))
    BY <1>0, <1>10, <2>2 DEF ReleasePayment, MoneyIsConfirmed, ClosedHoldsNothing, Open
  <2> QED BY <2>1, <2>2
<1> QED BY <1>1, <1>2, <1>3, <1>4, <1>5, <1>6, <1>7, <1>8, <1>9, <1>10 DEF Desk

LEMMA WorkerMoney ==
  ASSUME IInv, NEW p \in Payments, Worker(p) \/ Failure(p)
  PROVE  MoneyIsConfirmed' /\ ClosedHoldsNothing'
<1>0. TypeOK /\ MoneyIsConfirmed /\ ClosedHoldsNothing /\ \A q \in Payments : Provenance(q)
  BY DEF IInv
<1>1. ASSUME UNCHANGED pay, \A q \in Payments : inv'[q].status = inv[q].status
      PROVE  MoneyIsConfirmed' /\ ClosedHoldsNothing'
  BY <1>0, <1>1 DEF MoneyIsConfirmed, ClosedHoldsNothing, Open
<1>2. CASE Reserve(p)
  <2>1. UNCHANGED pay
    BY <1>2 DEF Reserve
  <2>2. \A q \in Payments : inv'[q].status \in {inv[q].status, "creating"}
    <3>1. CASE UNCHANGED inv
      BY <3>1
    <3>2. CASE inv' = [inv EXCEPT ![p] = [NoRecord EXCEPT !.status = "creating",
                                              !.channel = issue[p].channel]]
      BY <1>0, <3>2 DEF TypeOK, NoRecord
    <3> QED BY <1>2, <3>1, <3>2 DEF Reserve
  <2> QED BY <1>0, <2>1, <2>2, StatusesDiffer DEF MoneyIsConfirmed, ClosedHoldsNothing, Open
<1>3. CASE PostInvoice(p) \/ AbandonIssue(p) \/ DropHeld(p)
  BY <1>1, <1>3 DEF PostInvoice, AbandonIssue, DropHeld
<1>4. CASE MergeAnswer(p)
  <2>1. UNCHANGED pay /\ inv' = [inv EXCEPT ![p].mapped = TRUE]
    BY <1>4 DEF MergeAnswer
  <2>2. \A q \in Payments : inv'[q].status = inv[q].status
    BY <1>0, <2>1, MappedFrame
  <2> QED BY <1>1, <2>1, <2>2
<1>5. CASE ApplyAnswer(p)
  <2>1. issue[p].ans \in ProviderStatuses
    BY <1>0 DEF TypeOK, IssueStates
  <2> QED BY <1>5, <2>1, EvidenceMoney DEF ApplyAnswer
<1>6. CASE SaveIssueError(p)
  BY <1>1, <1>6, IssueErrorMoney DEF SaveIssueError
<1>7. CASE RecoverIssue(p)
  <2>1. CASE UNCHANGED <<pay, inv, orderPaid>>
    BY <1>1, <2>1
  <2>2. CASE /\ prov[p].count = 1
             /\ \E ts \in {0, prov[p].ver} : ApplyStatus(p, prov[p].status, ts)
    <3>1. prov[p].status \in ProviderStatuses
      BY <1>0, <2>2 DEF Provenance, CountMatches
    <3> QED BY <2>2, <3>1, EvidenceMoney
  <2>3. CASE IssueError(p, TRUE)
    BY <2>3, IssueErrorMoney
  <2> QED BY <1>7, <2>1, <2>2, <2>3 DEF RecoverIssue
<1>8. CASE RejectUnissued(p)
  BY <1>0, <1>8, RejectMoney DEF RejectUnissued
<1> QED BY <1>2, <1>3, <1>4, <1>5, <1>6, <1>7, <1>8 DEF Worker, Failure

LEMMA OutsideMoney ==
  ASSUME IInv,
         \/ \E p \in Payments : Reconcile(p) \/ Age(p) \/ ProviderMoves(p) \/ ProcessQueued(p)
         \/ \E e \in inbox : Webhook(e)
  PROVE  MoneyIsConfirmed' /\ ClosedHoldsNothing'
<1>0. TypeOK /\ MoneyIsConfirmed /\ ClosedHoldsNothing /\ \A q \in Payments : Provenance(q)
  BY DEF IInv
<1>1. ASSUME UNCHANGED pay, \A q \in Payments : inv'[q].status = inv[q].status
      PROVE  MoneyIsConfirmed' /\ ClosedHoldsNothing'
  BY <1>0, <1>1 DEF MoneyIsConfirmed, ClosedHoldsNothing, Open
<1>2. ASSUME NEW p \in Payments,
             SearchIssue(p) \/ PollStatus(p) \/ ProviderMoves(p) \/ ProcessQueued(p)
      PROVE  MoneyIsConfirmed' /\ ClosedHoldsNothing'
  BY <1>1, <1>2 DEF SearchIssue, PollStatus, ProviderMoves, ProcessQueued
<1>3. ASSUME NEW p \in Payments, SettleSearch(p)
      PROVE  MoneyIsConfirmed' /\ ClosedHoldsNothing'
  <2>1. CASE search[p] = "found"
    <3>1. pay' = pay /\ inv' = [inv EXCEPT ![p].mapped = TRUE]
      BY <1>0, <1>3, <2>1 DEF SettleSearch, TypeOK
    <3>2. \A q \in Payments : inv'[q].status = inv[q].status
      BY <1>0, <3>1, MappedFrame
    <3> QED BY <1>1, <3>1, <3>2
  <2>2. CASE search[p] # "found" /\ inv[p].mapped
    BY <1>1, <1>3, <2>2 DEF SettleSearch
  <2>3. CASE search[p] # "found" /\ ~inv[p].mapped
    <3>1. IssueError(p, TRUE)
      BY <1>3, <2>3 DEF SettleSearch
    <3> QED BY <3>1, IssueErrorMoney
  <2> QED BY <2>1, <2>2, <2>3
<1>4. ASSUME NEW p \in Payments, ApplyHeld(p)
      PROVE  MoneyIsConfirmed' /\ ClosedHoldsNothing'
  <2> PICK s \in held : ApplyStatus(p, s.status, s.ver)
    BY <1>4 DEF ApplyHeld
  <2>1. s.status \in ProviderStatuses
    BY <1>0 DEF TypeOK, Snapshots
  <2> QED BY <2>1, EvidenceMoney
<1>5. ASSUME NEW p \in Payments, Age(p)
      PROVE  MoneyIsConfirmed' /\ ClosedHoldsNothing'
  <2>1. UNCHANGED pay /\ \A q \in Payments : inv'[q].status = inv[q].status
    BY <1>0, <1>5 DEF Age, TypeOK, InvoiceRows
  <2> QED BY <1>1, <2>1
<1>6. ASSUME NEW e \in inbox, Webhook(e)
      PROVE  MoneyIsConfirmed' /\ ClosedHoldsNothing'
  <2>1. e.p \in Payments /\ e.status \in ProviderStatuses
    BY <1>0 DEF TypeOK, Snapshots
  <2> QED BY <1>6, <2>1, EvidenceMoney DEF Webhook
<1> QED BY <1>2, <1>3, <1>4, <1>5, <1>6 DEF Reconcile

-----------------------------------------------------------------------------
(* The theorems *)

LEMMA InitIInv == Init => IInv
<1> SUFFICES ASSUME Init PROVE IInv
  OBVIOUS
<1>1. NoPayment \in PaymentRows /\ NoPayment.status = "none"
  BY DEF NoPayment, PaymentRows, Methods, Owners
<1>2. NoRecord \in InvoiceRows /\ NoRecord.status = "none" /\ ~NoRecord.mapped /\ ~NoRecord.aged
  BY ConstantsAssumption DEF NoRecord, InvoiceRows, Online
<1>3. NoIssue \in IssueStates /\ NoIssue.pc = "idle"
  BY DEF NoIssue, IssueStates, IssueSteps, Online, ProviderStatuses
<1>4. NoInvoice \in ProviderInvoices /\ NoInvoice.status = "none" /\ NoInvoice.count = 0
  BY ConstantsAssumption DEF NoInvoice, ProviderInvoices
<1>5. TypeOK
  BY <1>1, <1>2, <1>3, <1>4, OrderStatusType DEF Init, TypeOK, Synced
<1>6. \A p \in Payments : Provenance(p)
  BY <1>1, <1>2, <1>3, <1>4, NotAProviderStatus
  DEF Init, Provenance, CountMatches, NothingBefore, KnownIsIssued, AgedIsQuiet,
      RetiredIsQuiet, Issued, HasRecord
<1>7. EvidenceIsOfInvoices
  BY DEF Init, EvidenceIsOfInvoices
<1>8. MoneyIsConfirmed /\ ClosedHoldsNothing
  BY <1>1, <1>2, StatusesDiffer DEF Init, MoneyIsConfirmed, ClosedHoldsNothing
<1> QED BY <1>5, <1>6, <1>7, <1>8 DEF IInv

LEMMA NextIInv == IInv /\ [Next]_vars => IInv'
<1> SUFFICES ASSUME IInv, [Next]_vars PROVE IInv'
  OBVIOUS
<1>1. CASE Next
  <2>1. CASE \E p \in Payments : Desk(p)
    BY <2>1, DeskType, DeskProvenance, DeskMoney DEF IInv
  <2>2. CASE \E p \in Payments : Worker(p)
    BY <2>2, WorkerType, WorkerProvenance, WorkerMoney DEF IInv
  <2>3. CASE \E p \in Payments : Failure(p)
    BY <2>3, WorkerType, OutsideProvenance, WorkerMoney DEF IInv
  <2>4. CASE \/ \E p \in Payments :
                  Reconcile(p) \/ Age(p) \/ ProviderMoves(p) \/ ProcessQueued(p)
             \/ \E e \in inbox : Webhook(e)
    BY <2>4, OutsideType, OutsideProvenance, OutsideMoney DEF IInv
  <2> QED BY <1>1, <2>1, <2>2, <2>3, <2>4 DEF Next
<1>2. CASE UNCHANGED vars
  BY <1>2 DEF vars, IInv, TypeOK, EvidenceIsOfInvoices, Provenance, CountMatches,
     NothingBefore, KnownIsIssued, AgedIsQuiet, RetiredIsQuiet, Issued, HasRecord,
     MoneyIsConfirmed, ClosedHoldsNothing, Open
<1> QED BY <1>1, <1>2

\* The inductive invariant holds in every reachable state.
THEOREM Invariance == Spec => []IInv
BY InitIInv, NextIInv, PTL DEF Spec

\* Every row, request and piece of evidence has its type, whatever the desk,
\* the workers, the provider and the reconciliation do.
THEOREM TypeCorrect == Spec => []TypeOK
<1>1. IInv => TypeOK
  BY DEF IInv
<1> QED BY <1>1, Invariance, PTL

\* create_invoice never makes the provider create a second invoice for a
\* payment, for any number of payments, retries, deaths and lost answers.
THEOREM NoDoubleInvoice == Spec => []OneInvoicePerPayment
<1>1. IInv => OneInvoicePerPayment
  BY DEF IInv, Provenance, CountMatches, Issued, OneInvoicePerPayment
<1> QED BY <1>1, Invariance, PTL

\* Money the provider reported stays confirmed (apply_invoice_status against
\* rejection, release, restoration and recovery).
THEOREM PaidStaysConfirmed == Spec => []MoneyIsConfirmed
<1>1. IInv => MoneyIsConfirmed
  BY DEF IInv
<1> QED BY <1>1, Invariance, PTL

\* A closed invoice never holds a reservation of the order's balance.
THEOREM NoReservationBehindClosed == Spec => []ClosedHoldsNothing
<1>1. IInv => ClosedHoldsNothing
  BY DEF IInv
<1> QED BY <1>1, Invariance, PTL

\* A key retired as never issued has no invoice behind it
\* (recover_invoice_issue_mapping, the 30-minute grace).
THEOREM RetirementIsSafe == Spec => []RetiredKeyHasNoInvoice
<1>1. IInv => RetiredKeyHasNoInvoice
  BY NotAProviderStatus
  DEF IInv, Provenance, CountMatches, RetiredIsQuiet, RetiredKeyHasNoInvoice
<1> QED BY <1>1, Invariance, PTL

-----------------------------------------------------------------------------
(* The payment status of the order *)

LEMMA ConfirmedDepends ==
  ASSUME pay \in [Payments -> PaymentRows], NEW f \in [Payments -> PaymentRows],
         \A q \in Payments : pay[q].status = "confirmed" <=> f[q].status = "confirmed",
         \A q \in Payments : pay[q].status = "confirmed" => f[q].amount = pay[q].amount
  PROVE  Synced(f) = Synced(pay)
<1>1. Having(f, {"confirmed"}) = Having(pay, {"confirmed"})
  BY DEF Having
<1>2. [q \in Having(f, {"confirmed"}) |-> f[q].amount]
        = [q \in Having(pay, {"confirmed"}) |-> pay[q].amount]
  BY <1>1 DEF Having
<1>3. Sum(f, Having(f, {"confirmed"})) = Sum(pay, Having(pay, {"confirmed"}))
  BY <1>2 DEF Sum
<1> QED BY <1>3 DEF Synced, Confirmed

LEMMA SetStatusSync ==
  ASSUME TypeOK, NEW p \in Payments, NEW s \in PaymentStatuses,
         pay[p].status # "confirmed", s # "confirmed"
  PROVE  Synced(SetStatus(p, s)) = Synced(pay)
<1>1. SetStatus(p, s) \in [Payments -> PaymentRows]
  BY SetStatusType DEF TypeOK
<1>2. \A q \in Payments : /\ SetStatus(p, s)[q].status = IF q = p THEN s ELSE pay[q].status
                          /\ SetStatus(p, s)[q].amount = pay[q].amount
  BY DEF SetStatus, TypeOK, PaymentRows
<1>3. pay \in [Payments -> PaymentRows]
  BY DEF TypeOK
<1> HIDE DEF TypeOK
<1> QED BY <1>1, <1>2, <1>3, ConfirmedDepends

LEMMA RejectSync ==
  ASSUME TypeOK, NEW p \in Payments
  PROVE  Synced(RejectIfOpen(p)) = Synced(pay)
BY SetStatusSync, StatusSets, StatusesDiffer DEF RejectIfOpen, Open

LEMMA DeskSync ==
  ASSUME IInv, PaymentStatusInSync, NEW p \in Payments, Desk(p)
  PROVE  PaymentStatusInSync'
<1>0. TypeOK /\ TypeOK' /\ orderPaid = Synced(pay)
  BY DeskType DEF IInv, PaymentStatusInSync
<1>1. ASSUME Synced(pay') = Synced(pay), UNCHANGED orderPaid PROVE PaymentStatusInSync'
  BY <1>0, <1>1 DEF PaymentStatusInSync
<1>2. ASSUME NEW f, pay' = f, orderPaid' = Synced(f) PROVE PaymentStatusInSync'
  BY <1>2 DEF PaymentStatusInSync, Synced, Confirmed, Having, Sum
<1>3. CASE \E k \in Kinds[p], a \in Amounts : CreatePayment(p, k, a)
  <2> PICK k \in Kinds[p], a \in Amounts : CreatePayment(p, k, a)
    BY <1>3
  <2>1. CASE FirstStage(k) = "confirmed"
    BY <2>1 DEF CreatePayment, PaymentStatusInSync
  <2>2. CASE FirstStage(k) # "confirmed"
    <3>1. \A q \in Payments : \/ pay'[q] = pay[q]
                              \/ pay[q].status = "none" /\ pay'[q].status = FirstStage(k)
      BY <1>0 DEF CreatePayment, TypeOK
    <3> QED BY <1>0, <1>1, <2>2, <3>1, ConfirmedDepends DEF CreatePayment, TypeOK
  <2> QED BY <2>1, <2>2
<1>4. CASE \E m \in Methods : SwitchMethod(p, m)
  <2> PICK m \in Methods : SwitchMethod(p, m)
    BY <1>4
  <2> DEFINE k == [method |-> m, owner |-> "client"]
  <2>1. FirstStage(k) # "confirmed" /\ pay[p].status # "confirmed"
    BY StatusesDiffer DEF SwitchMethod, FirstStage, Having
  <2>2. \A q \in Payments : \/ pay'[q] = pay[q]
                            \/ q = p /\ pay'[q].status = FirstStage(k)
    BY <1>0 DEF SwitchMethod, TypeOK, PaymentRows
  <2> HIDE DEF k
  <2> QED BY <1>0, <1>1, <2>1, <2>2, ConfirmedDepends DEF SwitchMethod, TypeOK
<1>5. CASE ReceivePayment(p)
  <2>1. \A q \in Payments : \/ pay'[q] = pay[q]
                            \/ pay[q].status = "requested" /\ pay'[q].status = "received"
    BY <1>0, <1>5 DEF ReceivePayment, TypeOK, PaymentRows
  <2> QED BY <1>0, <1>1, <1>5, <2>1, ConfirmedDepends DEF ReceivePayment, TypeOK
<1>6. CASE ConfirmPayment(p) \/ ReopenPayment(p)
  BY <1>6 DEF ConfirmPayment, ReopenPayment, PaymentStatusInSync
<1>7. CASE RestorePayment(p)
  <2>1. RestoredStage(p) # "confirmed" /\ RestoredStage(p) \in PaymentStatuses
    BY RestoredStageType DEF RestoredStage
  <2> QED BY <1>0, <1>1, <1>7, <2>1, SetStatusSync DEF RestorePayment
<1>8. CASE RetryIssue(p)
  BY <1>1, <1>8 DEF RetryIssue, Synced, Confirmed
<1>9. CASE RejectRequest(p) \/ ReleaseRequest(p)
  <2>1. CASE UNCHANGED <<pay, orderPaid>>
    BY <1>0, <2>1 DEF PaymentStatusInSync
  <2>2. CASE \E s : ApplyStatus(p, s, 0)
    BY <1>0, <2>2 DEF ApplyStatus, PaymentStatusInSync
  <2> QED BY <1>9, <2>1, <2>2
      DEF RejectRequest, ReleaseRequest, Intend, CancelThen, CancelInvoice
<1>10. CASE RejectPayment(p)
  BY <1>0, <1>1, <1>10, RejectSync DEF RejectPayment
<1>11. CASE ReleasePayment(p)
  <2>1. \/ pay' = SetStatus(p, "rejected") /\ Open(p)
        \/ UNCHANGED pay
    BY <1>11 DEF ReleasePayment
  <2>2. UNCHANGED orderPaid
    BY <1>11 DEF ReleasePayment
  <2> QED BY <1>0, <1>1, <2>1, <2>2, SetStatusSync, StatusSets, StatusesDiffer DEF Open
<1> QED BY <1>3, <1>4, <1>5, <1>6, <1>7, <1>8, <1>9, <1>10, <1>11 DEF Desk

LEMMA OthersSync ==
  ASSUME IInv, PaymentStatusInSync,
         \/ \E p \in Payments : \/ Worker(p) \/ Failure(p) \/ Reconcile(p) \/ Age(p)
                                \/ ProviderMoves(p) \/ ProcessQueued(p)
         \/ \E e \in inbox : Webhook(e)
  PROVE  PaymentStatusInSync'
<1>0. TypeOK /\ orderPaid = Synced(pay)
  BY DEF IInv, PaymentStatusInSync
<1>1. ASSUME UNCHANGED <<pay, orderPaid>> PROVE PaymentStatusInSync'
  BY <1>0, <1>1 DEF PaymentStatusInSync
<1>2. ASSUME NEW p, NEW s, NEW ts, ApplyStatus(p, s, ts) PROVE PaymentStatusInSync'
  BY <1>0, <1>2 DEF ApplyStatus, PaymentStatusInSync
<1>3. ASSUME NEW p, NEW definite, IssueError(p, definite) PROVE PaymentStatusInSync'
  BY <1>0, <1>3 DEF IssueError, PaymentStatusInSync
<1>4. ASSUME NEW p \in Payments, Worker(p) PROVE PaymentStatusInSync'
  <2>1. CASE RejectUnissued(p)
    BY <1>0, <2>1, RejectSync DEF RejectUnissued, PaymentStatusInSync
  <2>2. CASE Reserve(p) \/ PostInvoice(p) \/ MergeAnswer(p)
    BY <1>1, <2>2 DEF Reserve, PostInvoice, MergeAnswer
  <2>3. CASE ApplyAnswer(p) \/ SaveIssueError(p) \/ RecoverIssue(p)
    BY <1>1, <1>2, <1>3, <2>3 DEF ApplyAnswer, SaveIssueError, RecoverIssue
  <2> QED BY <1>4, <2>1, <2>2, <2>3 DEF Worker
<1>5. ASSUME NEW p \in Payments, Failure(p) \/ Age(p) \/ ProviderMoves(p) \/ ProcessQueued(p)
      PROVE  PaymentStatusInSync'
  BY <1>1, <1>5 DEF Failure, AbandonIssue, DropHeld, Age, ProviderMoves, ProcessQueued
<1>6. ASSUME NEW p \in Payments, Reconcile(p) PROVE PaymentStatusInSync'
  BY <1>1, <1>2, <1>3, <1>6 DEF Reconcile, SearchIssue, SettleSearch, PollStatus, ApplyHeld
<1>7. ASSUME NEW e \in inbox, Webhook(e) PROVE PaymentStatusInSync'
  BY <1>2, <1>7 DEF Webhook
<1> QED BY <1>4, <1>5, <1>6, <1>7

\* The stored payment status of the order is the one its confirmed payments
\* give, after every step of every path.
THEOREM OrderStatusInSync == Spec => []PaymentStatusInSync
<1>1. Init => PaymentStatusInSync
  BY DEF Init, PaymentStatusInSync
<1>2. IInv /\ PaymentStatusInSync /\ [Next]_vars => PaymentStatusInSync'
  <2> SUFFICES ASSUME IInv, PaymentStatusInSync, [Next]_vars PROVE PaymentStatusInSync'
    OBVIOUS
  <2>1. CASE Next
    BY <2>1, DeskSync, OthersSync DEF Next
  <2>2. CASE UNCHANGED vars
    BY <2>2 DEF vars, PaymentStatusInSync
  <2> QED BY <2>1, <2>2
<1> QED BY <1>1, <1>2, Invariance, PTL DEF Spec

-----------------------------------------------------------------------------
(* How a record may change, and why received money never regresses *)

RecordStep(p) ==
  \/ inv'[p].status = inv[p].status /\ (inv[p].mapped => inv'[p].mapped)
  \/ inv'[p].mapped /\ inv'[p].status \in AllowedTransitions[inv[p].status]
  \/ ~inv[p].mapped /\ inv'[p].status \in {"creating", "error"}
  \/ Open(p) /\ inv'[p].status = "superseded"

\* Money on a record came from the provider: the record is mapped.
PaidIsMapped == \A p \in Payments : inv[p].status \in MoneyReceived => inv[p].mapped

LEMMA EvidenceRecord ==
  ASSUME TypeOK, NEW p \in Payments, NEW s, NEW ts, ApplyStatus(p, s, ts)
  PROVE  \A q \in Payments : RecordStep(q)
<1> DEFINE record == [inv[p] EXCEPT !.mapped = TRUE]
           row == [record EXCEPT !.status = s, !.at = IF ts > 0 THEN ts ELSE @]
<1>1. record.mapped /\ record.status = inv[p].status /\ row.mapped /\ row.status = s
  BY DEF TypeOK, InvoiceRows
<1>2. \/ inv' = [inv EXCEPT ![p] = row] /\ s \in AllowedTransitions[inv[p].status]
      \/ inv' = [inv EXCEPT ![p] = record]
  BY DEF ApplyStatus, Accepts
<1> HIDE DEF record, row
<1> QED BY <1>1, <1>2 DEF TypeOK, RecordStep

LEMMA IssueErrorRecord ==
  ASSUME TypeOK, NEW p \in Payments, NEW definite, ~inv[p].mapped, IssueError(p, definite)
  PROVE  \A q \in Payments : RecordStep(q)
<1>1. /\ inv'[p].status \in {"creating", "error"}
      /\ \A q \in Payments \ {p} : inv'[q] = inv[q]
  BY DEF IssueError, TypeOK, InvoiceRows
<1> QED BY <1>1 DEF RecordStep

LEMMA NextRecord ==
  ASSUME IInv, Next
  PROVE  \A q \in Payments : RecordStep(q)
<1>0. TypeOK /\ \A p \in Payments : Provenance(p)
  BY DEF IInv
<1>1. ASSUME UNCHANGED inv PROVE \A q \in Payments : RecordStep(q)
  BY <1>1 DEF RecordStep
<1>2. ASSUME NEW p \in Payments, Desk(p) PROVE \A q \in Payments : RecordStep(q)
  <2>1. CASE ReleasePayment(p)
    <3>1. \/ UNCHANGED inv
          \/ Open(p) /\ inv' = [inv EXCEPT ![p].status = "superseded"]
      <4>1. \/ Open(p) /\ inv' = IF HasRecord(p) THEN [inv EXCEPT ![p].status = "superseded"]
                               ELSE inv
            \/ UNCHANGED inv
        BY <2>1, Zenon DEF ReleasePayment
      <4>2. CASE HasRecord(p)
        BY <4>1, <4>2
      <4>3. CASE ~HasRecord(p)
        BY <4>1, <4>3
      <4> QED BY <4>2, <4>3
    <3>2. ASSUME Open(p), inv' = [inv EXCEPT ![p].status = "superseded"]
          PROVE  \A q \in Payments : RecordStep(q)
      BY <1>0, <3>2 DEF RecordStep, TypeOK, InvoiceRows
    <3> QED BY <1>1, <3>1, <3>2
  <2>2. CASE RejectRequest(p) \/ ReleaseRequest(p)
    <3>1. UNCHANGED inv \/ \E s : ApplyStatus(p, s, 0)
      BY <2>2 DEF RejectRequest, ReleaseRequest, Intend, CancelThen, CancelInvoice
    <3> QED BY <1>0, <1>1, <3>1, EvidenceRecord
  <2>3. CASE ~(ReleasePayment(p) \/ RejectRequest(p) \/ ReleaseRequest(p))
    BY <1>1, <1>2, <2>3 DEF Desk, CreatePayment, SwitchMethod, ReceivePayment,
       ConfirmPayment, ReopenPayment, RestorePayment, RetryIssue, RejectPayment
  <2> QED BY <2>1, <2>2, <2>3
<1>3. ASSUME NEW p \in Payments, inv' = [inv EXCEPT ![p].mapped = TRUE]
      PROVE  \A q \in Payments : RecordStep(q)
  BY <1>0, <1>3, MappedFrame DEF RecordStep
<1>4. ASSUME NEW p \in Payments, Worker(p) PROVE \A q \in Payments : RecordStep(q)
  <2>1. CASE Reserve(p)
    <3>1. CASE UNCHANGED inv
      BY <1>1, <3>1
    <3>2. CASE /\ inv[p].status = "none"
               /\ inv' = [inv EXCEPT ![p] = [NoRecord EXCEPT !.status = "creating",
                                                 !.channel = issue[p].channel]]
      <4>1. ~inv[p].mapped
        BY <1>0, <3>2 DEF Provenance, NothingBefore, HasRecord, NoRecord
      <4> QED BY <1>0, <3>2, <4>1 DEF RecordStep, TypeOK, NoRecord
    <3> QED BY <2>1, <3>1, <3>2 DEF Reserve
  <2>2. CASE PostInvoice(p) \/ RejectUnissued(p)
    BY <1>1, <2>2 DEF PostInvoice, RejectUnissued
  <2>3. CASE MergeAnswer(p)
    BY <1>3, <2>3 DEF MergeAnswer
  <2>4. CASE ApplyAnswer(p) \/ SaveIssueError(p) \/ RecoverIssue(p)
    BY <1>0, <1>1, <2>4, EvidenceRecord, IssueErrorRecord
    DEF ApplyAnswer, SaveIssueError, RecoverIssue
  <2> QED BY <1>4, <2>1, <2>2, <2>3, <2>4 DEF Worker
<1>5. ASSUME NEW p \in Payments, Failure(p) \/ ProviderMoves(p) \/ ProcessQueued(p)
      PROVE  \A q \in Payments : RecordStep(q)
  BY <1>1, <1>5 DEF Failure, AbandonIssue, DropHeld, ProviderMoves, ProcessQueued
<1>6. ASSUME NEW p \in Payments, Age(p) PROVE \A q \in Payments : RecordStep(q)
  BY <1>0, <1>6 DEF Age, RecordStep, TypeOK, InvoiceRows
<1>7. ASSUME NEW p \in Payments, Reconcile(p) PROVE \A q \in Payments : RecordStep(q)
  <2>1. CASE SearchIssue(p) \/ PollStatus(p)
    BY <1>1, <2>1 DEF SearchIssue, PollStatus
  <2>2. CASE SettleSearch(p)
    BY <1>0, <1>1, <1>3, <2>2, IssueErrorRecord DEF SettleSearch
  <2>3. CASE ApplyHeld(p)
    BY <1>0, <2>3, EvidenceRecord DEF ApplyHeld
  <2> QED BY <1>7, <2>1, <2>2, <2>3 DEF Reconcile
<1>8. ASSUME NEW e \in inbox, Webhook(e) PROVE \A q \in Payments : RecordStep(q)
  BY <1>0, <1>8, EvidenceRecord DEF Webhook, TypeOK, Snapshots
<1> QED BY <1>2, <1>4, <1>5, <1>6, <1>7, <1>8 DEF Next

LEMMA MoneyTransitions ==
  /\ AllowedTransitions["paid"] = MoneyReceived
  /\ AllowedTransitions["partially_refunded"] = {"partially_refunded"}
  /\ MoneyReceived = {"paid", "partially_refunded"}
BY DEF AllowedTransitions, MoneyReceived

\* Received money never regresses: once a record says paid, no evidence and no
\* local action ever makes it say anything else than paid or partly refunded.
THEOREM NoRegression == Spec => MoneyNeverRegresses
<1>1. Init => PaidIsMapped
  BY StatusesDiffer DEF Init, PaidIsMapped, NoRecord
<1>2. IInv /\ PaidIsMapped /\ [Next]_vars
        => PaidIsMapped' /\
           (\A p \in Payments :
              inv[p].status \in MoneyReceived =>
                /\ inv'[p].status \in MoneyReceived
                /\ inv[p].status = "partially_refunded" =>
                     inv'[p].status = "partially_refunded")
  <2> SUFFICES ASSUME IInv, PaidIsMapped, [Next]_vars
               PROVE  /\ PaidIsMapped'
                      /\ \A p \in Payments :
                           inv[p].status \in MoneyReceived =>
                             /\ inv'[p].status \in MoneyReceived
                             /\ inv[p].status = "partially_refunded" =>
                                  inv'[p].status = "partially_refunded"
    OBVIOUS
  <2>1. CASE Next
    <3>1. \A p \in Payments : RecordStep(p)
      BY <2>1, NextRecord
    <3>2. \A p \in Payments : inv[p].status \in MoneyReceived => inv[p].mapped /\ ~Open(p)
      BY StatusesDiffer DEF IInv, MoneyIsConfirmed, PaidIsMapped, Open
    <3>3. PaidIsMapped'
      BY <3>1, <3>2, StatusesDiffer DEF RecordStep, PaidIsMapped
    <3>4. ASSUME NEW p \in Payments, inv[p].status \in MoneyReceived
          PROVE  /\ inv'[p].status \in MoneyReceived
                 /\ inv[p].status = "partially_refunded" =>
                      inv'[p].status = "partially_refunded"
      BY <3>1, <3>2, <3>4, MoneyTransitions DEF RecordStep
    <3> QED BY <3>3, <3>4
  <2>2. CASE UNCHANGED vars
    BY <2>2 DEF vars, PaidIsMapped
  <2> QED BY <2>1, <2>2
<1> QED BY <1>1, <1>2, Invariance, PTL DEF Spec, MoneyNeverRegresses

-----------------------------------------------------------------------------
(* What the payments of the order weigh together *)

Counting == InProgress \cup {"confirmed"}

\* What each payment takes from the order, and the total.
Weight(f) == [q \in Payments |-> IF f[q].status \in Counting THEN f[q].amount ELSE 0]
Load(f) == SumOver(Weight(f), Payments)

\* Every recorded payment is of some money.
Positive == \A q \in Payments : pay[q].status # "none" => pay[q].amount > 0

LEMMA SumIsSumOver ==
  ASSUME NEW f, NEW S \in SUBSET Payments
  PROVE  Sum(f, S) = SumOver([q \in S |-> f[q].amount], S)
<1> DEFINE g == [q \in S |-> f[q].amount]
<1>1. DOMAIN g = S
  OBVIOUS
<1>2. SumFunction(g) = MapThenFoldSet(+, 0, LAMBDA i : g[i], LAMBDA s : CHOOSE x \in s : TRUE, DOMAIN g)
  BY DEF SumFunction, SumFunctionOnSet, FoldFunctionOnSet
<1>3. SumOver(g, S) = MapThenFoldSet(+, 0, LAMBDA i : g[i], LAMBDA s : CHOOSE x \in s : TRUE, S)
  BY DEF SumOver, MapThenSumSet
<1> HIDE DEF g
<1>4. SumFunction(g) = SumOver(g, S)
  BY <1>1, <1>2, <1>3
<1> QED BY <1>4 DEF Sum, g

LEMMA PaymentsFinite == IsFiniteSet(Payments) /\ \A S \in SUBSET Payments : IsFiniteSet(S)
BY ConstantsAssumption, FS_Subset

LEMMA RowTypes ==
  ASSUME NEW f \in [Payments -> PaymentRows]
  PROVE  \A q \in Payments : f[q].amount \in Nat /\ f[q].status \in PaymentStatuses \cup {"none"}
BY DEF PaymentRows

\* A part of the payments, summed with the weights of all.
LEMMA PartOfLoad ==
  ASSUME NEW f \in [Payments -> PaymentRows], NEW S \in SUBSET Payments,
         \A q \in S : f[q].status \in Counting
  PROVE  Sum(f, S) = SumOver(Weight(f), S) /\ Sum(f, S) \in Nat
<1> DEFINE g == [q \in S |-> f[q].amount]
           w == Weight(f)
<1>1. IsFiniteSet(S) /\ \A q \in S : f[q].amount \in Nat
  BY PaymentsFinite, RowTypes
<1>2. \A q \in S : g[q] = w[q] /\ g[q] \in Nat
  BY <1>1 DEF Weight
<1>3. Sum(f, S) = SumOver(g, S)
  BY SumIsSumOver
<1> HIDE DEF g, w
<1> QED BY <1>1, <1>2, <1>3, SumSame, SumNat DEF w

LEMMA LoadIs ==
  ASSUME NEW f \in [Payments -> PaymentRows]
  PROVE  /\ Confirmed(f) \in Nat /\ Reserved(f) \in Nat /\ Load(f) \in Nat
         /\ Confirmed(f) + Reserved(f) = Load(f)
<1> DEFINE C == Having(f, {"confirmed"})
           R == Having(f, InProgress)
           N == Payments \ (C \cup R)
           w == Weight(f)
<1>1. /\ C \in SUBSET Payments /\ R \in SUBSET Payments /\ N \in SUBSET Payments
      /\ C \cap R = {} /\ (C \cup R) \cap N = {} /\ (C \cup R) \cup N = Payments
      /\ C \cup R \in SUBSET Payments
  BY StatusesDiffer DEF Having
<1>2. \A q \in C \cup R : f[q].status \in Counting
  BY DEF Having, Counting
<1>3. \A q \in N : w[q] = 0
  BY DEF Having, Counting, Weight
<1>4. \A q \in Payments : w[q] \in Nat /\ w[q] \in Int
  BY RowTypes DEF Weight
<1> HIDE DEF C, R, N, w
<1>5. Sum(f, C) = SumOver(w, C) /\ Sum(f, C) \in Nat /\ Sum(f, R) = SumOver(w, R) /\ Sum(f, R) \in Nat
  BY <1>1, <1>2, PartOfLoad DEF w
<1>6. SumOver(w, C \cup R) = SumOver(w, C) + SumOver(w, R)
  <2>1. IsFiniteSet(C) /\ IsFiniteSet(R) /\ \A q \in C \cup R : w[q] \in Int
    BY <1>1, <1>4, PaymentsFinite
  <2> QED BY <1>1, <2>1, SumOfDisjoint
<1>7. SumOver(w, Payments) = SumOver(w, C \cup R) + SumOver(w, N)
  <2>1. IsFiniteSet(C \cup R) /\ IsFiniteSet(N) /\ \A q \in (C \cup R) \cup N : w[q] \in Int
    BY <1>1, <1>4, PaymentsFinite
  <2>2. SumOver(w, (C \cup R) \cup N) = SumOver(w, C \cup R) + SumOver(w, N)
    BY <1>1, <2>1, SumOfDisjoint
  <2> QED BY <1>1, <2>2
<1>8. SumOver(w, N) = 0
  BY <1>1, <1>3, PaymentsFinite, SumZero
<1>9. Confirmed(f) = Sum(f, C) /\ Reserved(f) = Sum(f, R)
  BY DEF Confirmed, Reserved, C, R
<1>10. Load(f) = SumOver(w, Payments)
  BY DEF Load, w
<1> QED BY <1>5, <1>6, <1>7, <1>8, <1>9, <1>10

\* Nothing new counts, and nothing counts more.
LEMMA Lighter ==
  ASSUME NEW f \in [Payments -> PaymentRows], NEW g \in [Payments -> PaymentRows],
         \A q \in Payments : g[q].status \in Counting =>
           f[q].status \in Counting /\ g[q].amount = f[q].amount
  PROVE  Load(g) <= Load(f)
<1> DEFINE v == Weight(f)
           w == Weight(g)
<1>1. \A q \in Payments : f[q].amount \in Nat /\ g[q].amount \in Nat
  BY RowTypes
<1>2. \A q \in Payments : w[q] \in Int /\ v[q] \in Int /\ w[q] <= v[q]
  BY <1>1 DEF Weight
<1> HIDE DEF v, w
<1> QED BY <1>2, PaymentsFinite, SumAtMost DEF Load, v, w

\* One payment is written anew.
LEMMA OneWritten ==
  ASSUME NEW f \in [Payments -> PaymentRows], NEW g \in [Payments -> PaymentRows],
         NEW p \in Payments, \A q \in Payments \ {p} : g[q] = f[q]
  PROVE  Load(g) = Load(f) - Weight(f)[p] + Weight(g)[p]
<1> DEFINE v == Weight(f)
           w == Weight(g)
<1>1. \A q \in Payments : f[q].amount \in Nat /\ g[q].amount \in Nat
  BY RowTypes
<1>2. /\ \A q \in Payments : v[q] \in Int /\ w[q] \in Int
      /\ \A q \in Payments \ {p} : w[q] = v[q]
  BY <1>1 DEF Weight
<1> HIDE DEF v, w
<1> QED BY <1>2, PaymentsFinite, SumChange DEF Load, v, w

\* What available_balance lets in fits the order.
LEMMA AvailableFits ==
  ASSUME NEW f \in [Payments -> PaymentRows], NEW a \in Nat, a > 0, a <= Available(f)
  PROVE  Load(f) + a <= Total
<1>1. Total \in Nat
  BY ConstantsAssumption
<1> QED BY <1>1, LoadIs DEF Available, NonNegative

LEMMA LargestExists ==
  ASSUME NEW S, IsFiniteSet(S), S \subseteq Nat, S # {}
  PROVE  \E m \in S : \A x \in S : x <= m
<1> DEFINE above(y) == {x \in S : x >= y}
           B == {above(y) : y \in S}
<1>1. B \subseteq SUBSET S /\ B # {}
  OBVIOUS
<1>2. PICK T \in B : \A U \in SUBSET T : U # T => U \notin B
  <2> HIDE DEF B
  <2> QED BY <1>1, SmallestSet
<1>3. PICK m \in S : T = above(m)
  OBVIOUS
<1>4. ASSUME NEW x \in S, ~(x <= m)
      PROVE  FALSE
  <2>1. x \in Nat /\ m \in Nat /\ x > m /\ \A y \in S : y \in Nat
    BY <1>4
  <2>2. above(x) \subseteq above(m) /\ m \notin above(x) /\ m \in above(m)
    <3>1. ASSUME NEW y \in S, y >= x PROVE y >= m
      BY <2>1, <3>1
    <3>2. m >= m /\ ~(m >= x)
      BY <2>1
    <3> QED BY <3>1, <3>2
  <2>3. above(x) \in B
    OBVIOUS
  <2> HIDE DEF B, above
  <2> QED BY <1>2, <1>3, <2>2, <2>3
<1> QED BY <1>4

\* Late money evicts every reservation without a record, unless the rest fits.
LEMMA EvictionFits ==
  ASSUME TypeOK, Positive, NEW p \in Payments, NEW f, NEW s \in MoneyReceived,
         pay[p].status # "confirmed", f = PayAfter(p, s), Load(f) > Total
  PROVE  \A q \in Payments : f[q].status = "requested" => HasRecord(q)
<1> DEFINE O == Having(pay, InProgress) \ {p}
           D == {q \in O : \/ ~HasRecord(q) /\ pay[q].status = "requested"
                           \/ inv[q].status \in Closed}
           newer(q) == {r \in D : r > q}
           E == Evicted(p)
           g == SetStatus(p, "confirmed")
           K == D \ E
           w == Weight(pay)
<1>1. pay \in [Payments -> PaymentRows] /\ g \in [Payments -> PaymentRows]
  BY SetStatusType DEF TypeOK, PaymentStatuses
<1>2. E = {q \in D : Sum(pay, O) - Sum(pay, newer(q)) > Remaining(g)}
  BY DEF Evicted
<1>3. f = [q \in Payments |-> IF q = p THEN [pay[q] EXCEPT !.status = "confirmed"]
                              ELSE IF q \in E THEN [pay[q] EXCEPT !.status = "rejected"]
                              ELSE pay[q]]
  BY DEF PayAfter
<1>4. SUFFICES ASSUME NEW q \in Payments, f[q].status = "requested", ~HasRecord(q)
               PROVE  FALSE
  OBVIOUS
<1> HIDE DEF E
<1>5. /\ f[p].status = "confirmed" /\ f[p].amount = pay[p].amount
      /\ \A r \in Payments \ {p} : f[r].amount = pay[r].amount
      /\ \A r \in E \ {p} : r \in Payments => f[r].status = "rejected"
      /\ \A r \in Payments : r # p /\ r \notin E => f[r] = pay[r]
      /\ f \in [Payments -> PaymentRows]
  BY <1>1, <1>3 DEF PaymentRows, PaymentStatuses
<1>6. q \in K
  BY <1>4, <1>5 DEF Having, InProgress
<1>7. PICK m \in K : \A r \in K : r <= m
  <2>1. K \in SUBSET Payments /\ K \subseteq Nat
    BY ConstantsAssumption DEF Having
  <2> HIDE DEF K
  <2> QED BY <1>6, <2>1, PaymentsFinite, LargestExists
<1>8. newer(m) \subseteq E /\ newer(m) \subseteq O /\ m \in O /\ m \notin E /\ O \in SUBSET Payments
  <2>1. \A r \in D : r \in Nat
    BY ConstantsAssumption DEF Having
  <2>2. \A r \in D : r > m => r \notin K
    BY <1>7, <2>1
  <2> QED BY <1>7, <2>2 DEF Having
<1>9. Sum(pay, O) - Sum(pay, newer(m)) <= Remaining(g)
  <2>1. \A r \in O : pay[r].status \in Counting
    BY DEF Having, Counting
  <2>2. O \in SUBSET Payments /\ newer(m) \in SUBSET Payments /\ \A r \in newer(m) : pay[r].status \in Counting
    BY <1>8, <2>1
  <2>3. m \in D /\ m \notin E
    BY <1>7
  <2>4. ~(Sum(pay, O) - Sum(pay, newer(m)) > Remaining(g))
    BY <1>2, <2>3
  <2> HIDE DEF O, newer, g
  <2>5. Sum(pay, O) \in Nat /\ Sum(pay, newer(m)) \in Nat /\ Remaining(g) \in Int
    BY <1>1, <2>1, <2>2, PartOfLoad, LoadIs, ConstantsAssumption DEF Remaining, NonNegative
  <2> QED BY <2>4, <2>5
<1>10. Having(f, {"confirmed"}) = Having(g, {"confirmed"}) /\ Having(f, InProgress) = O \ E
  <2>1. \A r \in Payments : g[r] = IF r = p THEN [pay[r] EXCEPT !.status = "confirmed"] ELSE pay[r]
    BY <1>1 DEF SetStatus
  <2>2. \A r \in E : r # p /\ pay[r].status \in InProgress
    BY <1>2 DEF Having
  <2>3. g[p].status = "confirmed"
    BY <1>1, <2>1 DEF PaymentRows
  <2>4. \A r \in Payments : f[r].status = "confirmed" <=> g[r].status = "confirmed"
    <3>1. ASSUME NEW r \in Payments, r # p, r \in E
          PROVE  f[r].status # "confirmed" /\ g[r].status # "confirmed"
      <4>1. f[r].status = "rejected" /\ g[r] = pay[r] /\ pay[r].status \in InProgress
        BY <1>5, <2>1, <2>2, <3>1
      <4> QED BY <4>1, StatusesDiffer
    <3>2. ASSUME NEW r \in Payments, r # p, r \notin E
          PROVE  f[r] = g[r]
      BY <1>5, <2>1, <3>2
    <3> QED BY <1>5, <2>3, <3>1, <3>2
  <2>5. \A r \in Payments : f[r].status \in InProgress <=> r \in O \ E
    BY <1>5, StatusesDiffer DEF Having
  <2> HIDE DEF g, O
  <2>6. O \subseteq Payments
    BY <1>8
  <2> QED BY <2>4, <2>5, <2>6 DEF Having
<1>11. Confirmed(f) = Confirmed(g)
  <2>1. \A r \in Payments : g[r].amount = pay[r].amount
    BY <1>1 DEF SetStatus, PaymentRows
  <2>2. \A r \in Payments : f[r].amount = g[r].amount
    BY <1>5, <2>1
  <2>3. Having(g, {"confirmed"}) \subseteq Payments
    BY DEF Having
  <2> HIDE DEF g
  <2>4. [r \in Having(f, {"confirmed"}) |-> f[r].amount]
          = [r \in Having(g, {"confirmed"}) |-> g[r].amount]
    BY <1>10, <2>2, <2>3
  <2> QED BY <2>4 DEF Confirmed, Sum
<1>12. Reserved(f) = Sum(pay, O \ E)
  <2>1. \A r \in O \ E : f[r].amount = pay[r].amount
    BY <1>5, <1>8
  <2> HIDE DEF O
  <2>2. [r \in O \ E |-> f[r].amount] = [r \in O \ E |-> pay[r].amount]
    BY <2>1
  <2> QED BY <1>10, <2>2 DEF Reserved, Sum
<1>13. \A r \in O : pay[r].status \in Counting
  BY DEF Having, Counting
<1>14. \A r \in Payments : w[r] \in Nat /\ w[r] \in Int
  BY <1>1, RowTypes DEF Weight
<1>15. w[m] > 0
  <2>1. pay[m].status \in InProgress /\ m \in Payments
    BY <1>8 DEF Having
  <2> QED BY <2>1, StatusesDiffer DEF Positive, Weight, Counting
<1> DEFINE N == newer(m)
<1>16. N \subseteq E /\ N \subseteq O
  BY <1>8
<1> HIDE DEF O, D, newer, g, K, w, N
<1>17. /\ Sum(pay, O) = SumOver(w, O) /\ Sum(pay, N) = SumOver(w, N)
       /\ Sum(pay, O \ E) = SumOver(w, O \ E) /\ Sum(pay, O \ E) \in Nat
       /\ Sum(pay, O) \in Nat /\ Sum(pay, N) \in Nat
  <2>1. /\ O \in SUBSET Payments /\ N \in SUBSET Payments /\ O \ E \in SUBSET Payments
        /\ \A r \in N : pay[r].status \in Counting
        /\ \A r \in O \ E : pay[r].status \in Counting
    BY <1>8, <1>13, <1>16
  <2> QED BY <1>1, <1>13, <2>1, PartOfLoad DEF w
<1>18. SumOver(w, O) = SumOver(w, N) + SumOver(w, O \ N)
  <2>1. /\ IsFiniteSet(N) /\ IsFiniteSet(O \ N) /\ N \cap (O \ N) = {} /\ N \cup (O \ N) = O
        /\ \A r \in N \cup (O \ N) : w[r] \in Int
    BY <1>8, <1>14, <1>16, PaymentsFinite
  <2>2. SumOver(w, N \cup (O \ N)) = SumOver(w, N) + SumOver(w, O \ N)
    BY <2>1, SumOfDisjoint
  <2> QED BY <2>1, <2>2
<1>19. SumOver(w, O \ E) <= SumOver(w, O \ N) /\ SumOver(w, {m}) <= SumOver(w, O \ E)
  <2>1. /\ IsFiniteSet(O \ N) /\ IsFiniteSet(O \ E) /\ O \ E \in SUBSET (O \ N)
        /\ {m} \in SUBSET (O \ E)
        /\ \A r \in O \ N : w[r] \in Nat
        /\ \A r \in O \ E : w[r] \in Nat
    BY <1>8, <1>14, <1>16, PaymentsFinite
  <2>2. SumOver(w, O \ E) <= SumOver(w, O \ N)
    BY <2>1, SumOfSubset
  <2>3. SumOver(w, {m}) <= SumOver(w, O \ E)
    BY <2>1, SumOfSubset
  <2> QED BY <2>2, <2>3
<1>20. SumOver(w, {m}) = w[m] /\ w[m] \in Nat
  <2>1. w[m] \in Int /\ w[m] \in Nat
    BY <1>8, <1>14
  <2> QED BY <2>1, SumSingle
<1>21. SumOver(w, O \ N) \in Nat
  <2>1. IsFiniteSet(O \ N) /\ \A r \in O \ N : w[r] \in Nat
    BY <1>8, <1>14, PaymentsFinite
  <2> QED BY <2>1, SumNat
<1>22. Sum(pay, O \ E) <= Remaining(g) /\ Sum(pay, O \ E) > 0
  <2>1. Sum(pay, O) - Sum(pay, N) <= Remaining(g)
    BY <1>9 DEF N
  <2>2. Remaining(g) \in Int
    BY <1>1, LoadIs, ConstantsAssumption DEF Remaining, NonNegative
  <2> QED BY <1>15, <1>17, <1>18, <1>19, <1>20, <1>21, <2>1, <2>2
<1>23. Confirmed(f) \in Nat /\ Reserved(f) \in Nat /\ Load(f) = Confirmed(f) + Reserved(f)
  BY <1>5, LoadIs
<1>24. Remaining(g) = NonNegative(Total - Confirmed(f)) /\ Total \in Nat
  BY <1>11, ConstantsAssumption DEF Remaining
<1> QED BY <1>12, <1>22, <1>23, <1>24 DEF NonNegative

-----------------------------------------------------------------------------
(* Late money: every step either lightens, fits, or evicts *)

\* What one step may do to the weight of the payments: nothing new counts, or
\* what counts fits the order, or late money came and evicted what it could.
LighterStep ==
  \A q \in Payments :
    /\ pay'[q].status \in Counting =>
         pay[q].status \in Counting /\ pay'[q].amount = pay[q].amount
    /\ pay'[q].status = "requested" => pay[q].status = "requested"
LateStep ==
  /\ \E p \in Payments : pay[p].status = "rejected" /\ pay'[p].status = "confirmed"
                         /\ inv'[p].status \in MoneyReceived
  /\ Load(pay') > Total =>
       \A q \in Payments : pay'[q].status = "requested" => HasRecord(q)
MoneyStep == Positive' /\ (LighterStep \/ Load(pay') <= Total \/ LateStep)

LEMMA SamePayments ==
  ASSUME Positive, UNCHANGED pay
  PROVE  MoneyStep
BY DEF MoneyStep, Positive, LighterStep

LEMMA SetStatusFrame ==
  ASSUME TypeOK, NEW p \in Payments, NEW s
  PROVE  /\ SetStatus(p, s)[p].status = s
         /\ \A q \in Payments : SetStatus(p, s)[q].amount = pay[q].amount
         /\ \A q \in Payments \ {p} : SetStatus(p, s)[q] = pay[q]
BY DEF SetStatus, TypeOK, PaymentRows

\* A payment is moved on, or leaves.
LEMMA MovedLoad ==
  ASSUME TypeOK, Positive, NEW p \in Payments, NEW s, pay' = SetStatus(p, s),
         s \in Counting => pay[p].status \in Counting, s # "requested",
         pay[p].status # "none"
  PROVE  MoneyStep
<1>1. /\ pay'[p].status = s /\ pay'[p].amount = pay[p].amount
      /\ \A q \in Payments \ {p} : pay'[q] = pay[q]
  BY SetStatusFrame
<1>2. LighterStep
  BY <1>1 DEF LighterStep
<1>3. Positive'
  BY <1>1 DEF Positive
<1> QED BY <1>2, <1>3 DEF MoneyStep

LEMMA RejectLoad ==
  ASSUME TypeOK, Positive, NEW p \in Payments, pay' = RejectIfOpen(p)
  PROVE  MoneyStep
<1>1. CASE Open(p)
  BY <1>1, MovedLoad, StatusesDiffer DEF RejectIfOpen, Open, Counting
<1>2. CASE ~Open(p)
  BY <1>2, SamePayments DEF RejectIfOpen
<1> QED BY <1>1, <1>2

\* A rejected payment comes back only if it fits what is available.
LEMMA RestoredLoad ==
  ASSUME TypeOK, Positive, NEW p \in Payments, NEW s \in InProgress,
         pay[p].status = "rejected", pay[p].amount <= Available(pay),
         pay' = SetStatus(p, s)
  PROVE  MoneyStep
<1>1. /\ pay'[p].status = s /\ pay'[p].amount = pay[p].amount
      /\ \A q \in Payments \ {p} : pay'[q] = pay[q]
  BY SetStatusFrame
<1>2. pay[p].amount \in Nat /\ pay[p].amount > 0
  BY RowTypes DEF TypeOK, Positive
<1>3. pay \in [Payments -> PaymentRows] /\ pay' \in [Payments -> PaymentRows]
  BY SetStatusType, StatusSets DEF TypeOK
<1>4. Weight(pay)[p] = 0 /\ Weight(pay')[p] = pay[p].amount
  BY <1>1, StatusesDiffer DEF Weight, Counting
<1>5. Load(pay') = Load(pay) - Weight(pay)[p] + Weight(pay')[p]
  BY <1>1, <1>3, OneWritten
<1>6. Load(pay) + pay[p].amount <= Total /\ Load(pay) \in Nat
  BY <1>2, <1>3, AvailableFits, LoadIs
<1>7. Load(pay') <= Total
  BY <1>2, <1>4, <1>5, <1>6
<1>8. Positive'
  BY <1>1, <1>2 DEF Positive
<1> QED BY <1>7, <1>8 DEF MoneyStep

LEMMA EvidenceLoad ==
  ASSUME IInv, Positive, NEW p \in Payments, HasRecord(p), NEW s \in ProviderStatuses,
         NEW ts, ApplyStatus(p, s, ts)
  PROVE  MoneyStep
<1>1. TypeOK /\ pay[p].status # "none"
  BY DEF IInv, Provenance, NothingBefore
<1>2. CASE UNCHANGED pay
  BY <1>2, SamePayments
<1>3. CASE pay' = PayAfter(p, s) /\ inv'[p].status = s
  <2>1. CASE s \in MoneyReceived /\ pay[p].status # "confirmed"
    <3>1. \A q \in Evicted(p) : q # p /\ pay[q].status \in InProgress
      BY DEF Evicted, Having
    <3>2. pay' = [q \in Payments |->
                    IF q = p THEN [pay[q] EXCEPT !.status = "confirmed"]
                    ELSE IF q \in Evicted(p) THEN [pay[q] EXCEPT !.status = "rejected"]
                    ELSE pay[q]]
      BY <1>3, <2>1 DEF PayAfter
    <3> DEFINE E == Evicted(p)
    <3> HIDE DEF E
    <3>3. /\ pay'[p].status = "confirmed" /\ pay'[p].amount = pay[p].amount
          /\ \A q \in Payments : pay'[q].amount = pay[q].amount
          /\ \A q \in Payments \ {p} : q \in E => pay'[q].status = "rejected"
          /\ \A q \in Payments \ {p} : q \notin E => pay'[q] = pay[q]
      BY <1>1, <3>2 DEF TypeOK, PaymentRows, E
    <3>4. \A q \in E : q # p /\ pay[q].status \in InProgress
      BY <3>1 DEF E
    <3>5. Positive'
      BY <1>1, <3>3, <3>4, StatusesDiffer DEF Positive
    <3>6. \A q \in Payments \ {p} : pay'[q] = pay[q] \/ pay'[q].status = "rejected"
      BY <3>3
    <3>7. CASE pay[p].status \in InProgress
      <4>1. LighterStep
        BY <3>3, <3>6, <3>7, StatusesDiffer DEF LighterStep, Counting
      <4> QED BY <3>5, <4>1 DEF MoneyStep
    <3>8. CASE pay[p].status \notin InProgress
      <4>1. pay[p].status = "rejected"
        BY <1>1, <2>1, <3>8, RowTypes DEF TypeOK, PaymentStatuses
      <4>2. Load(pay') > Total =>
              \A q \in Payments : pay'[q].status = "requested" => HasRecord(q)
        BY <1>1, <1>3, <2>1, EvictionFits
      <4> QED BY <1>3, <2>1, <3>3, <3>5, <4>1, <4>2 DEF MoneyStep, LateStep
    <3> QED BY <3>7, <3>8
  <2>2. CASE ~(s \in MoneyReceived /\ pay[p].status # "confirmed")
    <3>1. CASE /\ s = "pending" /\ inv[p].status = "error"
               /\ pay[p].status = "rejected" /\ pay[p].amount <= Available(pay)
      <4>1. RestoredStage(p) \in InProgress
        BY DEF RestoredStage, InProgress
      <4>2. pay' = SetStatus(p, RestoredStage(p))
        BY <1>3, <2>2, <3>1 DEF PayAfter
      <4> QED BY <1>1, <3>1, <4>1, <4>2, RestoredLoad
    <3>2. CASE ~(/\ s = "pending" /\ inv[p].status = "error"
                 /\ pay[p].status = "rejected" /\ pay[p].amount <= Available(pay))
      <4>1. pay' = RejectIfOpen(p) \/ pay' = pay
        BY <1>3, <2>2, <3>2 DEF PayAfter
      <4> QED BY <1>1, <4>1, RejectLoad, SamePayments
    <3> QED BY <3>1, <3>2
  <2> QED BY <2>1, <2>2
<1>4. UNCHANGED pay \/ (pay' = PayAfter(p, s) /\ inv'[p].status = s)
  <2>1. CASE Accepts(p, s, ts)
    <3> DEFINE record == [inv[p] EXCEPT !.mapped = TRUE]
               row == [record EXCEPT !.status = s, !.at = IF ts > 0 THEN ts ELSE @]
    <3>1. row.status = s
      BY <1>1 DEF TypeOK, InvoiceRows
    <3>2. inv' = [inv EXCEPT ![p] = row] /\ pay' = PayAfter(p, s)
      BY <2>1 DEF ApplyStatus
    <3> HIDE DEF row
    <3> QED BY <1>1, <3>1, <3>2 DEF TypeOK
  <2>2. CASE ~Accepts(p, s, ts)
    BY <2>2 DEF ApplyStatus
  <2> QED BY <2>1, <2>2
<1> QED BY <1>2, <1>3, <1>4

\* A new payment fits what is available.
LEMMA CreatedLoad ==
  ASSUME IInv, IInv', Positive, NEW p \in Payments, NEW k \in Kinds[p],
         NEW a \in Amounts, CreatePayment(p, k, a)
  PROVE  MoneyStep
<1>1. pay \in [Payments -> PaymentRows] /\ pay' \in [Payments -> PaymentRows]
  BY DEF IInv, TypeOK
<1>2. a \in Nat /\ a > 0 /\ k \in AllKinds
  BY ConstantsAssumption
<1>3. FirstStage(k) \in Counting
  BY <1>2 DEF FirstStage, AllKinds, Owners, Counting, InProgress
<1>4. /\ pay'[p].status = FirstStage(k) /\ pay'[p].amount = a
      /\ \A q \in Payments \ {p} : pay'[q] = pay[q]
      /\ pay[p].status = "none" /\ a <= Available(pay)
  BY <1>1 DEF CreatePayment
<1>5. Weight(pay)[p] = 0 /\ Weight(pay')[p] = a
  BY <1>3, <1>4, StatusesDiffer DEF Weight, Counting
<1>6. Load(pay') = Load(pay) - Weight(pay)[p] + Weight(pay')[p]
  BY <1>1, <1>4, OneWritten
<1>7. Load(pay) + a <= Total /\ Load(pay) \in Nat
  BY <1>1, <1>2, <1>4, AvailableFits, LoadIs
<1>8. Load(pay') <= Total
  BY <1>2, <1>5, <1>6, <1>7
<1>9. Positive'
  BY <1>2, <1>4 DEF Positive
<1> QED BY <1>8, <1>9 DEF MoneyStep

\* A payment whose method is changed takes exactly what the rest leaves.
LEMMA SwitchedLoad ==
  ASSUME IInv, IInv', Positive, NEW p \in Payments, NEW m \in Methods, SwitchMethod(p, m)
  PROVE  MoneyStep
<1> DEFINE k == [method |-> m, owner |-> "client"]
           sum == Remaining(pay) - (Reserved(pay) - pay[p].amount)
           R == Having(pay, InProgress)
           w == Weight(pay)
<1>1. pay \in [Payments -> PaymentRows] /\ pay' \in [Payments -> PaymentRows]
  BY DEF IInv, TypeOK
<1>2. FirstStage(k) \in InProgress
  BY DEF FirstStage, InProgress
<1>3. p \in R /\ sum \in 1..Total
  BY DEF SwitchMethod
<1>4. pay[p].status \in InProgress
  BY <1>3 DEF Having
<1>5. /\ pay'[p].status = FirstStage(k) /\ pay'[p].amount = sum
      /\ \A q \in Payments \ {p} : pay'[q] = pay[q]
  <2> DEFINE row == [pay[p] EXCEPT !.status = FirstStage(k), !.method = m,
                                   !.amount = sum,
                                   !.recv = (FirstStage(k) = "received")]
  <2>1. row.status = FirstStage(k) /\ row.amount = sum
    BY <1>1 DEF PaymentRows
  <2>2. pay' = [pay EXCEPT ![p] = row]
    BY <1>1 DEF SwitchMethod
  <2> HIDE DEF row, k, sum
  <2> QED BY <1>1, <2>1, <2>2
<1>6. Weight(pay)[p] = pay[p].amount /\ Weight(pay')[p] = sum
  BY <1>2, <1>4, <1>5 DEF Weight, Counting
<1>7. Load(pay') = Load(pay) - Weight(pay)[p] + Weight(pay')[p]
  BY <1>1, <1>5, OneWritten
<1>8. /\ Confirmed(pay) \in Nat /\ Reserved(pay) \in Nat /\ Load(pay) \in Nat
      /\ Confirmed(pay) + Reserved(pay) = Load(pay)
  BY <1>1, LoadIs
<1>9. pay[p].amount \in Nat /\ Total \in Nat
  BY <1>1, RowTypes, ConstantsAssumption
<1>10. pay[p].amount <= Reserved(pay)
  <2>1. R \in SUBSET Payments /\ \A q \in R : pay[q].status \in Counting
    BY DEF Having, Counting
  <2>2. \A q \in R : w[q] \in Nat
    BY <1>1, <2>1, RowTypes DEF Weight
  <2>3. w[p] = pay[p].amount
    BY <1>6
  <2> HIDE DEF R, w
  <2>4. Sum(pay, R) = SumOver(w, R)
    BY <1>1, <2>1, PartOfLoad DEF w
  <2>5. SumOver(w, {p}) <= SumOver(w, R)
    <3>1. {p} \in SUBSET R /\ IsFiniteSet(R)
      BY <1>3, <2>1, PaymentsFinite
    <3> QED BY <2>2, <3>1, SumOfSubset
  <2>6. SumOver(w, {p}) = pay[p].amount
    <3>1. w[p] \in Int
      BY <1>9, <2>3
    <3> QED BY <2>3, <3>1, SumSingle
  <2> QED BY <2>4, <2>5, <2>6 DEF Reserved, R
<1>11. Remaining(pay) = NonNegative(Total - Confirmed(pay))
  BY DEF Remaining
<1>12. sum = Remaining(pay) - (Reserved(pay) - pay[p].amount)
  OBVIOUS
<1> HIDE DEF sum, w, R, k
<1>13. Load(pay') = Load(pay) - pay[p].amount + sum
  BY <1>6, <1>7
<1>14. Load(pay') <= Total
  BY <1>3, <1>8, <1>9, <1>10, <1>11, <1>12, <1>13 DEF NonNegative
<1>15. Positive'
  <2>1. sum > 0
    BY <1>3, <1>9
  <2> QED BY <1>5, <2>1 DEF Positive
<1> QED BY <1>14, <1>15 DEF MoneyStep

LEMMA WithdrawalLoad ==
  ASSUME IInv, Positive, NEW p \in Payments, NEW a, Intend(p, a) \/ CancelThen(p, a)
  PROVE  MoneyStep
<1>1. CASE Intend(p, a)
  BY <1>1, SamePayments DEF Intend
<1>2. CASE CancelThen(p, a)
  <2>1. CancelInvoice(p) /\ inv[p].mapped
    BY <1>2 DEF CancelThen, CancelInvoice
  <2>2. HasRecord(p)
    BY <2>1 DEF IInv, Provenance, NothingBefore, NoRecord
  <2>3. UNCHANGED pay \/ \E s \in {"cancelling", "cancelled", "pending"} : ApplyStatus(p, s, 0)
    BY <2>1 DEF CancelInvoice
  <2>4. {"cancelling", "cancelled", "pending"} \subseteq ProviderStatuses
    BY DEF ProviderStatuses
  <2> QED BY <2>2, <2>3, <2>4, EvidenceLoad, SamePayments
<1> QED BY <1>1, <1>2

LEMMA DeskLoad ==
  ASSUME IInv, IInv', Positive, NEW p \in Payments, Desk(p)
  PROVE  MoneyStep
<1>0. TypeOK
  BY DEF IInv
<1>1. CASE (\E k \in Kinds[p], a \in Amounts : CreatePayment(p, k, a))
           \/ (\E m \in Methods : SwitchMethod(p, m))
  BY <1>1, CreatedLoad, SwitchedLoad
<1>2. CASE ReceivePayment(p)
  <2> DEFINE row == [pay[p] EXCEPT !.status = "received", !.recv = TRUE]
  <2>1. row.status = "received" /\ row.amount = pay[p].amount
    BY <1>0 DEF TypeOK, PaymentRows
  <2>2. pay' = [pay EXCEPT ![p] = row] /\ pay[p].status = "requested"
    BY <1>0, <1>2 DEF ReceivePayment, TypeOK
  <2> HIDE DEF row
  <2>3. /\ pay'[p].status = "received" /\ pay'[p].amount = pay[p].amount
        /\ \A q \in Payments \ {p} : pay'[q] = pay[q]
    BY <1>0, <2>1, <2>2 DEF TypeOK
  <2>4. Positive'
    BY <2>2, <2>3 DEF Positive
  <2>5. LighterStep
    BY <2>2, <2>3 DEF LighterStep, Counting, InProgress
  <2> QED BY <2>4, <2>5 DEF MoneyStep
<1>3. CASE ConfirmPayment(p)
  BY <1>0, <1>3, MovedLoad DEF ConfirmPayment, Counting, InProgress
<1>4. CASE ReopenPayment(p)
  BY <1>0, <1>4, MovedLoad DEF ReopenPayment, Counting
<1>5. CASE RestorePayment(p)
  <2>1. RestoredStage(p) \in InProgress
    BY DEF RestoredStage, InProgress
  <2> QED BY <1>0, <1>5, <2>1, RestoredLoad DEF RestorePayment
<1>6. CASE RetryIssue(p)
  BY <1>6, SamePayments DEF RetryIssue
<1>7. CASE RejectRequest(p) \/ ReleaseRequest(p)
  BY <1>7, WithdrawalLoad DEF RejectRequest, ReleaseRequest
<1>8. CASE RejectPayment(p)
  BY <1>0, <1>8, RejectLoad DEF RejectPayment
<1>9. CASE ReleasePayment(p)
  <2>1. pay' = RejectIfOpen(p) \/ UNCHANGED pay
    BY <1>9 DEF ReleasePayment, RejectIfOpen
  <2> QED BY <1>0, <2>1, RejectLoad, SamePayments
<1> QED BY <1>1, <1>2, <1>3, <1>4, <1>5, <1>6, <1>7, <1>8, <1>9 DEF Desk

LEMMA OthersLoad ==
  ASSUME IInv, Positive,
         \/ \E p \in Payments :
              \/ Worker(p) \/ Failure(p) \/ Reconcile(p) \/ Age(p)
              \/ ProviderMoves(p) \/ ProcessQueued(p)
         \/ \E e \in inbox : Webhook(e)
  PROVE  MoneyStep
<1>0. TypeOK /\ EvidenceIsOfInvoices /\ \A q \in Payments : Provenance(q)
  BY DEF IInv
<1>1. \A q \in Payments : Issued(q) => HasRecord(q)
  BY <1>0, NotAProviderStatus DEF Provenance, NothingBefore, CountMatches, Issued
<1>2. ASSUME NEW p \in Payments, NEW definite, IssueError(p, definite)
      PROVE  MoneyStep
  <2>1. pay' = RejectIfOpen(p) \/ UNCHANGED pay
    BY <1>2 DEF IssueError
  <2> QED BY <1>0, <2>1, RejectLoad, SamePayments
<1>3. ASSUME NEW p \in Payments, Worker(p)
      PROVE  MoneyStep
  <2>1. CASE Reserve(p) \/ PostInvoice(p) \/ MergeAnswer(p)
    BY <2>1, SamePayments DEF Reserve, PostInvoice, MergeAnswer
  <2>2. CASE ApplyAnswer(p)
    <3>1. HasRecord(p) /\ issue[p].ans \in ProviderStatuses /\ ApplyStatus(p, issue[p].ans, 0)
      BY <1>0, <1>1, <2>2 DEF ApplyAnswer, Provenance, KnownIsIssued, TypeOK, IssueStates
    <3> QED BY <3>1, EvidenceLoad
  <2>3. CASE SaveIssueError(p)
    <3>1. UNCHANGED pay \/ IssueError(p, issue[p].pc = "refused")
      BY <2>3 DEF SaveIssueError
    <3> QED BY <1>2, <3>1, SamePayments
  <2>4. CASE RecoverIssue(p)
    <3>1. CASE UNCHANGED pay \/ IssueError(p, TRUE)
      BY <1>2, <3>1, SamePayments
    <3>2. CASE /\ prov[p].count = 1
               /\ \E ts \in {0, prov[p].ver} : ApplyStatus(p, prov[p].status, ts)
      <4>1. HasRecord(p) /\ prov[p].status \in ProviderStatuses
        BY <1>0, <1>1, <3>2 DEF Provenance, CountMatches, Issued
      <4> QED BY <3>2, <4>1, EvidenceLoad
    <3> QED BY <2>4, <3>1, <3>2 DEF RecoverIssue
  <2>5. CASE RejectUnissued(p)
    <3>1. pay' = RejectIfOpen(p) \/ UNCHANGED pay
      BY <2>5 DEF RejectUnissued
    <3> QED BY <1>0, <3>1, RejectLoad, SamePayments
  <2> QED BY <1>3, <2>1, <2>2, <2>3, <2>4, <2>5 DEF Worker
<1>4. ASSUME NEW p \in Payments,
             Failure(p) \/ Age(p) \/ ProviderMoves(p) \/ ProcessQueued(p)
      PROVE  MoneyStep
  BY <1>4, SamePayments DEF Failure, AbandonIssue, DropHeld, Age, ProviderMoves, ProcessQueued
<1>5. ASSUME NEW p \in Payments, Reconcile(p)
      PROVE  MoneyStep
  <2>1. CASE SearchIssue(p) \/ PollStatus(p)
    BY <2>1, SamePayments DEF SearchIssue, PollStatus
  <2>2. CASE SettleSearch(p)
    <3>1. UNCHANGED pay \/ IssueError(p, TRUE)
      BY <2>2 DEF SettleSearch
    <3> QED BY <1>2, <3>1, SamePayments
  <2>3. CASE ApplyHeld(p)
    <3>1. PICK s \in held : s.p = p /\ ApplyStatus(p, s.status, s.ver)
      BY <2>3 DEF ApplyHeld
    <3>2. s.status \in ProviderStatuses /\ HasRecord(p)
      BY <1>0, <1>1, <3>1 DEF EvidenceIsOfInvoices, TypeOK, Snapshots
    <3> QED BY <3>1, <3>2, EvidenceLoad
  <2> QED BY <1>5, <2>1, <2>2, <2>3 DEF Reconcile
<1>6. ASSUME NEW e \in inbox, Webhook(e)
      PROVE  MoneyStep
  <2>1. e.p \in Payments /\ e.status \in ProviderStatuses /\ HasRecord(e.p)
    BY <1>0, <1>1 DEF EvidenceIsOfInvoices, TypeOK, Snapshots
  <2>2. ApplyStatus(e.p, e.status, e.ver)
    BY <1>6 DEF Webhook
  <2> QED BY <2>1, <2>2, EvidenceLoad
<1> QED BY <1>3, <1>4, <1>5, <1>6

\* A record, once made, is kept.
LEMMA RecordsKept ==
  ASSUME IInv, [Next]_vars
  PROVE  \A q \in Payments : HasRecord(q) => HasRecord(q)'
<1>1. CASE Next
  <2> SUFFICES ASSUME NEW q \in Payments, HasRecord(q)
               PROVE  HasRecord(q)'
    OBVIOUS
  <2>1. RecordStep(q)
    BY <1>1, NextRecord
  <2>2. inv[q].status \in RecordStatuses
    BY DEF IInv, TypeOK, InvoiceRows, HasRecord
  <2>3. AllowedTransitions[inv[q].status] \subseteq ProviderStatuses
    BY <2>2 DEF AllowedTransitions, RecordStatuses, ProviderStatuses, MoneyReceived
  <2>4. "none" \notin ProviderStatuses
    BY DEF ProviderStatuses
  <2> QED BY <2>1, <2>3, <2>4 DEF RecordStep, HasRecord
<1>2. CASE UNCHANGED vars
  BY <1>2 DEF vars, HasRecord
<1> QED BY <1>1, <1>2

LEMMA NextMoney ==
  ASSUME IInv, IInv', Positive, [Next]_vars
  PROVE  MoneyStep
<1>1. CASE UNCHANGED vars
  BY <1>1, SamePayments DEF vars
<1>2. CASE Next
  BY <1>2, DeskLoad, OthersLoad DEF Next
<1> QED BY <1>1, <1>2

\* If late money overbooks the order, every reservation that could be dropped
\* has been: apply_invoice_status evicts newest first until the rest fits, and
\* nothing later adds a reservation while the order is overbooked.
THEOREM LateMoneyEvictsHolds == Spec => []LateMoneyEvicts
<1>1. Init => Positive /\ LateMoneyEvicts
  BY DEF Init, Positive, LateMoneyEvicts, NoPayment
<1>2. IInv /\ IInv' /\ Positive /\ LateMoneyEvicts /\ [Next]_vars
        => Positive' /\ LateMoneyEvicts'
  <2> SUFFICES ASSUME IInv, IInv', Positive, LateMoneyEvicts, [Next]_vars
               PROVE  Positive' /\ LateMoneyEvicts'
    OBVIOUS
  <2>1. MoneyStep /\ \A q \in Payments : HasRecord(q) => HasRecord(q)'
    BY NextMoney, RecordsKept
  <2>2. pay \in [Payments -> PaymentRows] /\ pay' \in [Payments -> PaymentRows]
    BY DEF IInv, TypeOK
  <2>3. /\ Confirmed(pay) + Reserved(pay) = Load(pay) /\ Load(pay) \in Nat
        /\ Confirmed(pay') + Reserved(pay') = Load(pay') /\ Load(pay') \in Nat
    BY <2>2, LoadIs
  <2>4. LateMoneyEvicts' =
          (Confirmed(pay') + Reserved(pay') > Total =>
             \A q \in Payments : pay'[q].status = "requested" => HasRecord(q)')
    BY DEF LateMoneyEvicts
  <2>5. CASE LighterStep
    <3>1. Load(pay') <= Load(pay)
      BY <2>2, <2>5, Lighter DEF LighterStep
    <3>2. Load(pay) > Total => \A q \in Payments : pay[q].status = "requested" => HasRecord(q)
      BY <2>3 DEF LateMoneyEvicts
    <3>3. Load(pay') > Total => Load(pay) > Total
      BY <2>3, <3>1, ConstantsAssumption
    <3> QED BY <2>1, <2>3, <2>4, <2>5, <3>2, <3>3 DEF LighterStep, MoneyStep
  <2>6. CASE Load(pay') <= Total
    <3>1. ~(Load(pay') > Total)
      BY <2>3, <2>6, ConstantsAssumption
    <3> HIDE DEF Load
    <3> QED BY <2>1, <2>3, <2>4, <3>1 DEF MoneyStep
  <2>7. CASE LateStep
    BY <2>1, <2>3, <2>4, <2>7 DEF LateStep, MoneyStep
  <2> QED BY <2>1, <2>5, <2>6, <2>7 DEF MoneyStep
<1> QED BY <1>1, <1>2, Invariance, PTL DEF Spec

\* The order is overbooked only by money for a payment already rejected: every
\* other step lightens what the payments weigh or keeps it within the order.
THEOREM OverbookedOnlyByLateMoneyHolds == Spec => OverbookedOnlyByLateMoney
<1>1. Init => Positive
  BY DEF Init, Positive, NoPayment
<1>2. IInv /\ IInv' /\ Positive /\ [Next]_vars
        => /\ Positive'
           /\ Confirmed(pay') + Reserved(pay') > Total =>
                \/ Confirmed(pay') + Reserved(pay') <= Confirmed(pay) + Reserved(pay)
                \/ \E p \in Payments : pay[p].status = "rejected"
                                       /\ pay'[p].status = "confirmed"
                                       /\ inv'[p].status \in MoneyReceived
  <2> SUFFICES ASSUME IInv, IInv', Positive, [Next]_vars
               PROVE  /\ Positive'
                      /\ Confirmed(pay') + Reserved(pay') > Total =>
                           \/ Confirmed(pay') + Reserved(pay')
                                <= Confirmed(pay) + Reserved(pay)
                           \/ \E p \in Payments : pay[p].status = "rejected"
                                                  /\ pay'[p].status = "confirmed"
                                                  /\ inv'[p].status \in MoneyReceived
    OBVIOUS
  <2>1. MoneyStep
    BY NextMoney
  <2>2. pay \in [Payments -> PaymentRows] /\ pay' \in [Payments -> PaymentRows]
    BY DEF IInv, TypeOK
  <2>3. /\ Confirmed(pay) + Reserved(pay) = Load(pay) /\ Load(pay) \in Nat
        /\ Confirmed(pay') + Reserved(pay') = Load(pay') /\ Load(pay') \in Nat
    BY <2>2, LoadIs
  <2>4. LighterStep => Load(pay') <= Load(pay)
    BY <2>2, Lighter DEF LighterStep
  <2>5. Load(pay') <= Total => ~(Load(pay') > Total)
    BY <2>3, ConstantsAssumption
  <2> QED BY <2>1, <2>3, <2>4, <2>5 DEF MoneyStep, LateStep
<1> QED BY <1>1, <1>2, Invariance, PTL DEF Spec, OverbookedOnlyByLateMoney
=============================================================================
