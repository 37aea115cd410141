----------------------------- MODULE ApiPayRefunds -----------------------------
(***************************************************************************)
(* Refunds of an ApiPay invoice (backend/apps/orders/apipay.py:            *)
(* create_refund, apply_refund_status; refund_reconciliation.py).  The     *)
(* POST cannot be repeated and carries no key: a lost answer leaves a      *)
(* reservation that only a webhook or a snapshot of the provider's refunds *)
(* can match.  Somebody may also refund in the provider's dashboard, for   *)
(* the same amount.                                                        *)
(*                                                                         *)
(* Abstracted: a dashboard refund carries a reason of its own; payloads    *)
(* are well formed; the provider has decided on a POST before the grace of *)
(* the reservation is over.                                                *)
(***************************************************************************)
EXTENDS RefundJournal

VARIABLES
  calls,     \* create_refund calls between reservation and answer
  old,       \* reservations older than orphan_grace
  prov,      \* refunds at the provider: [amount, status, origin]
  mirror,    \* ApiPayRefund.status by provider refund, "none" without a row
  pc,        \* step of reconcile_apipay_refunds
  snap,      \* its snapshot: provider refund -> status
  match,     \* its _correlation_matches: provider refund -> local row
  complete   \* whether it still may release

recon == <<pc, snap, match, complete>>
vars == <<journal, calls, old, prov, mirror, recon>>

ProviderStatuses == {"pending", "completed", "failed"}
RowIds == 1..(2 * MaxRefunds)
RefundIds == 1..MaxRefunds

Reservation(r) == r.method = "apipay" /\ r.status = "pending" /\ r.link = 0
Unlinked == Indexes(rows, Reservation)
Live(p) == p.status # "failed"
Dashboard == {p \in DOMAIN prov : prov[p].origin = 0}
MayAsk == Len(rows) + Cardinality(Dashboard) < MaxRefunds

TypeOK ==
  /\ rows \in Seq(RefundRows({"apipay", "cash"}, RefundIds \cup {0}))
  /\ refunded \in Nat /\ reserved \in Nat
  /\ calls \subseteq [row : RowIds, id : RefundIds \cup {0}, status : ProviderStatuses]
  /\ old \subseteq RowIds
  /\ prov \in Seq([amount : Amounts, status : ProviderStatuses, origin : RowIds \cup {0}])
  /\ DOMAIN mirror = RefundIds
  /\ \A p \in RefundIds : mirror[p] \in ProviderStatuses \cup {"none"}
  /\ pc \in {"idle", "apply"}
  /\ DOMAIN snap \subseteq RefundIds /\ DOMAIN match \subseteq RefundIds
  /\ complete \in BOOLEAN

Nothing == [p \in {} |-> 0]

Init ==
  /\ JournalInit
  /\ calls = {} /\ old = {} /\ prov = <<>>
  /\ mirror = [p \in RefundIds |-> "none"]
  /\ pc = "idle" /\ snap = Nothing /\ match = Nothing /\ complete = FALSE

-----------------------------------------------------------------------------
(* create_refund *)

\* The reservation: no other one of this payment may be unlinked.
Reserve(a) ==
  /\ MayAsk
  /\ Unlinked = {}
  /\ Refundable(a)
  /\ Write(Append(rows, NewRow("apipay", "pending", a, 0)))
  /\ calls' = calls \cup {[row |-> Len(rows) + 1, id |-> 0, status |-> "pending"]}
  /\ UNCHANGED <<old, prov, mirror, recon>>

\* The provider never gives back more than was paid to it.
Room(a) == SumOf(prov, Live) + a <= Paid
Created(a, status, origin) ==
  prov' = Append(prov, [amount |-> a, status |-> status, origin |-> origin])

\* The POST is accepted; its answer may be lost, or the process may die.
PostAccepted(c, status) ==
  /\ c \in calls /\ c.id = 0
  /\ Room(rows[c.row].amount)
  /\ Created(rows[c.row].amount, status, c.row)
  /\ \/ calls' = (calls \ {c}) \cup {[c EXCEPT !.id = Len(prov) + 1, !.status = status]}
     \/ calls' = calls \ {c}
  /\ UNCHANGED <<journal, old, mirror, recon>>

\* A 4xx, or the order is no longer the caller's: the reservation failed.
PostRefused(c) ==
  /\ c \in calls /\ c.id = 0
  /\ calls' = calls \ {c}
  /\ Write(Settled(c.row, "failed"))
  /\ UNCHANGED <<old, prov, mirror, recon>>

\* A timeout or a 5xx, or the process dies first: nobody knows the outcome.
PostUnknown(c) ==
  /\ c \in calls
  /\ calls' = calls \ {c}
  /\ UNCHANGED <<journal, old, prov, mirror, recon>>

Linked(rs, p) == {i \in DOMAIN rs : rs[i].link = p}

\* A completion that does not fit is kept pending.
\* Mutant: an accepted request is a completed refund.
ToldDone(c, fits) == "completed"

Told(c, fits) == IF c.status = "completed" /\ ~fits THEN "pending" ELSE c.status

\* The second transaction of create_refund.  A mirror that is already
\* final is not taken back.
Answer(c) ==
  /\ c \in calls /\ c.id # 0
  /\ LET p == c.id
         value == rows[c.row].amount
         elsewhere == MapThenSumSet(LAMBDA i : rows[i].amount,
                        {i \in DOMAIN rows : /\ rows[i].status = "completed"
                                             /\ i # c.row /\ rows[i].link # p})
         fits == elsewhere + value <= Paid
         told == Told(c, fits)
         kept == mirror[p] \in {"completed", "failed"} /\ told = "pending"
         status == IF kept THEN mirror[p] ELSE told
         others == Linked(rows, p) \ {c.row}
         taken(i) == NewRow(rows[i].method, status, prov[p].amount, p)
     IN /\ mirror' = [mirror EXCEPT ![p] = status]
        /\ Write([i \in DOMAIN rows |->
             IF others = {} THEN (IF i = c.row THEN taken(i) ELSE rows[i])
             ELSE IF i = c.row THEN [rows[i] EXCEPT !.status = "failed"]
             ELSE IF i \in others THEN taken(i) ELSE rows[i]])
  /\ calls' = calls \ {c}
  /\ UNCHANGED <<old, prov, recon>>

-----------------------------------------------------------------------------
(* apply_refund_status: what a webhook or a snapshot tells of one refund. *)

\* The reservations a payload may be correlated with.
Candidates(p) == {i \in Unlinked : rows[i].amount = prov[p].amount}

\* Row given is the pair found by the reconciliation (0: none); a webhook
\* picks one itself.  The empty set: the refund waits for a safe pair.
\* Mutant: what is not paired gets a row of its own, linked or not.
TargetNew(p, given, auto) == IF given # 0 THEN {given} ELSE {Len(rows) + 1}

Target(p, given, auto) ==
  IF Linked(rows, p) # {} THEN Linked(rows, p)
  ELSE IF given # 0 THEN {given}
  ELSE IF Candidates(p) = {} THEN {Len(rows) + 1}
  ELSE IF auto THEN {CHOOSE i \in Candidates(p) : TRUE} ELSE {}

EffectiveStatus(p, told) ==
  IF mirror[p] \in {"completed", "failed"} THEN mirror[p] ELSE told

\* Everything completed so far and this refund stay within the payment.
FitsPayment(p, told) ==
  EffectiveStatus(p, told) = "completed" =>
    MapThenSumSet(LAMBDA q : prov[q].amount,
                  {q \in DOMAIN prov : mirror[q] = "completed" /\ q # p})
      + Cash + prov[p].amount <= Paid

\* The pair the reconciliation found may have been taken since.
PairStillFree(p, given) ==
  (given # 0 /\ Linked(rows, p) = {}) => given \in Candidates(p)

Applies(p, told, given) == FitsPayment(p, told) /\ PairStillFree(p, given)

Apply(p, told, given, auto) ==
  LET status == EffectiveStatus(p, told)
      row == NewRow("apipay", status, prov[p].amount, p)
      target == Target(p, given, auto)
  IN /\ mirror' = [mirror EXCEPT ![p] = status]
     /\ Write(IF target = {Len(rows) + 1} THEN Append(rows, row)
              ELSE [i \in DOMAIN rows |-> IF i \in target THEN row ELSE rows[i]])

\* A webhook, of the present status or a late one; it may come twice or never.
Webhook(p, told) ==
  /\ p \in DOMAIN prov /\ told \in {"pending", prov[p].status}
  /\ Applies(p, told, 0)
  /\ Apply(p, told, 0, TRUE)
  /\ UNCHANGED <<calls, old, prov, recon>>

-----------------------------------------------------------------------------
(* reconcile_apipay_refunds *)

LinkedIds == {rows[i].link : i \in DOMAIN rows} \ {0}

\* Mutant: the snapshot pairs nothing.
NoPairs == Nothing

\* _correlation_matches: the reservation is paired with the refund that
\* echoes its reason, else with the oldest unlinked refund of its amount.
Pairs ==
  LET free(i) == {p \in DOMAIN prov \ LinkedIds : prov[p].amount = rows[i].amount}
      echo(i) == {p \in free(i) : prov[p].origin # 0}
      best(i) == IF echo(i) # {} THEN Min(echo(i)) ELSE Min(free(i))
      pairable == {i \in Unlinked : free(i) # {}}
  IN [p \in {best(i) : i \in pairable} |-> CHOOSE i \in pairable : best(i) = p]

ReadSnapshot ==
  /\ pc = "idle"
  /\ pc' = "apply" /\ complete' = TRUE
  /\ snap' = [p \in DOMAIN prov |-> prov[p].status]
  /\ match' = Pairs
  /\ UNCHANGED <<journal, calls, old, prov, mirror>>

\* One payload, in a transaction of its own; a refused one spoils the release.
ApplySnapshot(p) ==
  /\ pc = "apply" /\ p \in DOMAIN snap
  /\ \A q \in DOMAIN snap : p <= q
  /\ LET given == IF p \in DOMAIN match THEN match[p] ELSE 0 IN
       IF Applies(p, snap[p], given)
       THEN Apply(p, snap[p], given, FALSE) /\ UNCHANGED complete
       ELSE complete' = FALSE /\ UNCHANGED <<journal, mirror>>
  /\ snap' = [q \in DOMAIN snap \ {p} |-> snap[q]]
  /\ UNCHANGED <<calls, old, prov, pc, match>>

\* Mutant: a refund that is linked already explains another reservation too.
OrphansOfAll ==
  {i \in Unlinked \cap old :
     \A p \in RefundIds : mirror[p] # "none" => prov[p].amount # rows[i].amount}

\* _release_absent_orphans: reservations past the grace that no unlinked
\* refund of the same amount may explain.
Orphans ==
  {i \in Unlinked \cap old :
     \A p \in RefundIds \ LinkedIds : mirror[p] # "none" => prov[p].amount # rows[i].amount}

Release ==
  /\ pc = "apply" /\ snap = Nothing
  /\ IF complete
     THEN Write([i \in DOMAIN rows |->
            IF i \in Orphans THEN [rows[i] EXCEPT !.status = "failed"] ELSE rows[i]])
     ELSE UNCHANGED journal
  /\ pc' = "idle" /\ match' = Nothing /\ complete' = FALSE
  /\ UNCHANGED <<calls, old, prov, mirror, snap>>

ReconcilerDies ==
  /\ pc = "apply"
  /\ pc' = "idle" /\ snap' = Nothing /\ match' = Nothing /\ complete' = FALSE
  /\ UNCHANGED <<journal, calls, old, prov, mirror>>

-----------------------------------------------------------------------------
(* The till, the provider and the clock. *)

PayCash(a) == MayAsk /\ CashRefund(a) /\ UNCHANGED <<calls, old, prov, mirror, recon>>

ProviderDecides(p, status) ==
  /\ p \in DOMAIN prov /\ prov[p].status = "pending"
  /\ status \in {"completed", "failed"}
  /\ prov' = [prov EXCEPT ![p].status = status]
  /\ UNCHANGED <<journal, calls, old, mirror, recon>>

DashboardRefund(a) ==
  /\ MayAsk
  /\ a \in Amounts /\ Room(a)
  /\ Created(a, "pending", 0)
  /\ UNCHANGED <<journal, calls, old, mirror, recon>>

\* Fifteen minutes later; the longest call is over long before.  Release
\* counts from the start of its iteration (observed_at): what ages during
\* one is old for the next.
GrowsOld(i) ==
  /\ pc = "idle"
  /\ i \in Unlinked \ old
  /\ \A c \in calls : c.row # i
  /\ old' = old \cup {i}
  /\ UNCHANGED <<journal, calls, prov, mirror, recon>>

-----------------------------------------------------------------------------
Next ==
  \/ \E a \in Amounts : Reserve(a) \/ PayCash(a) \/ DashboardRefund(a)
  \/ \E c \in calls :
       \/ \E status \in {"pending", "completed"} : PostAccepted(c, status)
       \/ PostRefused(c) \/ PostUnknown(c) \/ Answer(c)
  \/ \E p \in RefundIds, status \in ProviderStatuses :
       Webhook(p, status) \/ ProviderDecides(p, status)
  \/ ReadSnapshot \/ Release \/ ReconcilerDies
  \/ \E p \in RefundIds : ApplySnapshot(p)
  \/ \E i \in RowIds : GrowsOld(i)

Spec == Init /\ [][Next]_vars

(* The reconciliation runs on a timer; it may die, but not always before    *)
(* the same payload.  The provider decides in the end, calls end by timeout,*)
(* time passes.                                                             *)
Fairness ==
  /\ WF_vars(ReadSnapshot) /\ SF_vars(Release)
  /\ \A p \in RefundIds : SF_vars(ApplySnapshot(p))
  /\ WF_vars(\E p \in RefundIds, s \in ProviderStatuses : ProviderDecides(p, s))
  /\ SF_vars(\E i \in RowIds : GrowsOld(i))
  /\ WF_vars(\E c \in calls : PostUnknown(c))

FairSpec == Spec /\ Fairness

-----------------------------------------------------------------------------
(* Properties *)

\* The money itself: unless somebody refunds in the dashboard, the provider
\* and the till together give back no more than was paid, whatever answers
\* are lost and however the reconciliation interleaves.
NoOverRefund ==
  Dashboard = {} => SumOf(prov, Live) + Cash <= Paid

\* No refund of the provider is counted by two rows ("Never attach one
\* provider refund to two local reservations", apipay.py:1506).
CountedOnce ==
  \A p \in DOMAIN prov : Cardinality(Linked(rows, p)) <= 1

\* A row shown as completed stands for money that has left.
CompletedIsTrue ==
  \A i \in DOMAIN rows :
    (rows[i].method = "apipay" /\ rows[i].status = "completed") =>
      rows[i].link # 0 /\ prov[rows[i].link].status = "completed"

\* Money the provider gave back is counted in the end, unless all of it does
\* not fit into the payment.
RefundIsCounted ==
  \A p \in RefundIds :
    (p \in DOMAIN prov /\ prov[p].status = "completed") ~>
      \/ \E i \in DOMAIN rows : rows[i].link = p /\ rows[i].status = "completed"
      \/ SumOf(prov, LAMBDA q : q.status = "completed") + Cash > Paid

\* No reservation withholds the balance for ever.
ReservationEnds ==
  \A i \in RowIds : (i \in Unlinked) ~> (i \notin Unlinked)

-----------------------------------------------------------------------------
(* Why: the inductive invariant behind the first three.                    *)

Unposted == {c \in calls : c.id = 0}

WellFormed ==
  /\ rows \in Seq(RefundRows({"apipay", "cash"}, DOMAIN prov \cup {0}))
  /\ prov \in Seq([amount : Nat, status : ProviderStatuses, origin : Nat])
  /\ mirror \in [RefundIds -> ProviderStatuses \cup {"none"}]
  /\ calls \subseteq [row : DOMAIN rows, id : DOMAIN prov \cup {0}, status : ProviderStatuses]
  /\ old \subseteq DOMAIN rows /\ DOMAIN snap \subseteq DOMAIN prov
  /\ refunded = Total(rows, "completed") /\ reserved = Total(rows, "pending")

\* A refund at the provider was asked for by somebody, so there is a place for
\* it in the mirror.
Asked ==
  /\ IsFiniteSet(calls)
  /\ Len(prov) + Cardinality(Unposted) <= MaxRefunds
  /\ Len(prov) + Cardinality(Unposted) <= Len(rows) + Cardinality(Dashboard)

LinkedOnce ==
  \A i, j \in DOMAIN rows : (rows[i].link # 0 /\ rows[i].link = rows[j].link) => i = j

\* Whoever reports a final status reports that of the provider.
Truthful ==
  /\ \A p \in RefundIds :
       mirror[p] # "none" => p \in DOMAIN prov /\ mirror[p] \in {"pending", prov[p].status}
  /\ \A p \in DOMAIN snap : snap[p] \in {"pending", prov[p].status}
  /\ \A c \in calls : IF c.id = 0 THEN c.status = "pending"
                      ELSE c.status \in {"pending", prov[c.id].status}
  /\ CompletedIsTrue

MethodsKept ==
  /\ \A i \in DOMAIN rows : rows[i].method = "cash" => rows[i].link = 0 /\ rows[i].status = "completed"
  /\ \A c \in calls : rows[c.row].method = "apipay"

\* A refund and the reservation it was posted for: linked, or the one
\* reservation that still waits for its refund.
Matched(p) ==
  LET i == prov[p].origin IN
  /\ i \in DOMAIN rows /\ rows[i].method = "apipay" /\ rows[i].amount = prov[p].amount
  /\ rows[i].link = p \/ i \in Unlinked

\* A row that is linked is linked to its own refund and shows its status.
OwnLink(i) ==
  rows[i].link # 0 => /\ prov[rows[i].link].origin = i
                      /\ rows[i].status = mirror[rows[i].link]

OneWaits == \A i, j \in Unlinked : i = j

CallsMatched ==
  /\ \A c, d \in calls : c.row = d.row => c = d
  /\ \A c \in calls :
       /\ c.row \notin old
       /\ IF c.id = 0 THEN c.row \in Unlinked /\ \A p \in DOMAIN prov : prov[p].origin # c.row
          ELSE prov[c.id].origin = c.row

\* What the reconciliation has read and not yet refused is in the mirror, so
\* a refund of an old reservation is seen before the reservation is released.
Seen ==
  (pc = "apply" /\ complete) =>
    \A p \in DOMAIN prov :
      prov[p].origin \in old => p \in DOMAIN snap \/ mirror[p] # "none"

Held ==
  /\ \A p \in DOMAIN prov : Matched(p)
  /\ \A p, q \in DOMAIN prov : prov[p].origin = prov[q].origin => p = q
  /\ \A i \in DOMAIN rows : OwnLink(i)
  /\ OneWaits /\ CallsMatched /\ Seen
  /\ refunded + reserved <= Paid

IInv ==
  /\ WellFormed /\ Asked /\ LinkedOnce /\ Truthful /\ MethodsKept
  /\ Dashboard = {} => Held
=============================================================================
