-------------------------- MODULE ApiPayRefunds_proofs --------------------------
(* Proofs about the refunds of an ApiPay invoice: for every payment, every   *)
(* set of amounts and every number of refunds.                               *)
EXTENDS ApiPayRefunds, Sums_proofs

(* The parts of an action, named. *)
JournalRows(P) == Seq(RefundRows({"apipay", "cash"}, P \cup {0}))
CallsOf(D, P) == [row : D, id : P \cup {0}, status : ProviderStatuses]

\* The balance: what completed and pending rows take from the payment.
Balance(rs) == SumOver(Weights(rs), DOMAIN rs)

LEMMA TotalsAreBalance ==
  ASSUME NEW P, NEW rs \in JournalRows(P)
  PROVE  /\ Total(rs, "completed") \in Nat /\ Total(rs, "pending") \in Nat
         /\ Total(rs, "completed") + Total(rs, "pending") = Balance(rs)
<1>1. DOMAIN rs = 1..Len(rs) /\ Len(rs) \in Nat
  BY DEF JournalRows
<1>2. IsFiniteSet(DOMAIN rs)
  BY <1>1, FS_Interval
<1>3. \A i \in DOMAIN rs : /\ rs[i].amount \in Nat
                           /\ rs[i].status \in {"pending", "completed", "failed"}
  <2>1. \A i \in DOMAIN rs : rs[i] \in RefundRows({"apipay", "cash"}, P \cup {0})
    BY DEF JournalRows
  <2> QED BY <2>1 DEF RefundRows, RefundStatuses
<1> DEFINE total(status) == MapThenSumSet(LAMBDA i : rs[i].amount,
                                          {i \in DOMAIN rs : rs[i].status = status})
<1>4. Total(rs, "completed") = total("completed") /\ Total(rs, "pending") = total("pending")
  BY DEF Total, SumOf, Indexes
<1>5. /\ total("completed") \in Nat /\ total("pending") \in Nat
      /\ total("completed") + total("pending") = SumOver(Weights(rs), DOMAIN rs)
  BY <1>2, <1>3, TotalsAreWeights
<1> HIDE DEF total
<1> QED BY <1>4, <1>5 DEF Balance

\* A new row, and a row that keeps its amount and does not come back to life.
LEMMA BalanceAppend ==
  ASSUME NEW P, NEW rs \in JournalRows(P), NEW r \in RefundRows({"apipay", "cash"}, P \cup {0})
  PROVE  Balance(Append(rs, r)) = Balance(rs) + (IF r.status = "failed" THEN 0 ELSE r.amount)
<1>1. \A q \in RefundRows({"apipay", "cash"}, P \cup {0}) : q.amount \in Nat
  BY DEF RefundRows
<1> QED BY <1>1, WeightsAppend DEF Balance, JournalRows

LEMMA BalanceAtMost ==
  ASSUME NEW P, NEW rs \in JournalRows(P), NEW rt, DOMAIN rt = DOMAIN rs,
         \A i \in DOMAIN rs : /\ rt[i].amount = rs[i].amount
                              /\ rs[i].status = "failed" => rt[i].status = "failed"
  PROVE  Balance(rt) <= Balance(rs)
<1>1. DOMAIN rs = 1..Len(rs) /\ Len(rs) \in Nat
  BY DEF JournalRows
<1>2. IsFiniteSet(DOMAIN rs)
  BY <1>1, FS_Interval
<1>3. \A i \in DOMAIN rs : rs[i].amount \in Nat
  <2>1. \A i \in DOMAIN rs : rs[i] \in RefundRows({"apipay", "cash"}, P \cup {0})
    BY DEF JournalRows
  <2> QED BY <2>1 DEF RefundRows
<1> QED BY <1>2, <1>3, WeightsAtMost DEF Balance

LEMMA BalanceNat ==
  ASSUME NEW P, NEW rs \in JournalRows(P)
  PROVE  Balance(rs) \in Nat
BY TotalsAreBalance

-----------------------------------------------------------------------------
(* Reading the type invariant. *)

LEMMA Facts ==
  ASSUME WellFormed
  PROVE  /\ rows \in JournalRows(DOMAIN prov)
         /\ Len(rows) \in Nat /\ DOMAIN rows = 1..Len(rows)
         /\ Len(prov) \in Nat /\ DOMAIN prov = 1..Len(prov)
         /\ \A i \in DOMAIN rows :
              /\ rows[i] \in RefundRows({"apipay", "cash"}, DOMAIN prov \cup {0})
              /\ rows[i].method \in {"apipay", "cash"} /\ rows[i].status \in RefundStatuses
              /\ rows[i].amount \in Nat /\ rows[i].link \in DOMAIN prov \cup {0}
         /\ \A p \in DOMAIN prov :
              /\ prov[p] \in [amount : Nat, status : ProviderStatuses, origin : Nat]
              /\ prov[p].amount \in Nat /\ prov[p].status \in ProviderStatuses
              /\ prov[p].origin \in Nat
         /\ \A c \in calls : /\ c \in CallsOf(DOMAIN rows, DOMAIN prov)
                             /\ c.row \in DOMAIN rows /\ c.id \in DOMAIN prov \cup {0}
                             /\ c.status \in ProviderStatuses
<1> DEFINE Prov == [amount : Nat, status : ProviderStatuses, origin : Nat]
           Row == RefundRows({"apipay", "cash"}, DOMAIN prov \cup {0})
<1>1. rows \in Seq(Row) /\ prov \in Seq(Prov) /\ calls \subseteq CallsOf(DOMAIN rows, DOMAIN prov)
  BY DEF WellFormed, CallsOf
<1>2. /\ Len(rows) \in Nat /\ DOMAIN rows = 1..Len(rows) /\ \A i \in DOMAIN rows : rows[i] \in Row
      /\ Len(prov) \in Nat /\ DOMAIN prov = 1..Len(prov) /\ \A p \in DOMAIN prov : prov[p] \in Prov
  <2> HIDE DEF Prov, Row
  <2> QED BY <1>1
<1>3. \A i \in DOMAIN rows :
        /\ rows[i].method \in {"apipay", "cash"} /\ rows[i].status \in RefundStatuses
        /\ rows[i].amount \in Nat /\ rows[i].link \in DOMAIN prov \cup {0}
  BY <1>2 DEF RefundRows
<1>4. \A p \in DOMAIN prov : /\ prov[p].amount \in Nat /\ prov[p].status \in ProviderStatuses
                             /\ prov[p].origin \in Nat
  BY <1>2
<1>5. \A c \in calls : /\ c \in CallsOf(DOMAIN rows, DOMAIN prov)
                       /\ c.row \in DOMAIN rows /\ c.id \in DOMAIN prov \cup {0}
                       /\ c.status \in ProviderStatuses
  BY <1>1 DEF CallsOf
<1> QED BY <1>1, <1>2, <1>3, <1>4, <1>5 DEF JournalRows

\* Every refund of the provider has its place in the mirror.
LEMMA InMirror ==
  ASSUME WellFormed, Asked
  PROVE  DOMAIN prov \subseteq RefundIds
<1>1. IsFiniteSet(Unposted)
  BY FS_Subset DEF Asked, Unposted
<1>2. Cardinality(Unposted) \in Nat
  BY <1>1, FS_CardinalityType
<1>3. Len(prov) + Cardinality(Unposted) <= MaxRefunds /\ Len(prov) \in Nat /\ MaxRefunds \in Nat
  BY Facts, JournalAssumption DEF Asked
<1> QED BY <1>2, <1>3, Facts DEF RefundIds

LEMMA RowSet ==
  ASSUME NEW P, NEW rs \in JournalRows(P), NEW i \in DOMAIN rs,
         NEW r \in RefundRows({"apipay", "cash"}, P \cup {0})
  PROVE  /\ [rs EXCEPT ![i] = r] \in JournalRows(P)
         /\ DOMAIN [rs EXCEPT ![i] = r] = DOMAIN rs
BY DEF JournalRows

\* What apply_refund_status does to the journal: nothing, a new row, or one row
\* taken over that is linked to the refund or may be.
LEMMA ApplyEffect ==
  ASSUME WellFormed, LinkedOnce, NEW p \in DOMAIN prov, NEW told, NEW given, NEW auto,
         PairStillFree(p, given), Apply(p, told, given, auto)
  PROVE  LET row == NewRow("apipay", EffectiveStatus(p, told), prov[p].amount, p) IN
         /\ mirror' = [mirror EXCEPT ![p] = EffectiveStatus(p, told)]
         /\ \/ rows' = rows /\ Linked(rows, p) = {} 
            \/ rows' = Append(rows, row) /\ Linked(rows, p) = {} /\ Candidates(p) = {}
            \/ \E i \in DOMAIN rows :
                 /\ rows' = [rows EXCEPT ![i] = row]
                 /\ \/ rows[i].link = p
                    \/ Linked(rows, p) = {} /\ i \in Candidates(p)
         /\ refunded' = Total(rows', "completed") /\ reserved' = Total(rows', "pending")
<1> DEFINE row == NewRow("apipay", EffectiveStatus(p, told), prov[p].amount, p)
           target == Target(p, given, auto)
<1>1. /\ mirror' = [mirror EXCEPT ![p] = EffectiveStatus(p, told)]
      /\ refunded' = Total(rows', "completed") /\ reserved' = Total(rows', "pending")
      /\ rows' = IF target = {Len(rows) + 1} THEN Append(rows, row)
                 ELSE [i \in DOMAIN rows |-> IF i \in target THEN row ELSE rows[i]]
  BY DEF Apply, Write
<1>2. Len(rows) + 1 \notin DOMAIN rows /\ p # 0 /\ rows = [i \in DOMAIN rows |-> rows[i]]
  BY Facts DEF JournalRows
<1>3. ASSUME NEW i \in DOMAIN rows, target = {i}
      PROVE  rows' = [rows EXCEPT ![i] = row]
  <2>1. target # {Len(rows) + 1}
    BY <1>2, <1>3
  <2> HIDE DEF target, row
  <2>2. rows' = [j \in DOMAIN rows |-> IF j \in {i} THEN row ELSE rows[j]]
    BY <1>1, <1>3, <2>1
  <2> QED BY <1>2, <2>2
<1>4. CASE Linked(rows, p) # {}
  <2>1. PICK i \in DOMAIN rows : rows[i].link = p
    BY <1>4 DEF Linked
  <2>2. \A j \in DOMAIN rows : rows[j].link = p => j = i
    BY <1>2, <2>1 DEF LinkedOnce
  <2>3. Linked(rows, p) = {i}
    BY <2>1, <2>2 DEF Linked
  <2>4. target = {i}
    BY <1>4, <2>3 DEF Target
  <2> QED BY <1>1, <1>3, <2>1, <2>4
<1>5. CASE Linked(rows, p) = {} /\ given # 0
  <2>1. given \in Candidates(p) /\ target = {given}
    BY <1>5 DEF PairStillFree, Target
  <2>2. given \in DOMAIN rows
    BY <2>1 DEF Candidates, Unlinked, Indexes
  <2> QED BY <1>1, <1>3, <1>5, <2>1, <2>2
<1>6. CASE Linked(rows, p) = {} /\ given = 0 /\ Candidates(p) = {}
  BY <1>1, <1>6 DEF Target
<1>7. CASE Linked(rows, p) = {} /\ given = 0 /\ Candidates(p) # {} /\ auto
  <2>1. PICK i : i \in Candidates(p) /\ target = {i}
    BY <1>7 DEF Target
  <2>2. i \in DOMAIN rows
    BY <2>1 DEF Candidates, Unlinked, Indexes
  <2> QED BY <1>1, <1>3, <1>7, <2>1, <2>2
<1>8. CASE Linked(rows, p) = {} /\ given = 0 /\ Candidates(p) # {} /\ ~auto
  <2>1. target = {}
    BY <1>8 DEF Target
  <2>2. rows' = rows
    <3> HIDE DEF row, target
    <3> QED BY <1>1, <1>2, <2>1
  <2> QED BY <1>1, <1>8, <2>2
<1> QED BY <1>4, <1>5, <1>6, <1>7, <1>8

\* What the second transaction of create_refund does: its row takes the refund
\* over, or gives way to the row that has it.
AnswerWrites(c, status) ==
  LET p == c.id
      taken(i) == NewRow(rows[i].method, status, prov[p].amount, p)
  IN /\ mirror' = [mirror EXCEPT ![p] = status]
     /\ IF mirror[p] \in {"completed", "failed"}
        THEN status = mirror[p] \/ (status = c.status /\ status # "pending")
        ELSE status \in {"pending", c.status}
     /\ \/ Linked(rows, p) \subseteq {c.row} /\ rows' = [rows EXCEPT ![c.row] = taken(c.row)]
        \/ \E j \in DOMAIN rows :
             /\ j # c.row /\ rows[j].link = p
             /\ rows' = [i \in DOMAIN rows |->
                           IF i = c.row THEN [rows[i] EXCEPT !.status = "failed"]
                           ELSE IF i = j THEN taken(j) ELSE rows[i]]

LEMMA AnswerEffect ==
  ASSUME WellFormed, LinkedOnce, NEW c \in calls, Answer(c)
  PROVE  /\ c.id \in DOMAIN prov
         /\ refunded' = Total(rows', "completed") /\ reserved' = Total(rows', "pending")
         /\ \E status : AnswerWrites(c, status)
<1> DEFINE p == c.id
           value == rows[c.row].amount
           elsewhere == MapThenSumSet(LAMBDA i : rows[i].amount,
                          {i \in DOMAIN rows : /\ rows[i].status = "completed"
                                               /\ i # c.row /\ rows[i].link # p})
           fits == elsewhere + value <= Paid
           told == Told(c, fits)
           kept == mirror[p] \in {"completed", "failed"} /\ told = "pending"
           status == IF kept THEN mirror[p] ELSE told
           others == Linked(rows, p) \ {c.row}
           taken(i) == NewRow(rows[i].method, status, prov[p].amount, p)
<1>1. c.id # 0 /\ p \in DOMAIN prov /\ c.row \in DOMAIN rows
  BY Facts DEF Answer
<1>2. told \in {"pending", c.status}
  BY DEF Told
<1>3. IF mirror[p] \in {"completed", "failed"}
      THEN status = mirror[p] \/ (status = c.status /\ status # "pending")
      ELSE status \in {"pending", c.status}
  <2> HIDE DEF told
  <2> QED BY <1>2
<1>4. /\ mirror' = [mirror EXCEPT ![p] = status]
      /\ refunded' = Total(rows', "completed") /\ reserved' = Total(rows', "pending")
      /\ rows' = [i \in DOMAIN rows |->
             IF others = {} THEN (IF i = c.row THEN taken(i) ELSE rows[i])
             ELSE IF i = c.row THEN [rows[i] EXCEPT !.status = "failed"]
             ELSE IF i \in others THEN taken(i) ELSE rows[i]]
  BY DEF Answer, Write
<1>5. rows = [i \in DOMAIN rows |-> rows[i]]
  BY Facts DEF JournalRows
<1>6. \/ Linked(rows, p) \subseteq {c.row} /\ rows' = [rows EXCEPT ![c.row] = taken(c.row)]
      \/ \E j \in DOMAIN rows :
           /\ j # c.row /\ rows[j].link = p
           /\ rows' = [i \in DOMAIN rows |->
                         IF i = c.row THEN [rows[i] EXCEPT !.status = "failed"]
                         ELSE IF i = j THEN taken(j) ELSE rows[i]]
  <2>1. CASE others = {}
    <3>1. Linked(rows, p) \subseteq {c.row}
      BY <2>1
    <3>2. rows' = [rows EXCEPT ![c.row] = taken(c.row)]
      <4>1. rows' = [i \in DOMAIN rows |-> IF i = c.row THEN taken(i) ELSE rows[i]]
        <5> HIDE DEF taken, others
        <5> QED BY <1>4, <2>1
      <4> HIDE DEF taken
      <4> QED BY <1>1, <1>5, <4>1
    <3> QED BY <3>1, <3>2
  <2>2. CASE others # {}
    <3>1. PICK j \in DOMAIN rows : rows[j].link = p /\ j # c.row
      BY <2>2 DEF Linked
    <3>2. \A i \in DOMAIN rows : rows[i].link = p => i = j
      BY <1>1, <3>1 DEF LinkedOnce
    <3>3. others = {j}
      BY <3>1, <3>2 DEF Linked
    <3>4. rows' = [i \in DOMAIN rows |->
                     IF i = c.row THEN [rows[i] EXCEPT !.status = "failed"]
                     ELSE IF i = j THEN taken(j) ELSE rows[i]]
      <4> HIDE DEF taken, others
      <4> QED BY <1>4, <3>1, <3>3
    <3> QED BY <3>1, <3>4
  <2> QED BY <2>1, <2>2
<1>7. AnswerWrites(c, status)
  <2> HIDE DEF status
  <2> QED BY <1>3, <1>4, <1>6 DEF AnswerWrites
<1> HIDE DEF status
<1> QED BY <1>1, <1>4, <1>7

-----------------------------------------------------------------------------
(* The types are kept. *)

Prov == Seq([amount : Nat, status : ProviderStatuses, origin : Nat])

LEMMA RowsGrow ==
  ASSUME NEW P, NEW rs \in JournalRows(P), NEW r \in RefundRows({"apipay", "cash"}, P \cup {0})
  PROVE  /\ Append(rs, r) \in JournalRows(P) /\ DOMAIN rs \subseteq DOMAIN Append(rs, r)
         /\ Len(rs) + 1 \in DOMAIN Append(rs, r)
BY DEF JournalRows

LEMMA LinksGrow ==
  ASSUME NEW P, NEW Q, P \subseteq Q, NEW rs \in JournalRows(P)
  PROVE  rs \in JournalRows(Q)
<1>1. RefundRows({"apipay", "cash"}, P \cup {0}) \subseteq RefundRows({"apipay", "cash"}, Q \cup {0})
  BY DEF RefundRows
<1> DEFINE A == RefundRows({"apipay", "cash"}, P \cup {0})
           B == RefundRows({"apipay", "cash"}, Q \cup {0})
<1>2. A \subseteq B /\ rs \in Seq(A)
  BY <1>1 DEF JournalRows
<1> HIDE DEF A, B
<1>3. rs \in Seq(B)
  <2>1. Len(rs) \in Nat /\ rs = [i \in 1..Len(rs) |-> rs[i]] /\ \A i \in 1..Len(rs) : rs[i] \in A
    BY <1>2
  <2> QED BY <1>2, <2>1
<1> QED BY <1>3 DEF JournalRows, B

LEMMA RefundsGrow ==
  ASSUME prov \in Prov, NEW a \in Nat, NEW status \in ProviderStatuses, NEW origin \in Nat,
         Created(a, status, origin)
  PROVE  /\ prov' \in Prov /\ Len(prov') = Len(prov) + 1
         /\ DOMAIN prov' = DOMAIN prov \cup {Len(prov) + 1} /\ Len(prov) + 1 \notin DOMAIN prov
         /\ \A p \in DOMAIN prov : prov'[p] = prov[p]
         /\ prov'[Len(prov) + 1] = [amount |-> a, status |-> status, origin |-> origin]
         /\ prov'[Len(prov) + 1].amount = a /\ prov'[Len(prov) + 1].origin = origin
BY DEF Prov, Created

LEMMA RowOfApply ==
  ASSUME WellFormed, Asked, NEW p \in DOMAIN prov, NEW told \in ProviderStatuses
  PROVE  /\ EffectiveStatus(p, told) \in ProviderStatuses
         /\ NewRow("apipay", EffectiveStatus(p, told), prov[p].amount, p)
              \in RefundRows({"apipay", "cash"}, DOMAIN prov \cup {0})
<1>1. EffectiveStatus(p, told) \in ProviderStatuses
  BY DEF EffectiveStatus, ProviderStatuses
<1> QED BY <1>1, Facts DEF NewRow, RefundRows, ProviderStatuses, RefundStatuses

\* The whole type invariant from its parts.
LEMMA Assembled ==
  ASSUME rows' \in JournalRows(DOMAIN prov'), prov' \in Prov,
         mirror' \in [RefundIds -> ProviderStatuses \cup {"none"}],
         calls' \subseteq CallsOf(DOMAIN rows', DOMAIN prov'),
         old' \subseteq DOMAIN rows', DOMAIN snap' \subseteq DOMAIN prov',
         refunded' = Total(rows', "completed"), reserved' = Total(rows', "pending")
  PROVE  WellFormed'
BY DEF WellFormed, JournalRows, Prov, CallsOf

LEMMA Parts ==
  ASSUME WellFormed
  PROVE  /\ rows \in JournalRows(DOMAIN prov) /\ prov \in Prov
         /\ mirror \in [RefundIds -> ProviderStatuses \cup {"none"}]
         /\ calls \subseteq CallsOf(DOMAIN rows, DOMAIN prov)
         /\ old \subseteq DOMAIN rows /\ DOMAIN snap \subseteq DOMAIN prov
         /\ refunded = Total(rows, "completed") /\ reserved = Total(rows, "pending")
BY DEF WellFormed, JournalRows, Prov, CallsOf

LEMMA CallsGrow ==
  ASSUME NEW D, NEW E, D \subseteq E, NEW P, NEW Q, P \subseteq Q, NEW S, S \subseteq CallsOf(D, P)
  PROVE  S \subseteq CallsOf(E, Q)
BY DEF CallsOf

\* apply_refund_status, whoever tells.
LEMMA ApplyWellFormed ==
  ASSUME WellFormed, Asked, LinkedOnce, NEW p \in DOMAIN prov, NEW told \in ProviderStatuses,
         NEW given, NEW auto, PairStillFree(p, given), Apply(p, told, given, auto),
         UNCHANGED <<calls, old, prov>>, DOMAIN snap' \subseteq DOMAIN snap
  PROVE  WellFormed'
<1> DEFINE row == NewRow("apipay", EffectiveStatus(p, told), prov[p].amount, p)
<1>1. row \in RefundRows({"apipay", "cash"}, DOMAIN prov \cup {0})
  BY RowOfApply
<1>2. rows' \in JournalRows(DOMAIN prov) /\ DOMAIN rows \subseteq DOMAIN rows'
  <2>1. rows \in JournalRows(DOMAIN prov)
    BY Parts
  <2>2. \/ rows' = rows \/ rows' = Append(rows, row)
        \/ \E i \in DOMAIN rows : rows' = [rows EXCEPT ![i] = row]
    BY ApplyEffect
  <2> HIDE DEF row
  <2>3. CASE rows' = Append(rows, row)
    BY <1>1, <2>1, <2>3, RowsGrow
  <2>4. ASSUME NEW i \in DOMAIN rows, rows' = [rows EXCEPT ![i] = row]
        PROVE  rows' \in JournalRows(DOMAIN prov) /\ DOMAIN rows' = DOMAIN rows
    BY <1>1, <2>1, <2>4, RowSet
  <2> QED BY <2>1, <2>2, <2>3, <2>4
<1>3. mirror' \in [RefundIds -> ProviderStatuses \cup {"none"}]
  BY ApplyEffect, RowOfApply, Parts
<1>4. refunded' = Total(rows', "completed") /\ reserved' = Total(rows', "pending")
  BY ApplyEffect
<1>5. calls' \subseteq CallsOf(DOMAIN rows', DOMAIN prov')
  BY <1>2, Parts, CallsGrow
<1> QED BY <1>2, <1>3, <1>4, <1>5, Parts, Assembled

LEMMA AnswerWellFormed ==
  ASSUME WellFormed, Asked, LinkedOnce, NEW c \in calls, Answer(c)
  PROVE  WellFormed'
<1> DEFINE p == c.id
           R == RefundRows({"apipay", "cash"}, DOMAIN prov \cup {0})
<1>1. p \in DOMAIN prov /\ c.row \in DOMAIN rows /\ c.status \in ProviderStatuses
  BY AnswerEffect, Facts
<1>2. PICK status : AnswerWrites(c, status)
  BY AnswerEffect
<1>3. status \in ProviderStatuses
  BY <1>1, <1>2 DEF AnswerWrites, ProviderStatuses
<1>4. \A i \in DOMAIN rows : NewRow(rows[i].method, status, prov[p].amount, p) \in R
  BY <1>1, <1>3, Facts DEF NewRow, RefundRows, ProviderStatuses, RefundStatuses
<1>5. \A i \in DOMAIN rows : [rows[i] EXCEPT !.status = "failed"] \in R
  BY Facts DEF RefundRows, RefundStatuses
<1>6. rows' \in JournalRows(DOMAIN prov) /\ DOMAIN rows' = DOMAIN rows
  <2>1. rows \in JournalRows(DOMAIN prov)
    BY Parts
  <2>2. CASE rows' = [rows EXCEPT ![c.row] = NewRow(rows[c.row].method, status, prov[p].amount, p)]
    BY <1>1, <1>4, <2>1, <2>2, RowSet
  <2>3. ASSUME NEW j \in DOMAIN rows,
               rows' = [i \in DOMAIN rows |->
                          IF i = c.row THEN [rows[i] EXCEPT !.status = "failed"]
                          ELSE IF i = j THEN NewRow(rows[j].method, status, prov[p].amount, p)
                          ELSE rows[i]]
        PROVE  rows' \in JournalRows(DOMAIN prov) /\ DOMAIN rows' = DOMAIN rows
    <3>1. \A i \in DOMAIN rows : rows[i] \in R
      BY Facts
    <3> HIDE DEF R
    <3>2. \A i \in DOMAIN rows : rows'[i] \in R
      <4> HIDE DEF p
      <4> QED BY <1>4, <1>5, <2>3, <3>1
    <3>3. DOMAIN rows' = 1..Len(rows) /\ Len(rows) \in Nat /\ rows' = [i \in 1..Len(rows) |-> rows'[i]]
      BY <2>3, Facts
    <3>4. rows' \in Seq(R)
      BY <3>2, <3>3, Facts
    <3> QED BY <3>3, <3>4, Facts DEF JournalRows, R
  <2> QED BY <1>2, <2>2, <2>3 DEF AnswerWrites
<1>7. mirror' \in [RefundIds -> ProviderStatuses \cup {"none"}]
  BY <1>2, <1>3, Parts DEF AnswerWrites
<1>8. /\ refunded' = Total(rows', "completed") /\ reserved' = Total(rows', "pending")
      /\ calls' \subseteq calls /\ UNCHANGED <<old, prov, snap>>
  BY AnswerEffect DEF Answer, recon
<1>9. calls' \subseteq CallsOf(DOMAIN rows', DOMAIN prov')
  BY <1>6, <1>8, Parts, CallsGrow
<1> QED BY <1>6, <1>7, <1>8, <1>9, Parts, Assembled

LEMMA WellFormedStep ==
  ASSUME WellFormed, Asked, LinkedOnce, Truthful, Next
  PROVE  WellFormed'
<1>1. ASSUME NEW a \in Amounts, Reserve(a)
      PROVE  WellFormed'
  <2> DEFINE row == NewRow("apipay", "pending", a, 0)
             call == [row |-> Len(rows) + 1, id |-> 0, status |-> "pending"]
  <2>1. /\ rows' = Append(rows, row) /\ calls' = calls \cup {call}
        /\ refunded' = Total(rows', "completed") /\ reserved' = Total(rows', "pending")
        /\ UNCHANGED <<old, prov, mirror, snap>>
    BY <1>1 DEF Reserve, Write, recon
  <2>2. row \in RefundRows({"apipay", "cash"}, DOMAIN prov \cup {0})
    BY JournalAssumption DEF NewRow, RefundRows, RefundStatuses
  <2>3. /\ rows' \in JournalRows(DOMAIN prov) /\ DOMAIN rows \subseteq DOMAIN rows'
        /\ Len(rows) + 1 \in DOMAIN rows'
    <3> HIDE DEF row
    <3> QED BY <2>1, <2>2, Parts, RowsGrow
  <2>4. call \in CallsOf(DOMAIN rows', DOMAIN prov)
    BY <2>3 DEF CallsOf, ProviderStatuses
  <2>5. calls \subseteq CallsOf(DOMAIN rows', DOMAIN prov)
    BY <2>3, Parts, CallsGrow
  <2> HIDE DEF call, row
  <2> QED BY <2>1, <2>3, <2>4, <2>5, Parts, Assembled
<1>2. ASSUME NEW a \in Amounts, PayCash(a)
      PROVE  WellFormed'
  <2> DEFINE row == NewRow("cash", "completed", a, 0)
  <2>1. /\ rows' = Append(rows, row)
        /\ refunded' = Total(rows', "completed") /\ reserved' = Total(rows', "pending")
        /\ UNCHANGED <<calls, old, prov, mirror, snap>>
    BY <1>2 DEF PayCash, CashRefund, Write, recon
  <2>2. row \in RefundRows({"apipay", "cash"}, DOMAIN prov \cup {0})
    BY JournalAssumption DEF NewRow, RefundRows, RefundStatuses
  <2> HIDE DEF row
  <2>3. rows' \in JournalRows(DOMAIN prov) /\ DOMAIN rows \subseteq DOMAIN rows'
    BY <2>1, <2>2, Parts, RowsGrow
  <2>4. calls \subseteq CallsOf(DOMAIN rows', DOMAIN prov)
    BY <2>3, Parts, CallsGrow
  <2> QED BY <2>1, <2>3, <2>4, Parts, Assembled
<1>3. ASSUME NEW a \in Nat, NEW status \in ProviderStatuses, NEW origin \in Nat,
             Created(a, status, origin), UNCHANGED <<journal, old, mirror, recon>>,
             calls' \subseteq CallsOf(DOMAIN rows, DOMAIN prov')
      PROVE  WellFormed'
  <2>1. prov' \in Prov /\ DOMAIN prov \subseteq DOMAIN prov'
    BY <1>3, Parts, RefundsGrow
  <2>2. rows \in JournalRows(DOMAIN prov')
    BY <2>1, Parts, LinksGrow
  <2> QED BY <1>3, <2>1, <2>2, Parts, Assembled DEF journal, recon
<1>4. ASSUME NEW a \in Amounts, DashboardRefund(a)
      PROVE  WellFormed'
  <2>1. a \in Nat /\ "pending" \in ProviderStatuses /\ 0 \in Nat
    BY JournalAssumption DEF ProviderStatuses
  <2>2. Created(a, "pending", 0) /\ UNCHANGED <<journal, calls, old, mirror, recon>>
    BY <1>4 DEF DashboardRefund
  <2>3. DOMAIN prov \subseteq DOMAIN prov'
    BY <2>1, <2>2, Parts, RefundsGrow
  <2>4. calls' \subseteq CallsOf(DOMAIN rows, DOMAIN prov')
    BY <2>2, <2>3, Parts, CallsGrow
  <2> QED BY <1>3, <2>1, <2>2, <2>4
<1>5. ASSUME NEW c \in calls, NEW status \in {"pending", "completed"}, PostAccepted(c, status)
      PROVE  WellFormed'
  <2> DEFINE call == [c EXCEPT !.id = Len(prov) + 1, !.status = status]
  <2>1. /\ Created(rows[c.row].amount, status, c.row)
        /\ calls' \subseteq calls \cup {call} /\ UNCHANGED <<journal, old, mirror, recon>>
    BY <1>5 DEF PostAccepted
  <2>2. rows[c.row].amount \in Nat /\ status \in ProviderStatuses /\ c.row \in Nat /\ c.row \in DOMAIN rows
    BY Facts DEF ProviderStatuses
  <2>3. DOMAIN prov \subseteq DOMAIN prov' /\ Len(prov) + 1 \in DOMAIN prov'
    BY <2>1, <2>2, Parts, RefundsGrow
  <2>4. calls \subseteq CallsOf(DOMAIN rows, DOMAIN prov')
    BY <2>3, Parts, CallsGrow
  <2>5. call \in CallsOf(DOMAIN rows, DOMAIN prov')
    <3>1. c \in CallsOf(DOMAIN rows, DOMAIN prov')
      BY <2>4
    <3>2. [c EXCEPT !.id = Len(prov) + 1] \in CallsOf(DOMAIN rows, DOMAIN prov')
      BY <2>3, <3>1 DEF CallsOf
    <3>3. [[c EXCEPT !.id = Len(prov) + 1] EXCEPT !.status = status] \in CallsOf(DOMAIN rows, DOMAIN prov')
      BY <2>2, <3>2 DEF CallsOf
    <3>4. call = [[c EXCEPT !.id = Len(prov) + 1] EXCEPT !.status = status]
      OBVIOUS
    <3> QED BY <3>3, <3>4
  <2> HIDE DEF call
  <2> QED BY <1>3, <2>1, <2>2, <2>4, <2>5
<1>6. ASSUME NEW c \in calls, PostRefused(c)
      PROVE  WellFormed'
  <2>1. /\ rows' = [rows EXCEPT ![c.row].status = "failed"] /\ calls' \subseteq calls
        /\ refunded' = Total(rows', "completed") /\ reserved' = Total(rows', "pending")
        /\ UNCHANGED <<old, prov, mirror, snap>>
    BY <1>6 DEF PostRefused, Write, Settled, recon
  <2>2. c.row \in DOMAIN rows
    BY Facts
  <2>3. [rows[c.row] EXCEPT !.status = "failed"] \in RefundRows({"apipay", "cash"}, DOMAIN prov \cup {0})
    BY <2>2, Facts DEF RefundRows, RefundStatuses
  <2>4. rows' = [rows EXCEPT ![c.row] = [rows[c.row] EXCEPT !.status = "failed"]]
    BY <2>1, <2>2
  <2>5. rows' \in JournalRows(DOMAIN prov) /\ DOMAIN rows' = DOMAIN rows
    BY <2>2, <2>3, <2>4, Parts, RowSet
  <2> QED BY <2>1, <2>5, Parts, Assembled
<1>7. ASSUME NEW c \in calls, PostUnknown(c)
      PROVE  WellFormed'
  BY <1>7, Parts, Assembled DEF PostUnknown, journal, recon
<1>8. ASSUME NEW c \in calls, Answer(c)
      PROVE  WellFormed'
  BY <1>8, AnswerWellFormed
<1>9. ASSUME NEW p \in RefundIds, NEW status \in ProviderStatuses, Webhook(p, status)
      PROVE  WellFormed'
  <2>1. /\ p \in DOMAIN prov /\ PairStillFree(p, 0) /\ Apply(p, status, 0, TRUE)
        /\ UNCHANGED <<calls, old, prov, snap>>
    BY <1>9 DEF Webhook, Applies, recon
  <2> QED BY <2>1, ApplyWellFormed
<1>10. ASSUME NEW p \in RefundIds, NEW status \in ProviderStatuses, ProviderDecides(p, status)
       PROVE  WellFormed'
  <2>1. /\ p \in DOMAIN prov /\ prov' = [prov EXCEPT ![p].status = status]
        /\ UNCHANGED <<journal, calls, old, mirror, snap>>
    BY <1>10 DEF ProviderDecides, recon
  <2>2. prov' \in Prov /\ DOMAIN prov' = DOMAIN prov
    <3>1. [prov[p] EXCEPT !.status = status] \in [amount : Nat, status : ProviderStatuses, origin : Nat]
      BY <2>1, Facts
    <3>2. prov' = [prov EXCEPT ![p] = [prov[p] EXCEPT !.status = status]]
      BY <2>1
    <3>3. prov \in Prov
      BY Parts
    <3> HIDE DEF ProviderStatuses
    <3> QED BY <2>1, <3>1, <3>2, <3>3 DEF Prov
  <2> QED BY <2>1, <2>2, Parts, Assembled DEF journal
<1>11. ASSUME NEW p \in RefundIds, ApplySnapshot(p)
       PROVE  WellFormed'
  <2> DEFINE given == IF p \in DOMAIN match THEN match[p] ELSE 0
  <2>1. /\ p \in DOMAIN snap /\ DOMAIN snap' \subseteq DOMAIN snap /\ UNCHANGED <<calls, old, prov>>
        /\ \/ PairStillFree(p, given) /\ Apply(p, snap[p], given, FALSE)
           \/ UNCHANGED <<journal, mirror>>
    BY <1>11 DEF ApplySnapshot, Applies
  <2>2. p \in DOMAIN prov /\ snap[p] \in ProviderStatuses
    BY <2>1, Facts DEF WellFormed, Truthful, ProviderStatuses
  <2>3. CASE PairStillFree(p, given) /\ Apply(p, snap[p], given, FALSE)
    <3> HIDE DEF given
    <3> QED BY <2>1, <2>2, <2>3, ApplyWellFormed
  <2>4. CASE UNCHANGED <<journal, mirror>>
    BY <2>1, <2>4, Parts, Assembled DEF journal
  <2> QED BY <2>1, <2>3, <2>4
<1>12. CASE ReadSnapshot \/ ReconcilerDies
  <2>1. UNCHANGED <<journal, calls, old, prov, mirror>> /\ DOMAIN snap' \subseteq DOMAIN prov
    BY <1>12 DEF ReadSnapshot, ReconcilerDies, Nothing
  <2> QED BY <2>1, Parts, Assembled DEF journal
<1>13. CASE Release
  <2>1. UNCHANGED <<calls, old, prov, mirror, snap>>
    BY <1>13 DEF Release
  <2>2. CASE UNCHANGED journal
    BY <2>1, <2>2, Parts, Assembled DEF journal
  <2>3. CASE Write([i \in DOMAIN rows |->
                 IF i \in Orphans THEN [rows[i] EXCEPT !.status = "failed"] ELSE rows[i]])
    <3> DEFINE R == RefundRows({"apipay", "cash"}, DOMAIN prov \cup {0})
    <3>1. \A i \in DOMAIN rows : rows[i] \in R /\ [rows[i] EXCEPT !.status = "failed"] \in R
      BY Facts DEF RefundRows, RefundStatuses
    <3> HIDE DEF R
    <3>2. /\ rows' = [i \in DOMAIN rows |->
                 IF i \in Orphans THEN [rows[i] EXCEPT !.status = "failed"] ELSE rows[i]]
          /\ refunded' = Total(rows', "completed") /\ reserved' = Total(rows', "pending")
      BY <2>3 DEF Write
    <3>3. DOMAIN rows' = 1..Len(rows) /\ Len(rows) \in Nat /\ \A i \in 1..Len(rows) : rows'[i] \in R
      BY <3>1, <3>2, Facts
    <3>4. rows' = [i \in 1..Len(rows) |-> rows'[i]]
      BY <3>2, <3>3
    <3>5. rows' \in Seq(R) /\ DOMAIN rows' = DOMAIN rows
      BY <3>3, <3>4, Facts
    <3> QED BY <2>1, <3>2, <3>5, Parts, Assembled DEF JournalRows, R
  <2> QED BY <1>13, <2>2, <2>3 DEF Release
<1>14. ASSUME NEW i \in RowIds, GrowsOld(i)
       PROVE  WellFormed'
  <2>1. i \in DOMAIN rows
    BY <1>14 DEF GrowsOld, Unlinked, Indexes
  <2> QED BY <1>14, <2>1, Parts, Assembled DEF GrowsOld, journal, recon
<1> QED BY <1>1, <1>2, <1>4, <1>5, <1>6, <1>7, <1>8, <1>9, <1>10, <1>11, <1>12, <1>13, <1>14 DEF Next

-----------------------------------------------------------------------------
(* Refunds at the provider are not more than people asked for. *)

LEMMA DashboardFinite ==
  ASSUME WellFormed
  PROVE  IsFiniteSet(Dashboard) /\ Cardinality(Dashboard) \in Nat
<1>1. DOMAIN prov = 1..Len(prov) /\ 1 \in Int /\ Len(prov) \in Int
  BY Facts
<1>2. IsFiniteSet(DOMAIN prov)
  BY <1>1, FS_Interval
<1>3. Dashboard \subseteq DOMAIN prov
  BY DEF Dashboard
<1>4. IsFiniteSet(Dashboard)
  BY <1>2, <1>3, FS_Subset
<1> QED BY <1>4, FS_CardinalityType

LEMMA FewerAsked ==
  ASSUME WellFormed, Asked, WellFormed', DOMAIN rows \subseteq DOMAIN rows',
         Len(prov') = Len(prov), Dashboard' = Dashboard, Unposted' \subseteq Unposted,
         calls' \subseteq calls
  PROVE  Asked'
<1>1. IsFiniteSet(Unposted) /\ IsFiniteSet(calls')
  BY FS_Subset DEF Asked, Unposted
<1>2. /\ Cardinality(Unposted) \in Nat /\ Cardinality(Unposted') \in Nat
      /\ Cardinality(Unposted') <= Cardinality(Unposted)
  BY <1>1, FS_Subset, FS_CardinalityType
<1>3. /\ Len(rows) \in Nat /\ DOMAIN rows = 1..Len(rows)
      /\ Len(rows') \in Nat /\ DOMAIN rows' = 1..Len(rows')
      /\ Len(prov) \in Nat
  <2>1. Len(rows') \in Nat /\ DOMAIN rows' = 1..Len(rows')
    BY DEF WellFormed
  <2> QED BY <2>1, Facts
<1>4. Len(rows) <= Len(rows')
  BY <1>3
<1>5. Cardinality(Dashboard) \in Nat
  BY DashboardFinite
<1> QED BY <1>1, <1>2, <1>3, <1>4, <1>5, JournalAssumption DEF Asked

LEMMA RowsKept ==
  ASSUME WellFormed, Asked, LinkedOnce, Next
  PROVE  DOMAIN rows \subseteq DOMAIN rows'
<1>1. \A r : DOMAIN rows \subseteq DOMAIN Append(rows, r)
  BY Facts DEF JournalRows
<1>2. \A i, r : DOMAIN [rows EXCEPT ![i] = r] = DOMAIN rows
  OBVIOUS
<1>3. ASSUME NEW p \in DOMAIN prov, NEW told, NEW given, NEW auto,
             PairStillFree(p, given), Apply(p, told, given, auto)
      PROVE  DOMAIN rows \subseteq DOMAIN rows'
  <2>1. \/ rows' = rows
        \/ \E r : rows' = Append(rows, r)
        \/ \E i \in DOMAIN rows : \E r : rows' = [rows EXCEPT ![i] = r]
    BY <1>3, ApplyEffect
  <2> QED BY <1>1, <1>2, <2>1
<1>4. ASSUME NEW a \in Amounts, Reserve(a) \/ PayCash(a) \/ DashboardRefund(a)
      PROVE  DOMAIN rows \subseteq DOMAIN rows'
  BY <1>1, <1>4 DEF Reserve, PayCash, CashRefund, DashboardRefund, Write, journal
<1>5. ASSUME NEW c \in calls, NEW status, PostAccepted(c, status) \/ PostUnknown(c)
      PROVE  DOMAIN rows \subseteq DOMAIN rows'
  BY <1>5 DEF PostAccepted, PostUnknown, journal
<1>6. ASSUME NEW c \in calls, PostRefused(c)
      PROVE  DOMAIN rows \subseteq DOMAIN rows'
  BY <1>6 DEF PostRefused, Write, Settled
<1>7. ASSUME NEW c \in calls, Answer(c)
      PROVE  DOMAIN rows \subseteq DOMAIN rows'
  BY <1>7 DEF Answer, Write
<1>8. ASSUME NEW p \in RefundIds, NEW status \in ProviderStatuses, Webhook(p, status)
      PROVE  DOMAIN rows \subseteq DOMAIN rows'
  BY <1>3, <1>8 DEF Webhook, Applies
<1>9. ASSUME NEW p \in RefundIds, ApplySnapshot(p)
      PROVE  DOMAIN rows \subseteq DOMAIN rows'
  <2>1. p \in DOMAIN prov
    BY <1>9 DEF ApplySnapshot, WellFormed
  <2> QED BY <1>3, <1>9, <2>1 DEF ApplySnapshot, Applies, journal
<1>10. ASSUME NEW p \in RefundIds, NEW status \in ProviderStatuses, ProviderDecides(p, status)
      PROVE  DOMAIN rows \subseteq DOMAIN rows'
  BY <1>10 DEF ProviderDecides, journal
<1>11. CASE ReadSnapshot \/ Release \/ ReconcilerDies
  BY <1>11 DEF ReadSnapshot, Release, ReconcilerDies, Write, journal
<1>12. ASSUME NEW i \in RowIds, GrowsOld(i)
      PROVE  DOMAIN rows \subseteq DOMAIN rows'
  BY <1>12 DEF GrowsOld, journal
<1> QED BY <1>4, <1>5, <1>6, <1>7, <1>8, <1>9, <1>10, <1>11, <1>12 DEF Next

LEMMA AskedStep ==
  ASSUME WellFormed, Asked, LinkedOnce, Truthful, Next
  PROVE  Asked'
<1> USE WellFormedStep, RowsKept, Facts
<1>1. IsFiniteSet(Unposted) /\ Cardinality(Unposted) \in Nat /\ IsFiniteSet(calls)
  BY FS_Subset, FS_CardinalityType DEF Asked, Unposted
<1>2. IsFiniteSet(Dashboard) /\ Cardinality(Dashboard) \in Nat
  BY DashboardFinite
<1>3. ASSUME NEW a \in Amounts, Reserve(a)
      PROVE  Asked'
  <2> DEFINE call == [row |-> Len(rows) + 1, id |-> 0, status |-> "pending"]
  <2>1. /\ calls' = calls \cup {call} /\ prov' = prov /\ MayAsk
        /\ Len(rows') = Len(rows) + 1
    BY <1>3 DEF Reserve, Write, JournalRows
  <2>2. Unposted' = Unposted \cup {call} /\ call \notin calls
    BY <2>1 DEF Unposted
  <2>3. /\ IsFiniteSet(calls') /\ Cardinality(Unposted') = Cardinality(Unposted) + 1
        /\ Dashboard' = Dashboard
    <3>1. call \notin Unposted
      BY <2>2 DEF Unposted
    <3> HIDE DEF call
    <3> QED BY <1>1, <2>1, <2>2, <3>1, FS_AddElement DEF Dashboard
  <2> QED BY <1>1, <1>2, <2>1, <2>3, JournalAssumption DEF Asked, MayAsk
<1>4. ASSUME NEW a \in Amounts, PayCash(a)
      PROVE  Asked'
  BY <1>4, FewerAsked DEF PayCash, Unposted, Dashboard
<1>5. ASSUME NEW a \in Amounts, DashboardRefund(a)
      PROVE  Asked'
  <2> DEFINE q == Len(prov) + 1
  <2>1. /\ a \in Nat /\ calls' = calls /\ rows' = rows /\ MayAsk /\ Created(a, "pending", 0)
    BY <1>5, JournalAssumption DEF DashboardRefund, journal
  <2>2. /\ Len(prov') = Len(prov) + 1 /\ DOMAIN prov' = DOMAIN prov \cup {q} /\ q \notin DOMAIN prov
        /\ \A p \in DOMAIN prov : prov'[p] = prov[p]
        /\ prov'[q].origin = 0
    <3>1. prov \in Prov /\ "pending" \in ProviderStatuses /\ 0 \in Nat
      BY Parts DEF ProviderStatuses
    <3> QED BY <2>1, <3>1, RefundsGrow
  <2>3. Dashboard' = Dashboard \cup {q} /\ q \notin Dashboard /\ Unposted' = Unposted
    BY <2>1, <2>2 DEF Dashboard, Unposted
  <2>4. Cardinality(Dashboard') = Cardinality(Dashboard) + 1
    <3> HIDE DEF q
    <3> QED BY <1>2, <2>3, FS_AddElement
  <2> QED BY <1>1, <1>2, <2>1, <2>2, <2>3, <2>4, JournalAssumption DEF Asked, MayAsk
<1>6. ASSUME NEW c \in calls, NEW status \in {"pending", "completed"}, PostAccepted(c, status)
      PROVE  Asked'
  <2> DEFINE q == Len(prov) + 1
             call == [c EXCEPT !.id = Len(prov) + 1, !.status = status]
  <2>1. /\ c.id = 0 /\ rows' = rows /\ Created(rows[c.row].amount, status, c.row)
        /\ calls' = (calls \ {c}) \cup {call} \/ calls' = calls \ {c}
    BY <1>6 DEF PostAccepted, journal
  <2>2. c.row \in DOMAIN rows /\ c.row \in Nat /\ c.row # 0 /\ rows[c.row].amount \in Nat
        /\ status \in ProviderStatuses
    BY DEF ProviderStatuses
  <2>3. /\ Len(prov') = Len(prov) + 1 /\ DOMAIN prov' = DOMAIN prov \cup {q} /\ q \notin DOMAIN prov
        /\ \A p \in DOMAIN prov : prov'[p] = prov[p]
        /\ prov'[q].origin = c.row
    <3>1. prov \in Prov
      BY Parts
    <3> QED BY <2>1, <2>2, <3>1, RefundsGrow
  <2>4. Dashboard' = Dashboard
    BY <2>2, <2>3 DEF Dashboard
  <2>5. call.id # 0
    BY DEF CallsOf
  <2>6. Unposted' = Unposted \ {c} /\ c \in Unposted
    <3> HIDE DEF call
    <3> QED BY <2>1, <2>5 DEF Unposted
  <2>7. Cardinality(Unposted') = Cardinality(Unposted) - 1
    BY <1>1, <2>6, FS_RemoveElement
  <2>8. IsFiniteSet(calls')
    <3>1. IsFiniteSet(calls \ {c})
      BY <1>1, FS_RemoveElement
    <3>2. IsFiniteSet((calls \ {c}) \cup {call})
      BY <3>1, FS_AddElement
    <3> QED BY <2>1, <3>1, <3>2
  <2> QED BY <1>1, <1>2, <2>1, <2>3, <2>4, <2>7, <2>8, JournalAssumption DEF Asked
<1>7. ASSUME NEW c \in calls, PostRefused(c) \/ PostUnknown(c) \/ Answer(c)
      PROVE  Asked'
  <2>1. calls' \subseteq calls /\ prov' = prov
    BY <1>7 DEF PostRefused, PostUnknown, Answer
  <2> QED BY <2>1, FewerAsked DEF Unposted, Dashboard
<1>8. ASSUME NEW p \in RefundIds, NEW status \in ProviderStatuses, Webhook(p, status)
      PROVE  Asked'
  BY <1>8, FewerAsked DEF Webhook, Unposted, Dashboard
<1>9. ASSUME NEW p \in RefundIds, NEW status \in ProviderStatuses, ProviderDecides(p, status)
      PROVE  Asked'
  <2>1. /\ calls' = calls /\ Len(prov') = Len(prov)
        /\ DOMAIN prov' = DOMAIN prov /\ \A q \in DOMAIN prov : prov'[q].origin = prov[q].origin
    BY <1>9 DEF ProviderDecides
  <2>2. Dashboard' = Dashboard
    BY <2>1 DEF Dashboard
  <2> QED BY <2>1, <2>2, FewerAsked DEF Unposted
<1>10. ASSUME NEW p \in RefundIds, ApplySnapshot(p)
      PROVE  Asked'
  BY <1>10, FewerAsked DEF ApplySnapshot, Unposted, Dashboard
<1>11. CASE ReadSnapshot \/ Release \/ ReconcilerDies
  BY <1>11, FewerAsked DEF ReadSnapshot, Release, ReconcilerDies, Unposted, Dashboard
<1>12. ASSUME NEW i \in RowIds, GrowsOld(i)
      PROVE  Asked'
  BY <1>12, FewerAsked DEF GrowsOld, Unposted, Dashboard
<1> QED BY <1>3, <1>4, <1>5, <1>6, <1>7, <1>8, <1>9, <1>10, <1>11, <1>12 DEF Next

-----------------------------------------------------------------------------
(* One row for a refund, and no final status but the provider's. *)

RowsTrue == LinkedOnce /\ Truthful /\ MethodsKept

\* Rows that keep their link and method, and are not completed anew.
LEMMA RowsTrueKept ==
  ASSUME WellFormed, RowsTrue, DOMAIN rows' = DOMAIN rows,
         \A i \in DOMAIN rows : /\ rows'[i].link = rows[i].link
                                /\ rows'[i].method = rows[i].method
                                /\ \/ rows'[i].status = rows[i].status
                                   \/ rows'[i].status = "failed" /\ rows[i].method = "apipay",
         UNCHANGED <<prov, mirror>>, calls' \subseteq calls,
         snap' = snap \/ snap' = Nothing
  PROVE  RowsTrue'
<1>1. LinkedOnce'
  BY DEF RowsTrue, LinkedOnce
<1>2. MethodsKept'
  BY Facts DEF RowsTrue, MethodsKept
<1>3. CompletedIsTrue'
  BY DEF RowsTrue, Truthful, CompletedIsTrue
<1>4. \A p \in DOMAIN snap' : p \in DOMAIN snap /\ snap'[p] = snap[p]
  BY DEF Nothing
<1>5. Truthful'
  BY <1>3, <1>4 DEF RowsTrue, Truthful
<1> QED BY <1>1, <1>2, <1>5 DEF RowsTrue

LEMMA ApplyRowsTrue ==
  ASSUME WellFormed, Asked, RowsTrue, NEW p \in DOMAIN prov,
         NEW told \in {"pending", prov[p].status}, NEW given, NEW auto,
         PairStillFree(p, given), Apply(p, told, given, auto), UNCHANGED <<calls, prov>>,
         \A q \in DOMAIN snap' : q \in DOMAIN snap /\ snap'[q] = snap[q]
  PROVE  RowsTrue'
<1> DEFINE status == EffectiveStatus(p, told)
           row == NewRow("apipay", status, prov[p].amount, p)
<1>1. status # "pending" => status = prov[p].status
  BY InMirror DEF EffectiveStatus, RowsTrue, Truthful
<1>2. status \in ProviderStatuses /\ p # 0
  BY RowOfApply, Facts DEF ProviderStatuses
<1>3. row.link = p /\ row.method = "apipay" /\ row.status = status
  BY DEF NewRow
<1>4. mirror' = [mirror EXCEPT ![p] = status]
  BY ApplyEffect DEF RowsTrue
<1>5. \A q \in RefundIds :
        mirror'[q] # "none" => q \in DOMAIN prov /\ mirror'[q] \in {"pending", prov[q].status}
  <2> HIDE DEF status
  <2> QED BY <1>1, <1>2, <1>4, Parts, InMirror DEF RowsTrue, Truthful
<1>6. \/ rows' = rows
      \/ rows' = Append(rows, row) /\ Linked(rows, p) = {}
      \/ \E i \in DOMAIN rows : /\ rows' = [rows EXCEPT ![i] = row]
                                /\ rows[i].link = p \/ Linked(rows, p) = {}
  BY ApplyEffect DEF RowsTrue
<1> HIDE DEF row, status
<1>7. ASSUME rows' = rows
      PROVE  LinkedOnce' /\ MethodsKept' /\ CompletedIsTrue'
  BY <1>7 DEF RowsTrue, Truthful, LinkedOnce, MethodsKept, CompletedIsTrue
<1>8. ASSUME rows' = Append(rows, row), Linked(rows, p) = {}
      PROVE  LinkedOnce' /\ MethodsKept' /\ CompletedIsTrue'
  <2> DEFINE n == Len(rows) + 1
  <2>1. /\ DOMAIN rows' = DOMAIN rows \cup {n} /\ n \notin DOMAIN rows /\ rows'[n] = row
        /\ \A i \in DOMAIN rows : rows'[i] = rows[i]
    <3>1. rows \in JournalRows(DOMAIN prov)
      BY Parts
    <3> QED BY <1>8, <3>1 DEF JournalRows
  <2> HIDE DEF n
  <2>2. \A i \in DOMAIN rows : rows[i].link # p
    BY <1>8 DEF Linked
  <2>3. LinkedOnce'
    BY <1>3, <2>1, <2>2 DEF RowsTrue, LinkedOnce
  <2>4. MethodsKept'
    BY <1>3, <2>1, Facts DEF RowsTrue, MethodsKept
  <2>5. CompletedIsTrue'
    BY <1>1, <1>2, <1>3, <2>1 DEF RowsTrue, Truthful, CompletedIsTrue
  <2> QED BY <2>3, <2>4, <2>5
<1>9. ASSUME NEW i \in DOMAIN rows, rows' = [rows EXCEPT ![i] = row],
             rows[i].link = p \/ Linked(rows, p) = {}
      PROVE  LinkedOnce' /\ MethodsKept' /\ CompletedIsTrue'
  <2>1. DOMAIN rows' = DOMAIN rows /\ rows'[i] = row /\ \A j \in DOMAIN rows \ {i} : rows'[j] = rows[j]
    BY <1>9
  <2>2. \A j \in DOMAIN rows \ {i} : rows[j].link # p
    BY <1>2, <1>9 DEF Linked, RowsTrue, LinkedOnce
  <2>3. LinkedOnce'
    BY <1>3, <2>1, <2>2 DEF RowsTrue, LinkedOnce
  <2>4. MethodsKept'
    <3>1. \A j \in DOMAIN rows' : rows'[j].method = "cash" => j # i /\ rows'[j] = rows[j]
      BY <1>3, <2>1
    <3>2. \A d \in calls : d.row \in DOMAIN rows /\ rows'[d.row].method = "apipay"
      BY <1>3, <2>1, Facts DEF RowsTrue, MethodsKept
    <3> QED BY <2>1, <3>1, <3>2 DEF RowsTrue, MethodsKept
  <2>5. CompletedIsTrue'
    BY <1>1, <1>2, <1>3, <2>1 DEF RowsTrue, Truthful, CompletedIsTrue
  <2> QED BY <2>3, <2>4, <2>5
<1>10. LinkedOnce' /\ MethodsKept' /\ CompletedIsTrue'
  BY <1>6, <1>7, <1>8, <1>9
<1>11. Truthful'
  BY <1>5, <1>10 DEF RowsTrue, Truthful
<1> QED BY <1>10, <1>11 DEF RowsTrue

LEMMA AnswerRowsTrue ==
  ASSUME WellFormed, Asked, RowsTrue, NEW c \in calls, Answer(c)
  PROVE  RowsTrue'
<1> DEFINE p == c.id
<1>1. p \in DOMAIN prov /\ p # 0 /\ c.row \in DOMAIN rows /\ c.status \in {"pending", prov[p].status}
  <2>1. p \in DOMAIN prov
    BY AnswerEffect DEF RowsTrue
  <2> QED BY <2>1, Facts DEF RowsTrue, Truthful
<1>2. PICK status : AnswerWrites(c, status)
  BY AnswerEffect DEF RowsTrue
<1>3. status \in {"pending", prov[p].status}
  BY <1>1, <1>2, InMirror DEF AnswerWrites, RowsTrue, Truthful
<1>4. UNCHANGED <<prov, snap>> /\ calls' \subseteq calls
  BY DEF Answer, recon
<1>5. \A q \in RefundIds :
        mirror'[q] # "none" => q \in DOMAIN prov /\ mirror'[q] \in {"pending", prov[q].status}
  BY <1>1, <1>2, <1>3, Parts, InMirror DEF RowsTrue, Truthful, AnswerWrites
<1>6. rows[c.row].method = "apipay"
  BY DEF RowsTrue, MethodsKept
<1>7. ASSUME NEW i \in DOMAIN rows
      PROVE  LET r == NewRow(rows[i].method, status, prov[p].amount, p) IN
             r.link = p /\ r.method = rows[i].method /\ r.status = status
  BY DEF NewRow
<1>8. ASSUME Linked(rows, p) \subseteq {c.row},
             rows' = [rows EXCEPT ![c.row] = NewRow(rows[c.row].method, status, prov[p].amount, p)]
      PROVE  LinkedOnce' /\ MethodsKept' /\ CompletedIsTrue'
  <2>1. /\ DOMAIN rows' = DOMAIN rows /\ \A j \in DOMAIN rows \ {c.row} : rows'[j] = rows[j]
        /\ rows'[c.row].link = p /\ rows'[c.row].method = "apipay" /\ rows'[c.row].status = status
    BY <1>1, <1>6, <1>7, <1>8
  <2>2. \A j \in DOMAIN rows \ {c.row} : rows[j].link # p
    BY <1>8 DEF Linked
  <2> HIDE DEF p
  <2>3. LinkedOnce'
    BY <2>1, <2>2 DEF RowsTrue, LinkedOnce
  <2>4. MethodsKept'
    BY <1>4, <2>1, Facts DEF RowsTrue, MethodsKept
  <2>5. CompletedIsTrue'
    BY <1>1, <1>3, <1>4, <2>1 DEF RowsTrue, Truthful, CompletedIsTrue
  <2> QED BY <2>3, <2>4, <2>5
<1>9. ASSUME NEW j \in DOMAIN rows, j # c.row, rows[j].link = p,
             rows' = [i \in DOMAIN rows |->
                        IF i = c.row THEN [rows[i] EXCEPT !.status = "failed"]
                        ELSE IF i = j THEN NewRow(rows[j].method, status, prov[p].amount, p)
                        ELSE rows[i]]
      PROVE  LinkedOnce' /\ MethodsKept' /\ CompletedIsTrue'
  <2>1. rows'[c.row] = [rows[c.row] EXCEPT !.status = "failed"]
    BY <1>1, <1>9
  <2>2. /\ rows'[c.row].link = rows[c.row].link /\ rows'[c.row].method = "apipay"
        /\ rows'[c.row].status = "failed"
    BY <1>1, <1>6, <2>1, Facts DEF RefundRows
  <2>3. /\ DOMAIN rows' = DOMAIN rows /\ \A i \in DOMAIN rows \ {c.row, j} : rows'[i] = rows[i]
        /\ rows'[j] = NewRow(rows[j].method, status, prov[p].amount, p)
    BY <1>9
  <2>4. /\ rows'[j].link = rows[j].link /\ rows'[j].method = rows[j].method
        /\ rows'[j].status = status /\ rows[j].method = "apipay"
    BY <1>1, <1>7, <1>9, <2>3, Facts DEF RowsTrue, MethodsKept
  <2> HIDE DEF p
  <2>5. LinkedOnce'
    BY <2>2, <2>3, <2>4 DEF RowsTrue, LinkedOnce
  <2>6. MethodsKept'
    <3>1. \A i \in DOMAIN rows' : rows'[i].method = "cash" => i \notin {c.row, j} /\ rows'[i] = rows[i]
      BY <2>2, <2>3, <2>4
    <3>2. \A d \in calls : d.row \in DOMAIN rows /\ rows'[d.row].method = "apipay"
      BY <2>2, <2>3, <2>4, Facts DEF RowsTrue, MethodsKept
    <3> QED BY <1>4, <2>3, <3>1, <3>2 DEF RowsTrue, MethodsKept
  <2>7. CompletedIsTrue'
    BY <1>1, <1>3, <1>4, <1>9, <2>2, <2>3, <2>4 DEF RowsTrue, Truthful, CompletedIsTrue
  <2> QED BY <2>5, <2>6, <2>7
<1>10. LinkedOnce' /\ MethodsKept' /\ CompletedIsTrue'
  <2>1. \/ /\ Linked(rows, p) \subseteq {c.row}
           /\ rows' = [rows EXCEPT ![c.row] = NewRow(rows[c.row].method, status, prov[p].amount, p)]
        \/ \E j \in DOMAIN rows :
             /\ j # c.row /\ rows[j].link = p
             /\ rows' = [i \in DOMAIN rows |->
                          IF i = c.row THEN [rows[i] EXCEPT !.status = "failed"]
                          ELSE IF i = j THEN NewRow(rows[j].method, status, prov[p].amount, p)
                          ELSE rows[i]]
    BY <1>2 DEF AnswerWrites
  <2> HIDE DEF p
  <2> QED BY <1>8, <1>9, <2>1
<1>11. Truthful'
  BY <1>4, <1>5, <1>10 DEF RowsTrue, Truthful
<1> QED BY <1>10, <1>11 DEF RowsTrue

LEMMA RowsTrueStep ==
  ASSUME WellFormed, Asked, RowsTrue, Next
  PROVE  RowsTrue'
<1>1. ASSUME NEW r, rows' = Append(rows, r), r.link = 0,
             \/ r.method = "apipay" /\ r.status = "pending"
             \/ r.method = "cash" /\ r.status = "completed",
             UNCHANGED <<prov, mirror, snap>>,
             \A c \in calls' : c \in calls \/ (c.row = Len(rows) + 1 /\ r.method = "apipay"
                                                 /\ c.id = 0 /\ c.status = "pending")
      PROVE  RowsTrue'
  <2> DEFINE n == Len(rows) + 1
  <2>1. /\ DOMAIN rows' = DOMAIN rows \cup {n} /\ n \notin DOMAIN rows /\ rows'[n] = r
        /\ \A i \in DOMAIN rows : rows'[i] = rows[i]
    <3>1. rows \in JournalRows(DOMAIN prov)
      BY Parts
    <3> QED BY <1>1, <3>1 DEF JournalRows
  <2> HIDE DEF n
  <2>2. LinkedOnce'
    BY <1>1, <2>1 DEF RowsTrue, LinkedOnce
  <2>3. MethodsKept'
    <3>1. \A i \in DOMAIN rows' : rows'[i].method = "cash" => rows'[i].link = 0 /\ rows'[i].status = "completed"
      BY <1>1, <2>1 DEF RowsTrue, MethodsKept
    <3>2. \A c \in calls' : rows'[c.row].method = "apipay"
      BY <1>1, <2>1, Facts DEF RowsTrue, MethodsKept, n
    <3> QED BY <3>1, <3>2 DEF MethodsKept
  <2>4. CompletedIsTrue'
    BY <1>1, <2>1 DEF RowsTrue, Truthful, CompletedIsTrue
  <2>5. Truthful'
    BY <1>1, <2>4 DEF RowsTrue, Truthful
  <2> QED BY <2>2, <2>3, <2>5 DEF RowsTrue
<1>2. ASSUME NEW a \in Nat, NEW status \in ProviderStatuses, NEW origin \in Nat,
             Created(a, status, origin), UNCHANGED <<journal, mirror, snap>>,
             \A c \in calls' : \/ c \in calls
                               \/ /\ \E d \in calls : c.row = d.row
                                  /\ c.id = Len(prov) + 1 /\ c.status = status
      PROVE  RowsTrue'
  <2>1. /\ DOMAIN prov' = DOMAIN prov \cup {Len(prov) + 1} /\ Len(prov) + 1 \notin DOMAIN prov
        /\ \A p \in DOMAIN prov : prov'[p] = prov[p]
        /\ prov'[Len(prov) + 1].status = status
        /\ Len(prov) + 1 # 0
    <3>1. prov \in Prov
      BY Parts
    <3>2. prov'[Len(prov) + 1] = [amount |-> a, status |-> status, origin |-> origin]
      BY <1>2, <3>1, RefundsGrow
    <3>3. prov'[Len(prov) + 1].status = status
      BY <3>2
    <3>4. Len(prov) + 1 # 0
      BY Facts
    <3> QED BY <1>2, <3>1, <3>3, <3>4, RefundsGrow
  <2>2. Truthful'
    <3>1. mirror[Len(prov) + 1] = "none" \/ Len(prov) + 1 \notin RefundIds
      BY <2>1 DEF RowsTrue, Truthful
    <3>2. \A q \in RefundIds :
            mirror'[q] # "none" => q \in DOMAIN prov' /\ mirror'[q] \in {"pending", prov'[q].status}
      BY <1>2, <2>1 DEF RowsTrue, Truthful
    <3>3. \A p \in DOMAIN snap' : snap'[p] \in {"pending", prov'[p].status}
      BY <1>2, <2>1, Parts DEF RowsTrue, Truthful
    <3>4. \A c \in calls' : IF c.id = 0 THEN c.status = "pending"
                            ELSE c.status \in {"pending", prov'[c.id].status}
      BY <1>2, <2>1, Facts DEF RowsTrue, Truthful
    <3>5. CompletedIsTrue'
      BY <1>2, <2>1, Facts DEF RowsTrue, Truthful, CompletedIsTrue, journal
    <3> QED BY <3>2, <3>3, <3>4, <3>5 DEF Truthful
  <2>3. LinkedOnce'
    BY <1>2 DEF RowsTrue, LinkedOnce, journal
  <2>4. MethodsKept'
    <3>1. rows' = rows
      BY <1>2 DEF journal
    <3> QED BY <1>2, <3>1 DEF RowsTrue, MethodsKept
  <2> QED BY <2>2, <2>3, <2>4 DEF RowsTrue
<1>3. ASSUME NEW a \in Amounts, Reserve(a)
      PROVE  RowsTrue'
  <2> DEFINE row == NewRow("apipay", "pending", a, 0)
  <2>1. /\ rows' = Append(rows, row) /\ UNCHANGED <<prov, mirror, snap>>
        /\ calls' = calls \cup {[row |-> Len(rows) + 1, id |-> 0, status |-> "pending"]}
    BY <1>3 DEF Reserve, Write, recon
  <2>2. row.link = 0 /\ row.method = "apipay" /\ row.status = "pending"
    BY DEF NewRow
  <2>3. \A c \in calls' : c \in calls \/ (c.row = Len(rows) + 1 /\ row.method = "apipay"
                                               /\ c.id = 0 /\ c.status = "pending")
    BY <2>1, <2>2
  <2> HIDE DEF row
  <2>4. UNCHANGED <<prov, mirror, snap>> /\ rows' = Append(rows, row)
    BY <2>1
  <2> QED BY <1>1, <2>2, <2>3, <2>4
<1>4. ASSUME NEW a \in Amounts, PayCash(a)
      PROVE  RowsTrue'
  <2> DEFINE row == NewRow("cash", "completed", a, 0)
  <2>1. rows' = Append(rows, row) /\ UNCHANGED <<prov, mirror, snap, calls>>
    BY <1>4 DEF PayCash, CashRefund, Write, recon
  <2>2. row.link = 0 /\ row.method = "cash" /\ row.status = "completed"
    BY DEF NewRow
  <2> HIDE DEF row
  <2> QED BY <1>1, <2>1, <2>2
<1>5. ASSUME NEW a \in Amounts, DashboardRefund(a)
      PROVE  RowsTrue'
  <2>1. /\ a \in Nat /\ "pending" \in ProviderStatuses /\ 0 \in Nat
        /\ Created(a, "pending", 0) /\ UNCHANGED <<journal, mirror, snap, calls>>
    BY <1>5, JournalAssumption DEF DashboardRefund, recon, ProviderStatuses
  <2> QED BY <1>2, <2>1
<1>6. ASSUME NEW c \in calls, NEW status \in {"pending", "completed"}, PostAccepted(c, status)
      PROVE  RowsTrue'
  <2> DEFINE call == [c EXCEPT !.id = Len(prov) + 1, !.status = status]
  <2>1. /\ Created(rows[c.row].amount, status, c.row) /\ UNCHANGED <<journal, mirror, snap>>
        /\ calls' \subseteq calls \cup {call}
    BY <1>6 DEF PostAccepted, recon
  <2>2. /\ c.row \in DOMAIN rows /\ c.row \in Nat /\ rows[c.row].amount \in Nat
        /\ status \in ProviderStatuses
    BY Facts DEF ProviderStatuses
  <2>3. call.row = c.row /\ call.id = Len(prov) + 1 /\ call.status = status
    BY Facts DEF CallsOf
  <2> HIDE DEF call
  <2> QED BY <1>2, <2>1, <2>2, <2>3
<1>7. ASSUME NEW c \in calls, PostRefused(c)
      PROVE  RowsTrue'
  <2>1. /\ rows' = [rows EXCEPT ![c.row] = [rows[c.row] EXCEPT !.status = "failed"]]
        /\ calls' \subseteq calls /\ UNCHANGED <<prov, mirror, snap>>
        /\ c.row \in DOMAIN rows /\ rows[c.row].method = "apipay"
    BY <1>7, Facts DEF PostRefused, Write, Settled, recon, RowsTrue, MethodsKept
  <2>2. /\ rows'[c.row].link = rows[c.row].link /\ rows'[c.row].method = rows[c.row].method
        /\ rows'[c.row].status = "failed"
    BY <2>1, Facts DEF RefundRows
  <2>3. DOMAIN rows' = DOMAIN rows /\ \A i \in DOMAIN rows \ {c.row} : rows'[i] = rows[i]
    BY <2>1
  <2> QED BY <2>1, <2>2, <2>3, RowsTrueKept
<1>8. ASSUME NEW c \in calls, PostUnknown(c)
      PROVE  RowsTrue'
  BY <1>8, RowsTrueKept DEF PostUnknown, journal, recon
<1>9. ASSUME NEW c \in calls, Answer(c)
      PROVE  RowsTrue'
  BY <1>9, AnswerRowsTrue
<1>10. ASSUME NEW p \in RefundIds, NEW status \in ProviderStatuses, Webhook(p, status)
      PROVE  RowsTrue'
  <2>1. /\ p \in DOMAIN prov /\ status \in {"pending", prov[p].status}
        /\ PairStillFree(p, 0) /\ Apply(p, status, 0, TRUE) /\ UNCHANGED <<calls, prov, snap>>
    BY <1>10 DEF Webhook, Applies, recon
  <2> QED BY <2>1, ApplyRowsTrue
<1>11. ASSUME NEW p \in RefundIds, ApplySnapshot(p)
      PROVE  RowsTrue'
  <2> DEFINE given == IF p \in DOMAIN match THEN match[p] ELSE 0
  <2>1. /\ p \in DOMAIN snap /\ p \in DOMAIN prov /\ snap[p] \in {"pending", prov[p].status}
        /\ UNCHANGED <<calls, prov>>
        /\ \A q \in DOMAIN snap' : q \in DOMAIN snap /\ snap'[q] = snap[q]
        /\ \/ PairStillFree(p, given) /\ Apply(p, snap[p], given, FALSE)
           \/ UNCHANGED <<journal, mirror>>
    BY <1>11, Parts DEF ApplySnapshot, Applies, RowsTrue, Truthful
  <2>2. CASE PairStillFree(p, given) /\ Apply(p, snap[p], given, FALSE)
    <3> HIDE DEF given
    <3> QED BY <2>1, <2>2, ApplyRowsTrue
  <2>3. CASE UNCHANGED <<journal, mirror>>
    BY <2>1, <2>3 DEF RowsTrue, LinkedOnce, Truthful, CompletedIsTrue, MethodsKept, journal
  <2> QED BY <2>1, <2>2, <2>3
<1>12. ASSUME NEW p \in RefundIds, NEW status \in ProviderStatuses, ProviderDecides(p, status)
      PROVE  RowsTrue'
  <2>1. /\ p \in DOMAIN prov /\ prov[p].status = "pending" /\ UNCHANGED <<journal, calls, mirror, snap>>
        /\ DOMAIN prov' = DOMAIN prov
        /\ \A q \in DOMAIN prov : prov'[q].status = IF q = p THEN status ELSE prov[q].status
    BY <1>12, Facts DEF ProviderDecides, recon
  <2>2. \A q \in RefundIds :
            mirror'[q] # "none" => q \in DOMAIN prov' /\ mirror'[q] \in {"pending", prov'[q].status}
    BY <2>1 DEF RowsTrue, Truthful
  <2>3. \A q \in DOMAIN snap' : snap'[q] \in {"pending", prov'[q].status}
    BY <2>1, Parts DEF RowsTrue, Truthful
  <2>4. \A c \in calls' : IF c.id = 0 THEN c.status = "pending"
                          ELSE c.status \in {"pending", prov'[c.id].status}
    BY <2>1, Facts DEF RowsTrue, Truthful
  <2>5. CompletedIsTrue'
    BY <2>1, Facts DEF RowsTrue, Truthful, CompletedIsTrue, journal
  <2>6. Truthful'
    BY <2>2, <2>3, <2>4, <2>5 DEF Truthful
  <2> QED BY <2>1, <2>6 DEF RowsTrue, LinkedOnce, MethodsKept, journal
<1>13. CASE ReadSnapshot
  <2>1. /\ UNCHANGED <<journal, calls, prov, mirror>> /\ DOMAIN snap' = DOMAIN prov
        /\ \A p \in DOMAIN snap' : snap'[p] = prov[p].status
    BY <1>13 DEF ReadSnapshot
  <2> QED BY <2>1 DEF RowsTrue, LinkedOnce, Truthful, CompletedIsTrue, MethodsKept, journal
<1>14. CASE Release
  <2>1. /\ UNCHANGED <<calls, prov, mirror, snap>>
        /\ \/ UNCHANGED journal
           \/ rows' = [i \in DOMAIN rows |->
                 IF i \in Orphans THEN [rows[i] EXCEPT !.status = "failed"] ELSE rows[i]]
    BY <1>14 DEF Release, Write
  <2>2. CASE UNCHANGED journal
    BY <2>1, <2>2, RowsTrueKept DEF journal
  <2>3. CASE rows' = [i \in DOMAIN rows |->
                 IF i \in Orphans THEN [rows[i] EXCEPT !.status = "failed"] ELSE rows[i]]
    <3>1. \A i \in DOMAIN rows : LET r == [rows[i] EXCEPT !.status = "failed"] IN
            r.link = rows[i].link /\ r.method = rows[i].method /\ r.status = "failed"
      BY Facts DEF RefundRows
    <3>2. \A i \in Orphans : rows[i].method = "apipay"
      BY DEF Orphans, Unlinked, Indexes, Reservation
    <3>3. DOMAIN rows' = DOMAIN rows /\ \A i \in DOMAIN rows :
            /\ rows'[i].link = rows[i].link /\ rows'[i].method = rows[i].method
            /\ \/ rows'[i].status = rows[i].status
               \/ rows'[i].status = "failed" /\ rows[i].method = "apipay"
      BY <2>3, <3>1, <3>2
    <3> QED BY <2>1, <3>3, RowsTrueKept
  <2> QED BY <2>1, <2>2, <2>3
<1>15. CASE ReconcilerDies
  BY <1>15, RowsTrueKept DEF ReconcilerDies, journal
<1>16. ASSUME NEW i \in RowIds, GrowsOld(i)
      PROVE  RowsTrue'
  BY <1>16, RowsTrueKept DEF GrowsOld, journal, recon
<1> QED BY <1>3, <1>4, <1>5, <1>6, <1>7, <1>8, <1>9, <1>10, <1>11, <1>12, <1>13, <1>14, <1>15, <1>16
        DEF Next

-----------------------------------------------------------------------------
(* Without a refund in the dashboard: who holds which part of the balance. *)

LEMMA Waiting ==
  /\ \A i : i \in Unlinked <=> /\ i \in DOMAIN rows /\ rows[i].method = "apipay"
                               /\ rows[i].status = "pending" /\ rows[i].link = 0
  /\ \A i : i \in Unlinked' <=> /\ i \in DOMAIN rows' /\ rows'[i].method = "apipay"
                                /\ rows'[i].status = "pending" /\ rows'[i].link = 0
BY DEF Unlinked, Indexes, Reservation

\* A refund can only be told to the row it was posted for.
LEMMA OnlyItsOwn ==
  ASSUME WellFormed, Held, NEW p \in DOMAIN prov
  PROVE  LET o == prov[p].origin IN
         /\ o \in DOMAIN rows /\ rows[o].method = "apipay" /\ rows[o].amount = prov[p].amount
         /\ Linked(rows, p) \subseteq {o}
         /\ rows[o].link = p \/ o \in Unlinked
         /\ Linked(rows, p) = {} => Candidates(p) = {o}
<1> DEFINE o == prov[p].origin
<1>1. /\ o \in DOMAIN rows /\ rows[o].method = "apipay" /\ rows[o].amount = prov[p].amount
      /\ rows[o].link = p \/ o \in Unlinked
  BY DEF Held, Matched
<1>2. p # 0
  BY Facts
<1>3. Linked(rows, p) \subseteq {o}
  BY <1>2 DEF Held, OwnLink, Linked
<1>4. ASSUME Linked(rows, p) = {}
      PROVE  Candidates(p) = {o}
  <2>1. o \in Unlinked
    BY <1>1, <1>4 DEF Linked
  <2>2. \A i \in Candidates(p) : i = o
    BY <2>1 DEF Candidates, Held, OneWaits
  <2> QED BY <1>1, <2>1, <2>2 DEF Candidates
<1> QED BY <1>1, <1>3, <1>4

LEMMA BalanceKept ==
  ASSUME WellFormed, WellFormed', Balance(rows') <= Balance(rows), refunded + reserved <= Paid
  PROVE  refunded' + reserved' <= Paid
<1>1. /\ refunded \in Nat /\ reserved \in Nat /\ refunded + reserved = Balance(rows)
  BY Parts, TotalsAreBalance
<1>2. rows' \in JournalRows(DOMAIN prov') /\ refunded' = Total(rows', "completed")
      /\ reserved' = Total(rows', "pending")
  BY DEF WellFormed, JournalRows
<1>3. /\ refunded' \in Nat /\ reserved' \in Nat /\ refunded' + reserved' = Balance(rows')
  BY <1>2, TotalsAreBalance
<1>4. Balance(rows) \in Nat /\ Balance(rows') \in Nat /\ Paid \in Nat
  BY <1>1, <1>3, JournalAssumption
<1>5. Balance(rows) <= Paid
  BY <1>1
<1>6. Balance(rows') <= Paid
  BY <1>4, <1>5
<1> QED BY <1>3, <1>6

\* The row of a refund takes it over, or nothing is written.
LEMMA HeldTaken ==
  ASSUME WellFormed, Asked, Held, WellFormed', NEW p \in DOMAIN prov, NEW status \in ProviderStatuses,
         mirror[p] = "failed" => status = "failed",
         mirror' = [mirror EXCEPT ![p] = status],
         \/ rows' = rows /\ Linked(rows, p) = {}
         \/ rows' = [rows EXCEPT ![prov[p].origin] =
                       NewRow("apipay", status, rows[prov[p].origin].amount, p)],
         UNCHANGED <<prov, old>>, calls' \subseteq calls, Seen'
  PROVE  Held'
<1> DEFINE o == prov[p].origin
           row == NewRow("apipay", status, rows[o].amount, p)
<1>1. /\ o \in DOMAIN rows /\ rows[o].method = "apipay" /\ Linked(rows, p) \subseteq {o}
      /\ rows[o].link = p \/ o \in Unlinked
      /\ p # 0 /\ p \in DOMAIN mirror
  BY OnlyItsOwn, Facts, InMirror, Parts
<1>2. /\ row.method = "apipay" /\ row.status = status /\ row.amount = rows[o].amount /\ row.link = p
  BY DEF NewRow
<1>3. CASE rows' = rows /\ Linked(rows, p) = {}
  <2>1. \A q \in DOMAIN prov : Matched(q)'
    BY <1>3 DEF Held, Matched, Unlinked, Indexes
  <2>2. \A i \in DOMAIN rows : OwnLink(i)'
    <3>1. \A i \in DOMAIN rows : rows[i].link # p
      BY <1>3 DEF Linked
    <3> QED BY <1>1, <1>3, <3>1, Facts, InMirror DEF Held, OwnLink
  <2>3. OneWaits' /\ CallsMatched'
    BY <1>3 DEF Held, OneWaits, CallsMatched, Unlinked, Indexes
  <2>4. refunded' + reserved' <= Paid
    BY <1>3, Parts DEF Held, WellFormed
  <2> QED BY <1>3, <2>1, <2>2, <2>3, <2>4 DEF Held
<1>4. CASE rows' = [rows EXCEPT ![o] = row]
  <2> HIDE DEF row
  <2>1. DOMAIN rows' = DOMAIN rows /\ rows'[o] = row /\ \A i \in DOMAIN rows \ {o} : rows'[i] = rows[i]
    BY <1>1, <1>4
  <2>2. Unlinked' = Unlinked \ {o}
    BY <1>1, <1>2, <2>1, Waiting
  <2>3. \A q \in DOMAIN prov : Matched(q)'
    <3>1. ASSUME NEW q \in DOMAIN prov
          PROVE  Matched(q)'
      <4>1. CASE q = p
        BY <1>1, <1>2, <2>1, <4>1 DEF Held, Matched
      <4>2. CASE q # p
        <5>1. prov[q].origin # o
          BY <4>2 DEF Held
        <5> QED BY <2>1, <2>2, <5>1 DEF Held, Matched
      <4> QED BY <4>1, <4>2
    <3> QED BY <3>1
  <2>4. \A i \in DOMAIN rows : OwnLink(i)'
    <3>1. \A i \in DOMAIN rows \ {o} : rows[i].link # p
      BY <1>1 DEF Linked
    <3>2. ASSUME NEW i \in DOMAIN rows \ {o}
          PROVE  OwnLink(i)'
      <4>1. rows'[i].link # 0 => rows'[i].link \in DOMAIN mirror /\ mirror'[rows'[i].link] = mirror[rows[i].link]
        BY <2>1, <3>1, Facts, InMirror, Parts
      <4> QED BY <2>1, <4>1 DEF Held, OwnLink
    <3>3. OwnLink(o)'
      BY <1>1, <1>2, <2>1 DEF OwnLink
    <3> QED BY <3>2, <3>3
  <2>5. OneWaits'
    BY <2>2 DEF Held, OneWaits
  <2>6. CallsMatched'
    BY <2>2 DEF Held, CallsMatched
  <2>7. refunded' + reserved' <= Paid
    <3>1. rows[o].status = "failed" => status = "failed"
      BY <1>1, Waiting DEF Held, OwnLink
    <3>2. \A i \in DOMAIN rows : /\ rows'[i].amount = rows[i].amount
                                 /\ rows[i].status = "failed" => rows'[i].status = "failed"
      BY <1>2, <2>1, <3>1
    <3>3. Balance(rows') <= Balance(rows)
      BY <2>1, <3>2, Parts, BalanceAtMost
    <3> QED BY <3>3, BalanceKept DEF Held
  <2> QED BY <2>1, <2>3, <2>4, <2>5, <2>6, <2>7 DEF Held
<1> QED BY <1>3, <1>4

LEMMA HeldFrame ==
  ASSUME Held, UNCHANGED <<journal, prov, old, mirror>>, calls' \subseteq calls, Seen'
  PROVE  Held'
BY DEF Held, Matched, OwnLink, OneWaits, CallsMatched, Unlinked, Indexes, journal

LEMMA HeldApply ==
  ASSUME WellFormed, Asked, LinkedOnce, Truthful, Held, WellFormed', NEW p \in DOMAIN prov,
         NEW told \in ProviderStatuses, NEW given, NEW auto, PairStillFree(p, given),
         Apply(p, told, given, auto), UNCHANGED <<calls, old, prov>>,
         mirror'[p] # "none" => Seen'
  PROVE  Held'
<1> DEFINE o == prov[p].origin
           status == EffectiveStatus(p, told)
           row == NewRow("apipay", status, prov[p].amount, p)
<1>1. status \in ProviderStatuses /\ (mirror[p] = "failed" => status = "failed")
  BY RowOfApply DEF EffectiveStatus
<1>2. o \in DOMAIN rows /\ prov[p].amount = rows[o].amount /\ Linked(rows, p) \subseteq {o}
      /\ (Linked(rows, p) = {} => Candidates(p) = {o})
  BY OnlyItsOwn
<1>3. mirror' = [mirror EXCEPT ![p] = status]
  BY ApplyEffect
<1>4. Seen'
  BY <1>1, <1>3, Parts, InMirror DEF ProviderStatuses
<1>5. \/ rows' = rows /\ Linked(rows, p) = {}
      \/ rows' = [rows EXCEPT ![o] = row]
  <2>1. \/ rows' = rows /\ Linked(rows, p) = {}
        \/ rows' = Append(rows, row) /\ Linked(rows, p) = {} /\ Candidates(p) = {}
        \/ \E i \in DOMAIN rows : /\ rows' = [rows EXCEPT ![i] = row]
                                  /\ \/ rows[i].link = p
                                     \/ Linked(rows, p) = {} /\ i \in Candidates(p)
    BY ApplyEffect
  <2> HIDE DEF o, row
  <2>2. ASSUME NEW i \in DOMAIN rows, rows[i].link = p \/ (Linked(rows, p) = {} /\ i \in Candidates(p))
        PROVE  i = o
    BY <1>2, <2>2 DEF Linked
  <2> QED BY <1>2, <2>1, <2>2
<1>6. row = NewRow("apipay", status, rows[o].amount, p)
  BY <1>2
<1> HIDE DEF status
<1> QED BY <1>1, <1>3, <1>4, <1>5, <1>6, HeldTaken

LEMMA HeldAnswer ==
  ASSUME WellFormed, Asked, LinkedOnce, Truthful, MethodsKept, Held, WellFormed',
         NEW c \in calls, Answer(c)
  PROVE  Held'
<1> DEFINE p == c.id
           o == prov[p].origin
<1>1. /\ p \in DOMAIN prov /\ p # 0 /\ c.row = o /\ rows[c.row].method = "apipay"
      /\ c.status \in {"pending", prov[p].status}
  <2>1. p \in DOMAIN prov
    BY AnswerEffect
  <2> QED BY <2>1, Facts DEF Held, CallsMatched, MethodsKept, Truthful
<1>2. o \in DOMAIN rows /\ prov[p].amount = rows[o].amount /\ Linked(rows, p) \subseteq {o}
  BY <1>1, OnlyItsOwn
<1>3. PICK status : AnswerWrites(c, status)
  BY AnswerEffect
<1>4. mirror' = [mirror EXCEPT ![p] = status]
  BY <1>3 DEF AnswerWrites
<1>5. /\ status \in ProviderStatuses /\ (mirror[p] = "failed" => status = "failed")
  BY <1>1, <1>3, InMirror, Facts DEF AnswerWrites, Truthful, ProviderStatuses
<1>6. rows' = [rows EXCEPT ![o] = NewRow("apipay", status, rows[o].amount, p)]
  BY <1>1, <1>2, <1>3 DEF AnswerWrites, Linked
<1>7. UNCHANGED <<prov, old, recon>> /\ calls' \subseteq calls
  BY DEF Answer
<1>8. Seen'
  <2>1. \A q \in DOMAIN prov : mirror[q] # "none" => mirror'[q] # "none"
    BY <1>4, <1>5, Parts, InMirror DEF ProviderStatuses
  <2> QED BY <1>7, <2>1 DEF Held, Seen, recon
<1> HIDE DEF p
<1> QED BY <1>1, <1>4, <1>5, <1>6, <1>7, <1>8, HeldTaken

\* A refund for which there is room fits into the payment.
LEMMA RoomForMore ==
  ASSUME WellFormed, NEW a, Refundable(a)
  PROVE  a \in Nat /\ refunded + reserved + a <= Paid
<1>1. refunded \in Nat /\ reserved \in Nat
  BY Parts, TotalsAreBalance
<1> QED BY <1>1, JournalAssumption DEF Refundable, Available, Minus

\* A new row: a reservation while no other waits, or cash.
LEMMA HeldAppend ==
  ASSUME WellFormed, Held, WellFormed', NEW a, Refundable(a), NEW r,
         \/ r = NewRow("cash", "completed", a, 0) /\ calls' = calls
         \/ /\ r = NewRow("apipay", "pending", a, 0) /\ Unlinked = {}
            /\ calls' = calls \cup {[row |-> Len(rows) + 1, id |-> 0, status |-> "pending"]},
         rows' = Append(rows, r), UNCHANGED <<prov, old, mirror, recon>>
  PROVE  Held'
<1> DEFINE n == Len(rows) + 1
<1>1. /\ DOMAIN rows' = DOMAIN rows \cup {n} /\ n \notin DOMAIN rows /\ rows'[n] = r
      /\ \A i \in DOMAIN rows : rows'[i] = rows[i]
  <2>1. rows \in JournalRows(DOMAIN prov)
    BY Parts
  <2> QED BY <2>1 DEF JournalRows
<1>2. r.link = 0 /\ r.amount = a /\ r.status # "failed"
  BY DEF NewRow
<1>3. Unlinked \subseteq Unlinked' /\ Unlinked' \subseteq Unlinked \cup {n}
  BY <1>1, Waiting
<1>4. \A p \in DOMAIN prov : Matched(p)'
  BY <1>1, <1>3 DEF Held, Matched
<1>5. \A i \in DOMAIN rows' : OwnLink(i)'
  BY <1>1, <1>2 DEF Held, OwnLink
<1>6. OneWaits' /\ CallsMatched'
  <2>1. CASE r = NewRow("cash", "completed", a, 0) /\ calls' = calls
    <3>1. n \notin Unlinked'
      BY <1>1, <2>1, Waiting DEF NewRow
    <3>2. Unlinked' = Unlinked
      BY <1>3, <3>1
    <3> QED BY <2>1, <3>2 DEF Held, OneWaits, CallsMatched
  <2>2. CASE /\ r = NewRow("apipay", "pending", a, 0) /\ Unlinked = {}
             /\ calls' = calls \cup {[row |-> n, id |-> 0, status |-> "pending"]}
    <3>1. Unlinked' = {n}
      BY <1>1, <1>3, <2>2, Waiting DEF NewRow
    <3>2. n \notin old /\ \A p \in DOMAIN prov : prov[p].origin # n
      BY <1>1, Parts DEF Held, Matched, Unlinked, Indexes
    <3>3. \A c \in calls : c.row \in DOMAIN rows /\ c.id # 0
      BY <2>2, Facts DEF Held, CallsMatched
    <3> QED BY <1>1, <2>2, <3>1, <3>2, <3>3 DEF Held, OneWaits, CallsMatched
  <2> QED BY <2>1, <2>2
<1>7. Seen'
  BY DEF Held, Seen, recon
<1>8. refunded' + reserved' <= Paid
  <2>1. Balance(rows') = Balance(rows) + a
    <3>1. rows \in JournalRows(DOMAIN prov) /\ r \in RefundRows({"apipay", "cash"}, DOMAIN prov \cup {0})
      BY Parts, RoomForMore DEF NewRow, RefundRows, RefundStatuses
    <3> QED BY <1>2, <3>1, BalanceAppend
  <2>2. refunded \in Nat /\ reserved \in Nat /\ refunded + reserved = Balance(rows)
    BY Parts, TotalsAreBalance
  <2>3. /\ rows' \in JournalRows(DOMAIN prov') /\ refunded' = Total(rows', "completed")
        /\ reserved' = Total(rows', "pending")
    BY DEF WellFormed, JournalRows
  <2>4. refunded' + reserved' = Balance(rows')
    BY <2>3, TotalsAreBalance
  <2> QED BY <2>1, <2>2, <2>4, RoomForMore
<1> QED BY <1>4, <1>5, <1>6, <1>7, <1>8 DEF Held

\* The POST is accepted: the reservation it was sent for is the one that waits.
LEMMA HeldAccepted ==
  ASSUME WellFormed, Held, NEW c \in calls, NEW status \in {"pending", "completed"},
         PostAccepted(c, status)
  PROVE  Held'
<1> DEFINE q == Len(prov) + 1
           call == [c EXCEPT !.id = q, !.status = status]
           i == c.row
<1>1. /\ c.id = 0 /\ UNCHANGED <<journal, old, mirror, recon>>
      /\ Created(rows[i].amount, status, i)
      /\ calls' \subseteq (calls \ {c}) \cup {call}
  BY DEF PostAccepted
<1>2. /\ i \in DOMAIN rows /\ i \in Nat /\ rows[i].amount \in Nat /\ status \in ProviderStatuses
      /\ q # 0
  BY Facts DEF ProviderStatuses
<1>3. /\ DOMAIN prov' = DOMAIN prov \cup {q} /\ q \notin DOMAIN prov
      /\ \A p \in DOMAIN prov : prov'[p] = prov[p]
      /\ prov'[q].amount = rows[i].amount /\ prov'[q].origin = i
  <2>1. prov \in Prov
    BY Parts
  <2> QED BY <1>1, <1>2, <2>1, RefundsGrow
<1>4. i \in Unlinked /\ i \notin old /\ \A p \in DOMAIN prov : prov[p].origin # i
  BY <1>1 DEF Held, CallsMatched
<1>5. rows' = rows /\ Unlinked' = Unlinked /\ mirror' = mirror /\ old' = old
  BY <1>1 DEF journal, Unlinked, Indexes
<1>6. call.row = i /\ call.id = q
  BY Facts DEF CallsOf
<1> HIDE DEF q, call, i
<1>7. \A p \in DOMAIN prov' : Matched(p)'
  BY <1>2, <1>3, <1>4, <1>5, Waiting DEF Held, Matched
<1>8. \A p, r \in DOMAIN prov' : prov'[p].origin = prov'[r].origin => p = r
  BY <1>3, <1>4 DEF Held
<1>9. \A j \in DOMAIN rows : OwnLink(j)'
  BY <1>3, <1>5, Facts DEF Held, OwnLink
<1>10. CallsMatched'
  <2>1. \A d \in calls \ {c} : d.row # i
    BY DEF Held, CallsMatched, i
  <2>2. \A d \in calls : d.id # 0 => d.id \in DOMAIN prov
    BY Facts
  <2>3. \A d, e \in calls' : d.row = e.row => d = e
    BY <1>1, <1>6, <2>1 DEF Held, CallsMatched
  <2>4. ASSUME NEW d \in calls'
        PROVE  /\ d.row \notin old'
               /\ IF d.id = 0 THEN d.row \in Unlinked' /\ \A p \in DOMAIN prov' : prov'[p].origin # d.row
                  ELSE prov'[d.id].origin = d.row
    <3>1. CASE d = call
      BY <1>2, <1>3, <1>4, <1>5, <1>6, <3>1
    <3>2. CASE d \in calls \ {c}
      BY <1>3, <1>5, <2>1, <2>2, <3>2 DEF Held, CallsMatched
    <3> QED BY <1>1, <3>1, <3>2
  <2> QED BY <2>3, <2>4 DEF CallsMatched
<1>11. Seen'
  BY <1>1, <1>3, <1>4, <1>5 DEF Held, Seen, recon
<1>12. refunded' + reserved' <= Paid /\ OneWaits'
  BY <1>1, <1>5 DEF Held, OneWaits, journal
<1> QED BY <1>5, <1>7, <1>8, <1>9, <1>10, <1>11, <1>12 DEF Held

\* Reservations are given up that no refund came of and no call still asks for:
\* a refused POST, and what the reconciliation releases.
LEMMA HeldRefused ==
  ASSUME WellFormed, Held, WellFormed', NEW S \in SUBSET Unlinked, S \cap {prov[p].origin : p \in DOMAIN prov} = {},
         \A c \in calls' : c \in calls /\ (c.id = 0 => c.row \notin S),
         rows' = [i \in DOMAIN rows |-> IF i \in S THEN [rows[i] EXCEPT !.status = "failed"] ELSE rows[i]],
         UNCHANGED <<prov, old, mirror>>, Seen'
  PROVE  Held'
<1>1. /\ DOMAIN rows' = DOMAIN rows /\ \A i \in DOMAIN rows \ S : rows'[i] = rows[i]
      /\ \A i \in S : i \in DOMAIN rows /\ rows'[i] = [rows[i] EXCEPT !.status = "failed"]
  BY Waiting
<1>2. \A i \in S : /\ rows'[i].status = "failed" /\ rows'[i].link = 0 /\ rows'[i].amount = rows[i].amount
                   /\ rows'[i].method = rows[i].method
  BY <1>1, Waiting, Facts DEF RefundRows
<1>3. Unlinked' = Unlinked \ S
  BY <1>1, <1>2, Waiting
<1>4. \A p \in DOMAIN prov : Matched(p)'
  <2>1. \A p \in DOMAIN prov : prov[p].origin \notin S
    OBVIOUS
  <2> QED BY <1>1, <1>3, <2>1 DEF Held, Matched
<1>5. \A i \in DOMAIN rows : OwnLink(i)'
  BY <1>1, <1>2 DEF Held, OwnLink
<1>6. OneWaits' /\ CallsMatched'
  BY <1>3 DEF Held, OneWaits, CallsMatched
<1>7. refunded' + reserved' <= Paid
  <2>1. \A i \in DOMAIN rows : /\ rows'[i].amount = rows[i].amount
                               /\ rows[i].status = "failed" => rows'[i].status = "failed"
    BY <1>1, <1>2
  <2>2. Balance(rows') <= Balance(rows)
    BY <1>1, <2>1, Parts, BalanceAtMost
  <2> QED BY <2>2, BalanceKept DEF Held
<1> QED BY <1>1, <1>4, <1>5, <1>6, <1>7 DEF Held

\* What _release_absent_orphans gives up has no refund at the provider.
LEMMA HeldRelease ==
  ASSUME WellFormed, Asked, Held, WellFormed', Release
  PROVE  Held'
<1>1. UNCHANGED <<calls, old, prov, mirror>> /\ pc' = "idle" /\ pc = "apply" /\ snap = Nothing
  BY DEF Release
<1>2. Seen'
  BY <1>1 DEF Seen
<1>3. CASE UNCHANGED journal
  BY <1>1, <1>2, <1>3, HeldFrame
<1>4. CASE /\ complete
           /\ rows' = [i \in DOMAIN rows |->
                         IF i \in Orphans THEN [rows[i] EXCEPT !.status = "failed"] ELSE rows[i]]
  <2>1. Orphans \subseteq Unlinked /\ Orphans \subseteq old
    BY DEF Orphans
  <2>2. ASSUME NEW p \in DOMAIN prov, prov[p].origin \in Orphans
        PROVE  FALSE
    <3>1. mirror[p] # "none"
      BY <1>1, <1>4, <2>1, <2>2 DEF Held, Seen, Nothing
    <3>2. p \notin LinkedIds
      <4>1. \A j \in DOMAIN rows : rows[j].link = p => j = prov[p].origin
        BY Facts DEF Held, OwnLink
      <4> QED BY <2>1, <2>2, <4>1, Waiting, Facts DEF LinkedIds
    <3>3. prov[p].amount = rows[prov[p].origin].amount
      BY DEF Held, Matched
    <3> QED BY <2>2, <3>1, <3>2, <3>3, InMirror DEF Orphans
  <2>3. \A c \in calls : c.row \notin Orphans
    BY <2>1 DEF Held, CallsMatched
  <2> QED BY <1>1, <1>2, <1>4, <2>1, <2>2, <2>3, HeldRefused
<1> QED BY <1>3, <1>4 DEF Release, Write

LEMMA DashboardGrows ==
  ASSUME WellFormed, Next
  PROVE  Dashboard \subseteq Dashboard'
<1>1. ASSUME NEW a \in Nat, NEW status \in ProviderStatuses, NEW origin \in Nat,
             Created(a, status, origin)
      PROVE  Dashboard \subseteq Dashboard'
  BY <1>1, Parts, RefundsGrow DEF Dashboard
<1>2. CASE prov' = prov
  BY <1>2 DEF Dashboard
<1>3. ASSUME NEW a \in Amounts, DashboardRefund(a)
      PROVE  Dashboard \subseteq Dashboard'
  <2>1. a \in Nat /\ "pending" \in ProviderStatuses /\ 0 \in Nat /\ Created(a, "pending", 0)
    BY <1>3, JournalAssumption DEF DashboardRefund, ProviderStatuses
  <2> QED BY <1>1, <2>1
<1>4. ASSUME NEW c \in calls, NEW status \in {"pending", "completed"}, PostAccepted(c, status)
      PROVE  Dashboard \subseteq Dashboard'
  <2>1. c.row \in DOMAIN rows /\ c.row \in Nat /\ rows[c.row].amount \in Nat /\ status \in ProviderStatuses
    BY Facts DEF ProviderStatuses
  <2>2. Created(rows[c.row].amount, status, c.row)
    BY <1>4 DEF PostAccepted
  <2> QED BY <1>1, <2>1, <2>2
<1>5. ASSUME NEW p \in RefundIds, NEW status \in ProviderStatuses, ProviderDecides(p, status)
      PROVE  Dashboard \subseteq Dashboard'
  <2>1. DOMAIN prov' = DOMAIN prov /\ \A q \in DOMAIN prov : prov'[q].origin = prov[q].origin
    BY <1>5, Facts DEF ProviderDecides
  <2> QED BY <2>1 DEF Dashboard
<1> QED BY <1>2, <1>3, <1>4, <1>5
        DEF Next, Reserve, PayCash, PostRefused, PostUnknown, Answer, Webhook, ApplySnapshot,
            ReadSnapshot, Release, ReconcilerDies, GrowsOld

LEMMA HeldStep ==
  ASSUME IInv, Next, WellFormed', Dashboard' = {}
  PROVE  Held'
<1> USE DEF IInv
<1>1. Held
  BY DashboardGrows
<1>2. ASSUME NEW a \in Amounts, Reserve(a)
      PROVE  Held'
  BY <1>1, <1>2, HeldAppend DEF Reserve, Write
<1>3. ASSUME NEW a \in Amounts, PayCash(a)
      PROVE  Held'
  BY <1>1, <1>3, HeldAppend DEF PayCash, CashRefund, Write
<1>4. ASSUME NEW a \in Amounts, DashboardRefund(a)
      PROVE  Held'
  <2>1. a \in Nat /\ "pending" \in ProviderStatuses /\ 0 \in Nat /\ Created(a, "pending", 0)
    BY <1>4, JournalAssumption DEF DashboardRefund, ProviderStatuses
  <2>2. Len(prov) + 1 \in DOMAIN prov' /\ prov'[Len(prov) + 1].origin = 0
    BY <2>1, Parts, RefundsGrow
  <2> QED BY <2>2 DEF Dashboard
<1>5. ASSUME NEW c \in calls, NEW status \in {"pending", "completed"}, PostAccepted(c, status)
      PROVE  Held'
  BY <1>1, <1>5, HeldAccepted
<1>6. ASSUME NEW c \in calls, PostRefused(c)
      PROVE  Held'
  <2>1. /\ c.id = 0 /\ calls' = calls \ {c} /\ UNCHANGED <<old, prov, mirror, recon>>
        /\ rows' = [rows EXCEPT ![c.row].status = "failed"]
    BY <1>6 DEF PostRefused, Write, Settled
  <2>2. /\ c.row \in Unlinked /\ \A p \in DOMAIN prov : prov[p].origin # c.row
        /\ \A d \in calls' : d.row # c.row
    BY <1>1, <2>1 DEF Held, CallsMatched
  <2>3. rows' = [i \in DOMAIN rows |->
                   IF i \in {c.row} THEN [rows[i] EXCEPT !.status = "failed"] ELSE rows[i]]
    <3>1. rows = [i \in DOMAIN rows |-> rows[i]]
      BY Facts DEF JournalRows
    <3> QED BY <2>1, <3>1
  <2>4. Seen'
    BY <1>1, <2>1 DEF Held, Seen, recon
  <2>5. {c.row} \in SUBSET Unlinked /\ {c.row} \cap {prov[p].origin : p \in DOMAIN prov} = {}
        /\ \A d \in calls' : d \in calls /\ (d.id = 0 => d.row \notin {c.row})
    BY <2>1, <2>2
  <2> QED BY <1>1, <2>1, <2>3, <2>4, <2>5, HeldRefused
<1>7. ASSUME NEW c \in calls, PostUnknown(c)
      PROVE  Held'
  <2>1. Seen'
    BY <1>1, <1>7 DEF PostUnknown, Held, Seen, recon
  <2> QED BY <1>1, <1>7, <2>1, HeldFrame DEF PostUnknown
<1>8. ASSUME NEW c \in calls, Answer(c)
      PROVE  Held'
  BY <1>1, <1>8, HeldAnswer
<1>9. ASSUME NEW p \in RefundIds, NEW status \in ProviderStatuses, Webhook(p, status)
      PROVE  Held'
  <2>1. /\ p \in DOMAIN prov /\ PairStillFree(p, 0) /\ Apply(p, status, 0, TRUE)
        /\ UNCHANGED <<calls, old, prov, recon>>
    BY <1>9 DEF Webhook, Applies
  <2>2. ASSUME mirror'[p] # "none"
        PROVE  Seen'
    <3>1. \A q \in DOMAIN prov : mirror[q] # "none" => mirror'[q] # "none"
      BY <2>1, <2>2 DEF Apply
    <3> QED BY <1>1, <2>1, <3>1 DEF Held, Seen, recon
  <2> QED BY <1>1, <2>1, <2>2, HeldApply
<1>10. ASSUME NEW p \in RefundIds, ApplySnapshot(p)
      PROVE  Held'
  <2> DEFINE given == IF p \in DOMAIN match THEN match[p] ELSE 0
  <2>1. /\ p \in DOMAIN snap /\ p \in DOMAIN prov /\ UNCHANGED <<calls, old, prov, pc>>
        /\ DOMAIN snap' = DOMAIN snap \ {p}
        /\ \/ PairStillFree(p, given) /\ Apply(p, snap[p], given, FALSE) /\ UNCHANGED complete
           \/ UNCHANGED <<journal, mirror>> /\ complete' = FALSE
    BY <1>10, Parts DEF ApplySnapshot, Applies
  <2>2. CASE PairStillFree(p, given) /\ Apply(p, snap[p], given, FALSE) /\ UNCHANGED complete
    <3>1. snap[p] \in ProviderStatuses
      BY <2>1, Facts DEF Truthful, ProviderStatuses
    <3>2. ASSUME mirror'[p] # "none"
          PROVE  Seen'
      <4>1. \A q \in DOMAIN prov : mirror[q] # "none" => mirror'[q] # "none"
        BY <2>2, <3>2 DEF Apply
      <4> QED BY <1>1, <2>1, <2>2, <3>2, <4>1 DEF Held, Seen
    <3> HIDE DEF given
    <3> QED BY <1>1, <2>1, <2>2, <3>1, <3>2, HeldApply
  <2>3. CASE UNCHANGED <<journal, mirror>> /\ complete' = FALSE
    <3>1. Seen'
      BY <2>3 DEF Seen
    <3> QED BY <1>1, <2>1, <2>3, <3>1, HeldFrame
  <2> QED BY <2>1, <2>2, <2>3
<1>11. ASSUME NEW p \in RefundIds, NEW status \in ProviderStatuses, ProviderDecides(p, status)
      PROVE  Held'
  <2>1. /\ UNCHANGED <<journal, calls, old, mirror, recon>> /\ DOMAIN prov' = DOMAIN prov
        /\ \A q \in DOMAIN prov : prov'[q].origin = prov[q].origin /\ prov'[q].amount = prov[q].amount
    BY <1>11, Facts DEF ProviderDecides
  <2>2. rows' = rows /\ Unlinked' = Unlinked
    BY <2>1 DEF journal, Unlinked, Indexes
  <2>3. \A q \in DOMAIN prov : Matched(q)'
    BY <1>1, <2>1, <2>2 DEF Held, Matched
  <2>4. \A i \in DOMAIN rows : OwnLink(i)'
    BY <1>1, <2>1, <2>2, Facts DEF Held, OwnLink
  <2>5. OneWaits' /\ CallsMatched' /\ Seen' /\ refunded' + reserved' <= Paid
    BY <1>1, <2>1, <2>2, Facts DEF Held, OneWaits, CallsMatched, Seen, journal, recon
  <2> QED BY <1>1, <2>1, <2>2, <2>3, <2>4, <2>5 DEF Held
<1>12. CASE ReadSnapshot
  <2>1. UNCHANGED <<journal, calls, old, prov, mirror>> /\ DOMAIN snap' = DOMAIN prov
    BY <1>12 DEF ReadSnapshot
  <2>2. Seen'
    BY <2>1 DEF Seen
  <2> QED BY <1>1, <2>1, <2>2, HeldFrame
<1>13. CASE Release
  BY <1>1, <1>13, HeldRelease
<1>14. CASE ReconcilerDies
  <2>1. Seen'
    BY <1>14 DEF ReconcilerDies, Seen
  <2> QED BY <1>1, <1>14, <2>1, HeldFrame DEF ReconcilerDies
<1>15. ASSUME NEW i \in RowIds, GrowsOld(i)
      PROVE  Held'
  <2>1. /\ pc = "idle" /\ \A c \in calls : c.row # i
        /\ old' = old \cup {i} /\ UNCHANGED <<journal, calls, prov, mirror, recon>>
    BY <1>15 DEF GrowsOld
  <2>2. rows' = rows /\ Unlinked' = Unlinked /\ pc' = "idle"
    BY <2>1 DEF journal, Unlinked, Indexes, recon
  <2>3. CallsMatched' /\ Seen'
    BY <1>1, <2>1, <2>2 DEF Held, CallsMatched, Seen
  <2> QED BY <1>1, <2>1, <2>2, <2>3 DEF Held, Matched, OwnLink, OneWaits, journal
<1> QED BY <1>2, <1>3, <1>4, <1>5, <1>6, <1>7, <1>8, <1>9, <1>10, <1>11, <1>12, <1>13, <1>14, <1>15
        DEF Next

LEMMA InitIInv ==
  ASSUME Init
  PROVE  IInv
<1>1. rows = <<>> /\ prov = <<>> /\ calls = {} /\ old = {} /\ snap = Nothing /\ pc = "idle"
      /\ mirror = [p \in RefundIds |-> "none"] /\ refunded = 0 /\ reserved = 0
  BY DEF Init, JournalInit
<1>2. Total(rows, "completed") = 0 /\ Total(rows, "pending") = 0
  <2>1. rows \in JournalRows({}) /\ DOMAIN rows = {}
    BY <1>1 DEF JournalRows
  <2>2. Balance(rows) = 0
    BY <2>1, SumEmpty DEF Balance
  <2> QED BY <2>1, <2>2, TotalsAreBalance
<1>3. WellFormed
  BY <1>1, <1>2 DEF WellFormed, Nothing
<1>4. Asked
  <2>1. Unposted = {} /\ Dashboard = {}
    BY <1>1 DEF Unposted, Dashboard
  <2> QED BY <1>1, <2>1, FS_EmptySet, JournalAssumption DEF Asked
<1>5. LinkedOnce /\ Truthful /\ MethodsKept
  BY <1>1 DEF LinkedOnce, Truthful, CompletedIsTrue, MethodsKept, Nothing
<1>6. Held
  BY <1>1, JournalAssumption DEF Held, OneWaits, CallsMatched, Seen, Unlinked, Indexes
<1> QED BY <1>3, <1>4, <1>5, <1>6 DEF IInv

LEMMA IInvStep ==
  ASSUME IInv, [Next]_vars
  PROVE  IInv'
<1>1. CASE Next
  <2>1. WellFormed' /\ Asked'
    BY <1>1, WellFormedStep, AskedStep DEF IInv
  <2>2. RowsTrue'
    BY <1>1, RowsTrueStep DEF IInv, RowsTrue
  <2>3. Dashboard' = {} => Held'
    BY <1>1, <2>1, HeldStep
  <2> QED BY <2>1, <2>2, <2>3 DEF IInv, RowsTrue
<1>2. CASE UNCHANGED vars
  <2>1. UNCHANGED <<rows, refunded, reserved, calls, old, prov, mirror, pc, snap, complete>>
    BY <1>2 DEF vars, journal, recon
  <2> QED BY <2>1 DEF IInv, WellFormed, Asked, Unposted, Dashboard, LinkedOnce, Truthful, CompletedIsTrue,
          MethodsKept, Held, Matched, OwnLink, OneWaits, CallsMatched, Seen, Unlinked, Indexes
<1> QED BY <1>1, <1>2

\* The inductive invariant: each provider refund has one row, its own, and
\* whatever the reconciliation releases has no refund.
THEOREM Invariance == Spec => []IInv
<1>1. Init => IInv
  BY InitIInv
<1>2. IInv /\ [Next]_vars => IInv'
  BY IInvStep
<1> QED BY <1>1, <1>2, PTL DEF Spec

-----------------------------------------------------------------------------
(* What follows. *)

LEMMA RowsOfMoney ==
  ASSUME IInv, Dashboard = {}
  PROVE  SumOf(prov, Live) + Cash \in Nat /\ SumOf(prov, Live) + Cash <= Balance(rows)
<1> DEFINE L == {p \in DOMAIN prov : prov[p].status # "failed"}
           C == {i \in DOMAIN rows : rows[i].method = "cash"}
           h == [p \in L |-> prov[p].origin]
           I == {h[p] : p \in L}
           w == Weights(rows)
<1>1. WellFormed /\ Asked /\ Truthful /\ MethodsKept /\ Held
  BY DEF IInv
<1>2. IsFiniteSet(DOMAIN prov) /\ IsFiniteSet(DOMAIN rows)
  <2>1. Len(prov) \in Int /\ Len(rows) \in Int /\ 1 \in Int
    BY <1>1, Facts
  <2> QED BY <1>1, <2>1, Facts, FS_Interval
<1>3. IsFiniteSet(L) /\ IsFiniteSet(C)
  BY <1>2, FS_Subset
<1>4. SumOf(prov, Live) = SumOver(AmountsOf(prov), L)
  <2>1. SumOf(prov, Live) = MapThenSumSet(LAMBDA i : prov[i].amount, {p \in DOMAIN prov : Live(prov[p])})
    BY DEF SumOf, Indexes
  <2>2. {p \in DOMAIN prov : Live(prov[p])} = L
    BY DEF Live
  <2>3. L \in SUBSET DOMAIN prov
    OBVIOUS
  <2> HIDE DEF L
  <2> QED BY <1>3, <2>1, <2>2, <2>3, SumOfAmounts
<1>5. Cash = SumOver(AmountsOf(rows), C)
  <2>1. Cash = MapThenSumSet(LAMBDA i : rows[i].amount, C)
    BY DEF Cash, SumOf, Indexes
  <2>2. C \in SUBSET DOMAIN rows
    OBVIOUS
  <2> HIDE DEF C
  <2> QED BY <1>3, <2>1, <2>2, SumOfAmounts
<1>6. ASSUME NEW p \in L
      PROVE  /\ h[p] \in DOMAIN rows /\ rows[h[p]].method = "apipay"
             /\ rows[h[p]].status # "failed" /\ rows[h[p]].amount = prov[p].amount
  <2>1. /\ h[p] \in DOMAIN rows /\ rows[h[p]].method = "apipay" /\ rows[h[p]].amount = prov[p].amount
        /\ rows[h[p]].link = p \/ h[p] \in Unlinked
    BY <1>1, OnlyItsOwn
  <2>2. CASE h[p] \in Unlinked
    BY <2>1, <2>2, Waiting
  <2>3. CASE rows[h[p]].link = p
    <3>1. rows[h[p]].status = mirror[p] /\ p \in RefundIds
      BY <1>1, <2>1, <2>3, Facts, InMirror DEF Held, OwnLink
    <3>2. mirror[p] # "failed"
      BY <1>1, <3>1 DEF Truthful
    <3> QED BY <2>1, <3>1, <3>2
  <2> QED BY <2>1, <2>2, <2>3
<1>7. \A p, q \in L : h[p] = h[q] => p = q
  BY <1>1 DEF Held
<1>8. \A p \in L : AmountsOf(prov)[p] \in Int /\ w[h[p]] = AmountsOf(prov)[p]
  <2>1. ASSUME NEW p \in L
        PROVE  AmountsOf(prov)[p] \in Int /\ w[h[p]] = AmountsOf(prov)[p]
    <3>1. AmountsOf(prov)[p] = prov[p].amount /\ prov[p].amount \in Nat
      BY <1>1, Facts DEF AmountsOf
    <3>2. w[h[p]] = rows[h[p]].amount
      BY <1>6 DEF Weights
    <3> QED BY <1>6, <3>1, <3>2
  <2> QED BY <2>1
<1>9. \A i \in C : AmountsOf(rows)[i] = w[i]
  BY <1>1 DEF MethodsKept, AmountsOf, Weights
<1>10. I \subseteq DOMAIN rows /\ C \subseteq DOMAIN rows /\ I \cap C = {}
  <2>1. \A p \in L : h[p] \in DOMAIN rows /\ h[p] \notin C
    BY <1>6
  <2> HIDE DEF h, L, C
  <2>2. \A i \in I : i \in DOMAIN rows /\ i \notin C
    BY <2>1
  <2> QED BY <2>2 DEF C
<1>11. \A i \in DOMAIN rows : w[i] \in Nat
  BY <1>1, Facts DEF Weights
<1> HIDE DEF L, C, h, w
<1>12. SumOver(w, I) = SumOver(AmountsOf(prov), L)
  BY <1>3, <1>7, <1>8, SumImage
<1>13. SumOver(AmountsOf(rows), C) = SumOver(w, C)
  BY <1>3, <1>9, SumSame
<1> HIDE DEF I
<1>14. IsFiniteSet(I) /\ I \cup C \in SUBSET DOMAIN rows
  BY <1>2, <1>10, FS_Subset
<1>15. SumOver(w, I \cup C) = SumOver(w, I) + SumOver(w, C)
  <2>1. \A i \in I \cup C : w[i] \in Int
    BY <1>11, <1>14
  <2> QED BY <1>3, <1>10, <1>14, <2>1, SumOfDisjoint
<1>16. SumOver(w, I \cup C) <= SumOver(w, DOMAIN rows)
  BY <1>2, <1>11, <1>14, SumOfSubset
<1>17. SumOver(w, I \cup C) \in Nat
  <2>1. IsFiniteSet(I \cup C) /\ \A i \in I \cup C : w[i] \in Nat
    BY <1>2, <1>11, <1>14, FS_Subset
  <2> QED BY <2>1, SumNat
<1> QED BY <1>4, <1>5, <1>12, <1>13, <1>15, <1>16, <1>17 DEF Balance, w

\* No refund of the provider is counted by two rows: create_refund, a webhook
\* and the reconciliation may all try to attach it.
THEOREM CountedOnceHolds == Spec => []CountedOnce
<1>1. IInv => CountedOnce
  <2>1. SUFFICES ASSUME IInv, NEW p \in DOMAIN prov
                 PROVE  Cardinality(Linked(rows, p)) <= 1
    BY DEF CountedOnce
  <2>2. p # 0
    BY <2>1, Facts DEF IInv
  <2>3. CASE Linked(rows, p) = {}
    BY <2>3, FS_EmptySet
  <2>4. ASSUME NEW i \in Linked(rows, p)
        PROVE  Cardinality(Linked(rows, p)) <= 1
    <3>1. Linked(rows, p) = {i}
      BY <2>1, <2>2, <2>4 DEF IInv, LinkedOnce, Linked
    <3> QED BY <3>1, FS_Singleton
  <2> QED BY <2>3, <2>4
<1> QED BY <1>1, Invariance, PTL

\* A row shown as completed stands for money that has left.
THEOREM CompletedIsTrueHolds == Spec => []CompletedIsTrue
<1>1. IInv => CompletedIsTrue
  BY DEF IInv, Truthful
<1> QED BY <1>1, Invariance, PTL

\* The provider and the till together give back no more than was paid, for any
\* amounts, any loss of answers and any interleaving with the reconciliation.
THEOREM NoOverRefundHolds == Spec => []NoOverRefund
<1>1. IInv => NoOverRefund
  <2>1. SUFFICES ASSUME IInv, Dashboard = {}
                 PROVE  SumOf(prov, Live) + Cash <= Paid
    BY DEF NoOverRefund
  <2>2. WellFormed /\ refunded + reserved <= Paid
    BY <2>1 DEF IInv, Held
  <2>3. /\ refunded \in Nat /\ reserved \in Nat /\ Balance(rows) \in Nat
        /\ refunded + reserved = Balance(rows)
    BY <2>2, Parts, TotalsAreBalance, BalanceNat
  <2>4. SumOf(prov, Live) + Cash \in Nat /\ SumOf(prov, Live) + Cash <= Balance(rows)
    BY <2>1, RowsOfMoney
  <2>5. Balance(rows) <= Paid
    BY <2>2, <2>3
  <2>6. Paid \in Nat
    BY JournalAssumption
  <2> QED BY <2>3, <2>4, <2>5, <2>6
<1> QED BY <1>1, Invariance, PTL
=================================================================================
