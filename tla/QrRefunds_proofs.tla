---------------------------- MODULE QrRefunds_proofs ----------------------------
(* Proofs about refunds by Kaspi QR: for every payment, every set of amounts *)
(* and every number of sessions.                                             *)
EXTENDS QrRefunds, Sums_proofs, SequenceTheorems

JournalRows == Seq(RefundRows({"apipay_qr", "cash"}, {0}))
SessRows(D) ==
  [row : D, status : SessionStatuses, known : BOOLEAN, executed : BOOLEAN, settled : BOOLEAN]
ProvRows == [status : SessionStatuses, seen : SUBSET SessionStatuses, money : BOOLEAN]

\* The balance: what completed and pending rows take from the payment.
Balance(rs) == SumOver(Weights(rs), DOMAIN rs)

LEMMA RowFacts ==
  ASSUME NEW rs \in JournalRows
  PROVE  /\ Len(rs) \in Nat /\ DOMAIN rs = 1..Len(rs) /\ IsFiniteSet(DOMAIN rs)
         /\ \A i \in DOMAIN rs :
              /\ rs[i] \in RefundRows({"apipay_qr", "cash"}, {0})
              /\ rs[i].method \in {"apipay_qr", "cash"} /\ rs[i].amount \in Nat
              /\ rs[i].status \in {"pending", "completed", "failed"}
<1>1. Len(rs) \in Nat /\ DOMAIN rs = 1..Len(rs)
  BY DEF JournalRows
<1>2. IsFiniteSet(DOMAIN rs)
  BY <1>1, FS_Interval
<1>3. \A i \in DOMAIN rs : rs[i] \in RefundRows({"apipay_qr", "cash"}, {0})
  BY DEF JournalRows
<1> QED BY <1>1, <1>2, <1>3 DEF RefundRows, RefundStatuses

LEMMA TotalsAreBalance ==
  ASSUME NEW rs \in JournalRows
  PROVE  /\ Total(rs, "completed") \in Nat /\ Total(rs, "pending") \in Nat
         /\ Total(rs, "completed") + Total(rs, "pending") = Balance(rs)
<1> DEFINE total(status) == MapThenSumSet(LAMBDA i : rs[i].amount,
                                          {i \in DOMAIN rs : rs[i].status = status})
<1>1. Total(rs, "completed") = total("completed") /\ Total(rs, "pending") = total("pending")
  BY DEF Total, SumOf, Indexes
<1>2. /\ total("completed") \in Nat /\ total("pending") \in Nat
      /\ total("completed") + total("pending") = SumOver(Weights(rs), DOMAIN rs)
  BY RowFacts, TotalsAreWeights
<1> HIDE DEF total
<1> QED BY <1>1, <1>2 DEF Balance

LEMMA BalanceAppend ==
  ASSUME NEW rs \in JournalRows, NEW r \in RefundRows({"apipay_qr", "cash"}, {0})
  PROVE  Balance(Append(rs, r)) = Balance(rs) + (IF r.status = "failed" THEN 0 ELSE r.amount)
<1>1. \A q \in RefundRows({"apipay_qr", "cash"}, {0}) : q.amount \in Nat
  BY DEF RefundRows
<1> QED BY <1>1, WeightsAppend DEF Balance, JournalRows

\* The sum in NoOverRefund, over sessions.
LEMMA SumOfSessions ==
  ASSUME NEW rs, NEW ss, NEW S, IsFiniteSet(S)
  PROVE  MapThenSumSet(LAMBDA s : rs[ss[s].row].amount, S) =
           SumOver([s \in S |-> rs[ss[s].row].amount], S)
<1> DEFINE f == [s \in S |-> rs[ss[s].row].amount]
           Same(g) == g = [T \in SUBSET S |->
              IF T = {} THEN 0 ELSE LET x == CHOOSE x \in T : TRUE
                                    IN rs[ss[x].row].amount + g[T \ {x}]]
<1>1. MapThenSumSet(LAMBDA s : rs[ss[s].row].amount, S) = (CHOOSE g : Same(g))[S]
  BY DEF MapThenSumSet, MapThenFoldSet
<1>2. ASSUME NEW g
      PROVE  Same(g) <=> Solves(g, f, S)
  <2>1. ASSUME NEW T \in SUBSET S
        PROVE  Unfolded(g, f, T) =
                 IF T = {} THEN 0 ELSE LET x == CHOOSE x \in T : TRUE
                                       IN rs[ss[x].row].amount + g[T \ {x}]
    BY DEF Unfolded
  <2> QED BY <2>1 DEF Solves
<1>3. PICK s : Solves(s, f, S) /\ SumOver(f, S) = s[S]
  BY SumSolves
<1>4. Solves(CHOOSE g : Same(g), f, S)
  <2> HIDE DEF Same, f
  <2> QED BY <1>2, <1>3
<1>5. (CHOOSE g : Same(g))[S] = s[S]
  <2> HIDE DEF Same, f
  <2> QED BY <1>3, <1>4, SolutionUnique
<1> QED BY <1>1, <1>3, <1>5

-----------------------------------------------------------------------------
(* Reading the type invariant. *)

LEMMA Facts ==
  ASSUME WellFormed
  PROVE  /\ rows \in JournalRows /\ Len(rows) \in Nat /\ DOMAIN rows = 1..Len(rows)
         /\ Len(sess) \in Nat /\ DOMAIN sess = 1..Len(sess) /\ sess \in Seq(SessRows(DOMAIN rows))
         /\ \A s \in DOMAIN sess :
              /\ sess[s] \in SessRows(DOMAIN rows)
              /\ sess[s].row \in DOMAIN rows /\ sess[s].status \in SessionStatuses
              /\ sess[s].known \in BOOLEAN /\ sess[s].executed \in BOOLEAN
              /\ sess[s].settled \in BOOLEAN
         /\ DOMAIN prov \subseteq DOMAIN sess /\ prov \in [DOMAIN prov -> ProvRows]
         /\ \A s \in DOMAIN prov :
              /\ prov[s] \in ProvRows
              /\ prov[s].status \in SessionStatuses /\ prov[s].seen \subseteq SessionStatuses
              /\ prov[s].money \in BOOLEAN
         /\ \A c \in calls : /\ c.s \in DOMAIN sess /\ c.pc \in Steps /\ c = Call(c.s, c.pc)
                             /\ c \in [s : DOMAIN sess, pc : Steps]
         /\ refunded = Total(rows, "completed") /\ reserved = Total(rows, "pending")
         /\ Disowned \subseteq DOMAIN sess
<1>1. /\ rows \in JournalRows /\ sess \in Seq(SessRows(DOMAIN rows))
      /\ calls \subseteq [s : DOMAIN sess, pc : Steps]
      /\ DOMAIN prov \subseteq DOMAIN sess /\ prov \in [DOMAIN prov -> ProvRows]
      /\ refunded = Total(rows, "completed") /\ reserved = Total(rows, "pending")
      /\ Disowned \subseteq DOMAIN sess
  BY DEF WellFormed, JournalRows, SessRows, ProvRows
<1>2. /\ Len(sess) \in Nat /\ DOMAIN sess = 1..Len(sess)
      /\ \A s \in DOMAIN sess : sess[s] \in SessRows(DOMAIN rows)
  <2> DEFINE S == SessRows(DOMAIN rows)
  <2> HIDE DEF S
  <2>1. sess \in Seq(S)
    BY <1>1 DEF S
  <2>2. Len(sess) \in Nat /\ DOMAIN sess = 1..Len(sess) /\ \A s \in DOMAIN sess : sess[s] \in S
    BY <2>1
  <2> QED BY <2>2 DEF S
<1>3. \A s \in DOMAIN sess :
        /\ sess[s].row \in DOMAIN rows /\ sess[s].status \in SessionStatuses
        /\ sess[s].known \in BOOLEAN /\ sess[s].executed \in BOOLEAN
        /\ sess[s].settled \in BOOLEAN
  BY <1>2 DEF SessRows
<1>4. \A s \in DOMAIN prov : prov[s] \in ProvRows
  BY <1>1
<1>5. \A s \in DOMAIN prov :
        /\ prov[s].status \in SessionStatuses /\ prov[s].seen \subseteq SessionStatuses
        /\ prov[s].money \in BOOLEAN
  BY <1>4 DEF ProvRows
<1>6. \A c \in calls : c.s \in DOMAIN sess /\ c.pc \in Steps /\ c = Call(c.s, c.pc)
                       /\ c \in [s : DOMAIN sess, pc : Steps]
  BY <1>1 DEF Call
<1> QED BY <1>1, <1>2, <1>3, <1>4, <1>5, <1>6, RowFacts

LEMMA Assembled ==
  ASSUME rows' \in JournalRows, sess' \in Seq(SessRows(DOMAIN rows')),
         calls' \subseteq [s : DOMAIN sess', pc : Steps],
         DOMAIN prov' \subseteq DOMAIN sess', prov' \in [DOMAIN prov' -> ProvRows],
         refunded' = Total(rows', "completed"), reserved' = Total(rows', "pending"),
         Disowned' \subseteq DOMAIN sess'
  PROVE  WellFormed'
BY DEF WellFormed, JournalRows, SessRows, ProvRows

\* A journal without some of its rows.
Without(rs, L) ==
  [i \in DOMAIN rs |-> IF i \in L THEN [rs[i] EXCEPT !.status = "failed"] ELSE rs[i]]

LEMMA WithoutFacts ==
  ASSUME NEW rs \in JournalRows, NEW L
  PROVE  /\ Without(rs, L) \in JournalRows /\ DOMAIN Without(rs, L) = DOMAIN rs
         /\ \A i \in DOMAIN rs :
              /\ Without(rs, L)[i].amount = rs[i].amount
              /\ Without(rs, L)[i].status = IF i \in L THEN "failed" ELSE rs[i].status
<1> DEFINE R == RefundRows({"apipay_qr", "cash"}, {0})
           q(i) == IF i \in L THEN [rs[i] EXCEPT !.status = "failed"] ELSE rs[i]
           rt == Without(rs, L)
<1>1. /\ Len(rs) \in Nat /\ DOMAIN rs = 1..Len(rs)
      /\ \A i \in DOMAIN rs : rs[i] \in R
  BY RowFacts
<1>2. rt = [i \in DOMAIN rs |-> q(i)]
  BY DEF Without
<1>3. \A i \in DOMAIN rs :
        /\ q(i) \in R /\ q(i).amount = rs[i].amount
        /\ q(i).status = IF i \in L THEN "failed" ELSE rs[i].status
  BY <1>1 DEF RefundRows, RefundStatuses
<1> HIDE DEF q, R, rt
<1>4. rt \in Seq(R)
  <2>1. rt \in [1..Len(rs) -> R]
    BY <1>1, <1>2, <1>3
  <2> QED BY <1>1, <2>1, SeqDef
<1>5. rt \in JournalRows
  BY <1>4 DEF JournalRows, R
<1> QED BY <1>2, <1>3, <1>5 DEF rt

LEMMA OwnedIs == OwnedRows = Without(rows, LostRows) /\ OwnedRows' = Without(rows', LostRows')
BY DEF OwnedRows, Without

LEMMA BalancedIs ==
  ASSUME NEW rs \in JournalRows, NEW L
  PROVE  LET rt == Without(rs, L) IN
         /\ Balance(rt) \in Nat
         /\ Total(rt, "completed") + Total(rt, "pending") = Balance(rt)
BY WithoutFacts, TotalsAreBalance

\* Rows keep their amounts, and given up or disowned they stay so.
LEMMA BalanceKept ==
  ASSUME WellFormed, rows' \in JournalRows, Balanced, DOMAIN rows' = DOMAIN rows,
         \A i \in DOMAIN rows :
           /\ rows'[i].amount = rows[i].amount
           /\ (rows[i].status = "failed" \/ i \in LostRows) =>
                (rows'[i].status = "failed" \/ i \in LostRows')
  PROVE  Balanced'
<1> DEFINE rs == Without(rows, LostRows)
           rt == Without(rows', LostRows')
<1>1. /\ rs \in JournalRows /\ DOMAIN rs = DOMAIN rows /\ DOMAIN rt = DOMAIN rows
      /\ \A i \in DOMAIN rows : /\ rt[i].amount = rs[i].amount
                                /\ rs[i].status = "failed" => rt[i].status = "failed"
  BY Facts, WithoutFacts
<1>2. /\ Balance(rs) \in Nat /\ Balance(rt) \in Nat
      /\ Balanced <=> Balance(rs) <= Paid
      /\ Balanced' <=> Balance(rt) <= Paid
  BY Facts, BalancedIs, OwnedIs DEF Balanced
<1> HIDE DEF rs, rt
<1>3. IsFiniteSet(DOMAIN rs) /\ \A i \in DOMAIN rs : rs[i].amount \in Nat
  BY <1>1, RowFacts
<1>4. Balance(rt) <= Balance(rs)
  BY <1>1, <1>3, WeightsAtMost DEF Balance
<1> QED BY <1>2, <1>4, JournalAssumption

-----------------------------------------------------------------------------
(* A session changes its status, and its reservation may be settled. *)

LEMMA SettledRow ==
  ASSUME WellFormed, NEW i \in DOMAIN rows, NEW status \in RefundStatuses
  PROVE  /\ Settled(i, status) \in JournalRows /\ DOMAIN Settled(i, status) = DOMAIN rows
         /\ \A j \in DOMAIN rows \ {i} : Settled(i, status)[j] = rows[j]
         /\ Settled(i, status)[i].status = status
         /\ Settled(i, status)[i].amount = rows[i].amount
         /\ Settled(i, status)[i].method = rows[i].method
<1> DEFINE r == [rows[i] EXCEPT !.status = status]
<1>1. rows[i] \in RefundRows({"apipay_qr", "cash"}, {0}) /\ rows \in JournalRows
  BY Facts, RowFacts
<1>2. r \in RefundRows({"apipay_qr", "cash"}, {0})
  BY <1>1 DEF RefundRows
<1>3. r.status = status /\ r.amount = rows[i].amount /\ r.method = rows[i].method
  BY <1>1 DEF RefundRows
<1>4. Settled(i, status) = [rows EXCEPT ![i] = r]
  BY DEF Settled
<1> HIDE DEF r
<1>5. [rows EXCEPT ![i] = r] \in JournalRows
  BY <1>1, <1>2 DEF JournalRows
<1> QED BY <1>3, <1>4, <1>5

LEMMA StatusOf ==
  ASSUME WellFormed, NEW s \in DOMAIN sess, NEW st \in SessionStatuses,
         sess' = [sess EXCEPT ![s].status = st]
  PROVE  /\ sess' \in Seq(SessRows(DOMAIN rows)) /\ DOMAIN sess' = DOMAIN sess
         /\ \A t \in DOMAIN sess \ {s} : sess'[t] = sess[t]
         /\ sess'[s].status = st /\ sess'[s].row = sess[s].row /\ sess'[s].known = sess[s].known
         /\ sess'[s].executed = sess[s].executed /\ sess'[s].settled = sess[s].settled
<1> DEFINE r == [sess[s] EXCEPT !.status = st]
           S == SessRows(DOMAIN rows)
<1>1. sess[s] \in S /\ sess \in Seq(S)
  BY Facts
<1>2. r \in S
  BY <1>1 DEF SessRows
<1>3. /\ r.status = st /\ r.row = sess[s].row /\ r.known = sess[s].known
      /\ r.executed = sess[s].executed /\ r.settled = sess[s].settled
  BY <1>1 DEF SessRows
<1>4. sess' = [sess EXCEPT ![s] = r]
  OBVIOUS
<1> HIDE DEF r, S
<1>5. sess' \in Seq(S) /\ DOMAIN sess' = DOMAIN sess
  BY <1>1, <1>2, <1>4
<1> QED BY <1>3, <1>4, <1>5 DEF S

LEMMA StatusStep ==
  ASSUME IInv, NEW s \in DOMAIN sess, NEW st \in SessionStatuses,
         sess' = [sess EXCEPT ![s].status = st], UNCHANGED prov, calls' \subseteq calls,
         refunded' = Total(rows', "completed"), reserved' = Total(rows', "pending"),
         Disowned \subseteq Disowned', Disowned' \subseteq DOMAIN sess,
         \/ st \in {"failed", "expired"}
         \/ sess[s].known /\ (sess[s].executed \/ sess[s].status \notin {"failed", "expired"}),
         \/ rows' = rows
         \/ rows' = Settled(sess[s].row, "completed") /\ ~Over(s)
         \/ rows' = Settled(sess[s].row, "failed") /\ (Over(s)' \/ s \in Disowned')
  PROVE  IInv'
<1> DEFINE i == sess[s].row
<1>1. WellFormed /\ i \in DOMAIN rows /\ {"completed", "failed"} \subseteq RefundStatuses
  BY Facts DEF IInv, RefundStatuses
<1>2. /\ sess' \in Seq(SessRows(DOMAIN rows)) /\ DOMAIN sess' = DOMAIN sess
      /\ \A t \in DOMAIN sess \ {s} : sess'[t] = sess[t]
      /\ sess'[s].status = st /\ sess'[s].row = i /\ sess'[s].known = sess[s].known
      /\ sess'[s].executed = sess[s].executed /\ sess'[s].settled = sess[s].settled
  BY <1>1, StatusOf
<1>3. /\ rows' \in JournalRows /\ DOMAIN rows' = DOMAIN rows
      /\ \A j \in DOMAIN rows \ {i} : rows'[j] = rows[j]
      /\ rows'[i].amount = rows[i].amount /\ rows'[i].method = rows[i].method
  BY <1>1, SettledRow, Facts
<1>4. \A t \in DOMAIN sess : /\ sess'[t].row = sess[t].row /\ sess'[t].known = sess[t].known
                             /\ sess'[t].executed = sess[t].executed
                             /\ sess'[t].settled = sess[t].settled
                             /\ t # s => sess'[t].row # i
  BY <1>1, <1>2 DEF IInv, OwnRows
<1> HIDE DEF i
<1>5. WellFormed'
  BY <1>1, <1>2, <1>3, Facts, Assembled
<1>6. OwnRows'
  <2>1. rows[i].method = "apipay_qr"
    BY <1>1 DEF IInv, OwnRows, i
  <2>2. \A j \in DOMAIN rows : rows'[j].method = rows[j].method /\ (j # i => rows'[j] = rows[j])
    BY <1>3
  <2>3. \A t \in DOMAIN sess : sess[t].row \in DOMAIN rows
    BY <1>1, Facts
  <2>4. \A t \in DOMAIN sess' : rows'[sess'[t].row].method = "apipay_qr"
    BY <1>2, <1>4, <2>2, <2>3 DEF IInv, OwnRows
  <2>5. \A t, u \in DOMAIN sess' : sess'[t].row = sess'[u].row => t = u
    BY <1>2, <1>4 DEF IInv, OwnRows
  <2>6. \A j \in DOMAIN rows' : rows'[j].method = "cash" => rows'[j].status = "completed"
    BY <1>3, <2>1, <2>2 DEF IInv, OwnRows
  <2> QED BY <2>4, <2>5, <2>6 DEF OwnRows
<1>7. LinkedOnce'
  <2>2. \A c \in calls' : c \in calls /\ c.s \in DOMAIN sess
    BY <1>1, Facts
  <2>3. \A t \in DOMAIN sess : IF sess'[t].known THEN t \in DOMAIN prov
                               ELSE sess'[t].status \in {"issuing", "failed", "expired"} /\ ~sess'[t].executed
    BY <1>2, <1>4 DEF IInv, LinkedOnce
  <2> QED BY <1>2, <1>4, <2>2, <2>3 DEF IInv, LinkedOnce
<1>8. ProviderTrue'
  BY <1>1, <1>4, Facts DEF IInv, ProviderTrue
<1>9. ExecutedOnce'
  BY <1>1, <1>2, <1>4, Facts DEF IInv, ExecutedOnce
<1>10. GivenUpIsOver'
  <2>1. ASSUME NEW t \in DOMAIN sess, Over(t)
        PROVE  Over(t)'
    BY <1>2, <1>4, <2>1 DEF IInv, LinkedOnce, Over, InFlight
  <2>2. ASSUME NEW t \in DOMAIN sess \ Disowned', t # s, rows'[sess'[t].row].status = "failed"
        PROVE  Over(t)'
    <3>1. sess'[t].row \in DOMAIN rows /\ rows'[sess'[t].row] = rows[sess[t].row]
      BY <1>1, <1>3, <1>4, <2>2, Facts
    <3> QED BY <2>1, <2>2, <3>1 DEF IInv, GivenUpIsOver
  <2>3. ASSUME rows'[i].status = "failed", s \notin Disowned'
        PROVE  Over(s)'
    <3>1. CASE rows' = rows
      BY <2>1, <2>3, <3>1 DEF IInv, GivenUpIsOver, i
    <3>2. CASE rows' = Settled(i, "completed")
      BY <1>1, <2>3, <3>2, SettledRow
    <3>3. CASE rows' = Settled(i, "failed") /\ (Over(s)' \/ s \in Disowned')
      BY <2>3, <3>3
    <3> QED BY <3>1, <3>2, <3>3 DEF i
  <2> QED BY <1>2, <2>2, <2>3 DEF GivenUpIsOver
<1>11. Balanced'
  <2>1. (rows[i].status = "failed" /\ s \notin Disowned) => rows'[i].status = "failed"
    <3>1. CASE rows' = Settled(i, "completed") /\ ~Over(s)
      BY <3>1 DEF IInv, GivenUpIsOver, i
    <3>2. CASE rows' = Settled(i, "failed")
      BY <1>1, <3>2, SettledRow
    <3> QED BY <3>1, <3>2 DEF i
  <2>2. /\ \A j \in LostRows : j \in LostRows'
        /\ s \in Disowned => i \in LostRows
    BY <1>1, <1>4, Facts DEF LostRows, i
  <2>3. \A j \in DOMAIN rows :
          /\ rows'[j].amount = rows[j].amount
          /\ (rows[j].status = "failed" \/ j \in LostRows) =>
               (rows'[j].status = "failed" \/ j \in LostRows')
    BY <1>3, <2>1, <2>2
  <2> QED BY <1>1, <1>3, <2>3, BalanceKept DEF IInv
<1> QED BY <1>5, <1>6, <1>7, <1>8, <1>9, <1>10, <1>11 DEF IInv

\* _finish_locked, under the conditions of StatusStep.
LEMMA FinishStep ==
  ASSUME IInv, NEW s \in DOMAIN sess, NEW st \in FinalStatuses \cup {"execution_uncertain"},
         Finish(s, st), UNCHANGED prov, calls' \subseteq calls,
         Disowned \subseteq Disowned', Disowned' \subseteq DOMAIN sess,
         \/ st \in {"failed", "expired"}
         \/ sess[s].known /\ (sess[s].executed \/ sess[s].status \notin {"failed", "expired"}),
         st = "completed" => ~Over(s),
         st \in {"failed", "expired"} => Over(s)' \/ s \in Disowned'
  PROVE  IInv'
<1>1. st \in SessionStatuses /\ sess' = [sess EXCEPT ![s].status = st]
  BY DEF SessionStatuses, Finish, Becomes
<1>2. WellFormed
  BY DEF IInv
<1>3. CASE st = "completed"
  BY <1>1, <1>3, StatusStep DEF Finish, Write
<1>4. CASE st \in {"failed", "expired"}
  BY <1>1, <1>4, StatusStep DEF Finish, Write
<1>5. CASE st = "execution_uncertain"
  <2>1. UNCHANGED journal
    BY <1>5 DEF Finish
  <2>2. rows' = rows /\ refunded' = Total(rows', "completed") /\ reserved' = Total(rows', "pending")
    BY <1>2, <2>1, Facts DEF journal
  <2> QED BY <1>1, <1>5, <2>2, StatusStep
<1> QED BY <1>3, <1>4, <1>5 DEF FinalStatuses

LEMMA BecomesStep ==
  ASSUME IInv, NEW s \in DOMAIN sess, NEW st \in SessionStatuses, sess[s].known,
         sess[s].executed \/ sess[s].status \notin {"failed", "expired"},
         Becomes(s, st), UNCHANGED <<journal, prov>>, calls' \subseteq calls,
         Disowned \subseteq Disowned', Disowned' \subseteq DOMAIN sess
  PROVE  IInv'
<1>1. WellFormed
  BY DEF IInv
<1>2. rows' = rows /\ refunded' = Total(rows', "completed") /\ reserved' = Total(rows', "pending")
  BY <1>1, Facts DEF journal
<1> QED BY <1>2, StatusStep DEF Becomes

\* The journal's part of the invariant, when the journal stays.
LEMMA Quiet ==
  ASSUME IInv, UNCHANGED journal,
         sess' \in Seq(SessRows(DOMAIN rows)), DOMAIN sess' = DOMAIN sess,
         \A t \in DOMAIN sess : sess'[t].row = sess[t].row,
         calls' \subseteq [s : DOMAIN sess, pc : Steps],
         DOMAIN prov' \subseteq DOMAIN sess, prov' \in [DOMAIN prov' -> ProvRows],
         Disowned \subseteq Disowned', Disowned' \subseteq DOMAIN sess,
         \A t \in DOMAIN sess \ Disowned' : Over(t) => Over(t)'
  PROVE  WellFormed' /\ OwnRows' /\ GivenUpIsOver' /\ Balanced'
<1>1. WellFormed /\ rows' = rows /\ refunded' = refunded /\ reserved' = reserved
  BY DEF IInv, journal
<1>2. WellFormed'
  BY <1>1, Facts, Assembled
<1>3. OwnRows'
  BY <1>1 DEF IInv, OwnRows
<1>4. GivenUpIsOver'
  <2>1. ASSUME NEW t \in DOMAIN sess \ Disowned', rows[sess[t].row].status = "failed"
        PROVE  Over(t)'
    BY <2>1 DEF IInv, GivenUpIsOver
  <2> QED BY <1>1, <2>1 DEF GivenUpIsOver
<1>5. LostRows \subseteq LostRows'
  BY <1>1, Facts DEF LostRows
<1>6. Balanced'
  BY <1>1, <1>5, Facts, BalanceKept DEF IInv
<1> QED BY <1>2, <1>3, <1>4, <1>6

LEMMA NothingStep ==
  ASSUME IInv, UNCHANGED <<journal, sess, prov>>, calls' \subseteq calls,
         Disowned \subseteq Disowned', Disowned' \subseteq DOMAIN sess
  PROVE  IInv'
<1>1. WellFormed /\ sess' = sess /\ prov' = prov
  BY DEF IInv
<1>2. LinkedOnce' /\ ProviderTrue' /\ ExecutedOnce'
  BY <1>1 DEF IInv, LinkedOnce, ProviderTrue, ExecutedOnce
<1>3. \A t \in DOMAIN sess : Over(t) => Over(t)'
  BY <1>1 DEF Over, InFlight
<1>4. /\ sess' \in Seq(SessRows(DOMAIN rows)) /\ calls' \subseteq [s : DOMAIN sess, pc : Steps]
      /\ DOMAIN prov' \subseteq DOMAIN sess /\ prov' \in [DOMAIN prov' -> ProvRows]
  BY <1>1, Facts
<1>5. WellFormed' /\ OwnRows' /\ GivenUpIsOver' /\ Balanced'
  BY <1>1, <1>3, <1>4, Quiet
<1> QED BY <1>2, <1>5 DEF IInv

\* apply_qr_refund_snapshot of a status the session has, or has had.
LEMMA SnapshotStep ==
  ASSUME IInv, NEW s \in DOMAIN sess, sess[s].known, NEW st \in SessionStatuses,
         ApplySnapshot(s, st), UNCHANGED prov, calls' \subseteq calls,
         Disowned \subseteq Disowned', Disowned' \subseteq DOMAIN sess,
         st \in FinalStatuses => prov[s].status = st,
         (st = "customer_identified" /\ Active(s) /\ sess[s].settled /\ prov[s].status \in Moving)
           => s \in Disowned'
  PROVE  IInv'
<1>1. WellFormed /\ s \in DOMAIN prov
  BY DEF IInv, LinkedOnce
<1>2. Resolves(s, st) => sess[s].status \notin {"failed", "expired"}
  BY DEF Resolves, Active, ActiveStatuses
<1>3. CASE UNCHANGED <<journal, sess>>
  BY <1>3, NothingStep
<1>4. CASE /\ st \in FinalStatuses \cup {"execution_uncertain"} /\ Finish(s, st)
           /\ Resolves(s, st)
  <2>1. st = "completed" => ~Over(s)
    BY <1>1 DEF FinalStatuses, Over, Moving
  <2>2. st \in {"failed", "expired"} => Over(s)'
    BY <1>1 DEF FinalStatuses, Over, InFlight
  <2> QED BY <1>2, <1>4, <2>1, <2>2, FinishStep
<1>5. CASE /\ st = "customer_identified" /\ sess[s].executed /\ sess[s].settled
           /\ Finish(s, "failed") /\ Active(s)
  <2>1. \A c \in calls : c.s = s => c.pc \notin ExecuteSteps
    BY <1>5 DEF IInv, ExecutedOnce
  <2>2. sess' = [sess EXCEPT ![s].status = "failed"]
    BY <1>5 DEF Finish, Becomes
  <2>3. sess'[s].executed
    BY <1>1, <1>5, <2>2, StatusOf DEF SessionStatuses, FinalStatuses
  <2>4. Over(s)' \/ s \in Disowned'
    BY <1>1, <1>5, <2>1, <2>3 DEF Over, InFlight, ExecuteSteps
  <2> QED BY <1>5, <2>4, FinishStep DEF FinalStatuses
<1>6. CASE Becomes(s, st) /\ UNCHANGED journal /\ Resolves(s, st)
  BY <1>2, <1>6, BecomesStep
<1>7. (Resolves(s, st) /\ st = "customer_identified") => Active(s)
  BY DEF Resolves, FinalStatuses
<1> QED BY <1>3, <1>4, <1>5, <1>6, <1>7 DEF ApplySnapshot


-----------------------------------------------------------------------------
(* A new row of the journal, with or without a session. *)

LEMMA RoomForMore ==
  ASSUME WellFormed, NEW a, Refundable(a)
  PROVE  a \in Nat /\ refunded + reserved + a <= Paid
<1>1. refunded \in Nat /\ reserved \in Nat
  BY Facts, TotalsAreBalance
<1>2. a \in Nat /\ a <= Available /\ Paid \in Nat
  BY JournalAssumption DEF Refundable
<1>3. a = 0 \/ Available > 0
  <2>1. Available \in Nat
    BY <1>1, <1>2 DEF Available, Minus
  <2> QED BY <1>2, <2>1
<1> QED BY <1>1, <1>2, <1>3, JournalAssumption DEF Refundable, Available, Minus

LEMMA RowAppended ==
  ASSUME WellFormed, NEW a, Refundable(a),
         NEW r \in RefundRows({"apipay_qr", "cash"}, {0}), r.amount = a, r.status # "failed",
         Write(Append(rows, r)), LostRows' = LostRows
  PROVE  /\ rows' \in JournalRows /\ DOMAIN rows' = DOMAIN rows \cup {Len(rows) + 1}
         /\ Len(rows) + 1 \notin DOMAIN rows /\ rows'[Len(rows) + 1] = r
         /\ \A i \in DOMAIN rows : rows'[i] = rows[i]
         /\ refunded' = Total(rows', "completed") /\ reserved' = Total(rows', "pending")
         /\ Balanced'
<1>1. rows \in JournalRows /\ Len(rows) \in Nat /\ DOMAIN rows = 1..Len(rows)
  BY Facts
<1>2. rows' = Append(rows, r) /\ refunded' = Total(rows', "completed")
      /\ reserved' = Total(rows', "pending")
  BY DEF Write
<1>3. /\ rows' \in JournalRows /\ DOMAIN rows' = DOMAIN rows \cup {Len(rows) + 1}
      /\ Len(rows) + 1 \notin DOMAIN rows /\ rows'[Len(rows) + 1] = r
      /\ \A i \in DOMAIN rows : rows'[i] = rows[i]
  <2> DEFINE R == RefundRows({"apipay_qr", "cash"}, {0})
  <2>1. rows \in Seq(R) /\ r \in R
    BY <1>1 DEF JournalRows
  <2> HIDE DEF R
  <2>2. /\ rows' \in Seq(R) /\ DOMAIN rows' = DOMAIN rows \cup {Len(rows) + 1}
        /\ Len(rows) + 1 \notin DOMAIN rows /\ rows'[Len(rows) + 1] = r
        /\ \A i \in DOMAIN rows : rows'[i] = rows[i]
    BY <1>1, <1>2, <2>1
  <2> QED BY <2>2 DEF R, JournalRows
<1>4. Len(rows) + 1 \notin LostRows
  BY <1>1, Facts DEF LostRows
<1> DEFINE rs == Without(rows, LostRows)
           rt == Without(rows', LostRows')
<1>5. rs \in JournalRows /\ DOMAIN rs = DOMAIN rows /\ Balance(rs) \in Nat
      /\ Balance(rs) <= Balance(rows)
  <2>1. /\ rs \in JournalRows /\ DOMAIN rs = DOMAIN rows
        /\ \A i \in DOMAIN rows : /\ rs[i].amount = rows[i].amount
                                  /\ rows[i].status = "failed" => rs[i].status = "failed"
    BY <1>1, WithoutFacts
  <2> HIDE DEF rs
  <2>2. Balance(rs) <= Balance(rows)
    BY <1>1, <2>1, RowFacts, WeightsAtMost DEF Balance
  <2>3. Balance(rs) \in Nat
    BY <2>1, TotalsAreBalance
  <2> QED BY <2>1, <2>2, <2>3
<1>6. rt = Append(rs, r)
  <2> DEFINE R == RefundRows({"apipay_qr", "cash"}, {0})
  <2>1. rs \in Seq(R) /\ r \in R /\ Len(rs) = Len(rows)
    BY <1>1, <1>5 DEF JournalRows
  <2>2. rt = [i \in DOMAIN rows' |-> IF i \in LostRows THEN [rows'[i] EXCEPT !.status = "failed"]
                                     ELSE rows'[i]]
    BY DEF Without
  <2>3. rs = [i \in DOMAIN rows |-> IF i \in LostRows THEN [rows[i] EXCEPT !.status = "failed"]
                                    ELSE rows[i]]
    BY DEF Without
  <2> HIDE DEF R, rs, rt
  <2> DEFINE ap == Append(rs, r)
  <2>4. /\ ap \in Seq(R) /\ Len(ap) = Len(rows) + 1 /\ ap[Len(rows) + 1] = r
        /\ \A i \in 1..Len(rows) : ap[i] = rs[i]
    BY <2>1, AppendProperties
  <2> HIDE DEF ap
  <2>5. ap = [i \in DOMAIN rows' |-> ap[i]]
    BY <1>1, <1>3, <2>4
  <2>6. \A i \in DOMAIN rows' :
          ap[i] = IF i \in LostRows THEN [rows'[i] EXCEPT !.status = "failed"] ELSE rows'[i]
    BY <1>1, <1>3, <1>4, <2>3, <2>4
  <2>7. rt = ap
    BY <2>2, <2>5, <2>6
  <2> QED BY <2>7 DEF ap
<1>7. Balance(rt) = Balance(rs) + a
  BY <1>5, <1>6, BalanceAppend
<1>8. /\ refunded \in Nat /\ reserved \in Nat /\ refunded + reserved = Balance(rows)
  BY Facts, TotalsAreBalance
<1>9. a \in Nat /\ refunded + reserved + a <= Paid /\ Paid \in Nat
  BY RoomForMore, JournalAssumption
<1>10. Balance(rt) <= Paid
  BY <1>5, <1>7, <1>8, <1>9
<1>11. Balanced'
  BY <1>3, <1>10, BalancedIs, OwnedIs DEF Balanced
<1> QED BY <1>2, <1>3, <1>11

LEMMA PayCashStep ==
  ASSUME IInv, NEW a, PayCash(a)
  PROVE  IInv'
<1> DEFINE r == NewRow("cash", "completed", a, 0)
           n == Len(rows) + 1
<1>1. WellFormed /\ Refundable(a) /\ a \in Nat
  BY RoomForMore DEF IInv, PayCash, CashRefund
<1>2. r \in RefundRows({"apipay_qr", "cash"}, {0}) /\ r.amount = a /\ r.status # "failed"
  BY <1>1 DEF NewRow, RefundRows, RefundStatuses
<1>3. Write(Append(rows, r)) /\ UNCHANGED <<sess, calls, prov>> /\ Disowned' = Disowned
  BY DEF PayCash, CashRefund, history, Disowned
<1>4. r.method = "cash" /\ r.status = "completed"
  BY DEF NewRow
<1> HIDE DEF r
<1>5. /\ rows' \in JournalRows /\ DOMAIN rows' = DOMAIN rows \cup {n} /\ n \notin DOMAIN rows
      /\ rows'[n] = r /\ \A i \in DOMAIN rows : rows'[i] = rows[i]
      /\ refunded' = Total(rows', "completed") /\ reserved' = Total(rows', "pending")
      /\ Balanced'
  <2>1. LostRows' = LostRows
    BY <1>3 DEF LostRows
  <2> QED BY <1>1, <1>2, <1>3, <2>1, RowAppended
<1> HIDE DEF n
<1>6. WellFormed'
  <2> DEFINE S == SessRows(DOMAIN rows)
             T == SessRows(DOMAIN rows')
  <2>1. S \subseteq T /\ sess \in Seq(S)
    BY <1>1, <1>5, Facts DEF SessRows
  <2> HIDE DEF S, T
  <2>2. sess \in Seq(T)
    BY <2>1
  <2> QED BY <1>1, <1>3, <1>5, <2>2, Facts, Assembled DEF T
<1>7. \A s \in DOMAIN sess' : sess'[s].row \in DOMAIN rows /\ rows'[sess'[s].row] = rows[sess[s].row]
  BY <1>1, <1>3, <1>5, Facts
<1>8. OwnRows'
  BY <1>3, <1>4, <1>5, <1>7 DEF IInv, OwnRows
<1>9. LinkedOnce' /\ ProviderTrue' /\ ExecutedOnce'
  BY <1>3 DEF IInv, LinkedOnce, ProviderTrue, ExecutedOnce
<1>10. GivenUpIsOver'
  BY <1>3, <1>7 DEF IInv, GivenUpIsOver, Over, InFlight
<1> QED BY <1>5, <1>6, <1>8, <1>9, <1>10 DEF IInv

LEMMA StartStep ==
  ASSUME IInv, NEW a, Start(a)
  PROVE  IInv'
<1> DEFINE r == NewRow("apipay_qr", "pending", a, 0)
           n == Len(rows) + 1
           m == Len(sess) + 1
           new == [row |-> n, status |-> "issuing", known |-> FALSE,
                   executed |-> FALSE, settled |-> FALSE]
<1>1. WellFormed /\ Refundable(a) /\ a \in Nat
  BY RoomForMore DEF IInv, Start
<1>2. r \in RefundRows({"apipay_qr", "cash"}, {0}) /\ r.amount = a /\ r.status # "failed"
  BY <1>1 DEF NewRow, RefundRows, RefundStatuses
<1>3. Write(Append(rows, r)) /\ sess' = Append(sess, new) /\ calls' = calls \cup {Call(m, "link")}
      /\ prov' = prov /\ Disowned' = Disowned
  BY DEF Start, history, Disowned
<1>4. r.method = "apipay_qr" /\ r.status = "pending"
  BY DEF NewRow
<1> HIDE DEF r
<1>5. \A s \in DOMAIN sess : sess'[s] = sess[s]
  <2>1. Len(sess) \in Nat /\ DOMAIN sess = 1..Len(sess) /\ sess \in Seq(SessRows(DOMAIN rows))
    BY <1>1, Facts
  <2> DEFINE U == SessRows(DOMAIN rows) \cup {new}
  <2>2. sess \in Seq(U) /\ new \in U
    BY <2>1
  <2> HIDE DEF U, new
  <2> QED BY <1>3, <2>1, <2>2
<1>6. /\ rows' \in JournalRows /\ DOMAIN rows' = DOMAIN rows \cup {n} /\ n \notin DOMAIN rows
      /\ rows'[n] = r /\ \A i \in DOMAIN rows : rows'[i] = rows[i]
      /\ refunded' = Total(rows', "completed") /\ reserved' = Total(rows', "pending")
      /\ Balanced'
  <2>1. LostRows' = LostRows
    <3>1. \A s \in DOMAIN sess : sess'[s] = sess[s]
      BY <1>5
    <3> QED BY <1>1, <1>3, <3>1, Facts DEF LostRows
  <2> QED BY <1>1, <1>2, <1>3, <2>1, RowAppended
<1> HIDE DEF n
<1>7. /\ sess' \in Seq(SessRows(DOMAIN rows')) /\ DOMAIN sess' = DOMAIN sess \cup {m}
      /\ m \notin DOMAIN sess /\ sess'[m] = new /\ \A s \in DOMAIN sess : sess'[s] = sess[s]
  <2> DEFINE S == SessRows(DOMAIN rows)
             T == SessRows(DOMAIN rows')
  <2>1. S \subseteq T /\ sess \in Seq(S) /\ new \in T /\ Len(sess) \in Nat
    BY <1>1, <1>6, Facts DEF SessRows, SessionStatuses, ActiveStatuses
  <2> HIDE DEF S, T, new
  <2>2. sess \in Seq(T)
    BY <2>1
  <2>3. /\ sess' \in Seq(T) /\ DOMAIN sess' = DOMAIN sess \cup {m}
        /\ m \notin DOMAIN sess /\ sess'[m] = new /\ \A s \in DOMAIN sess : sess'[s] = sess[s]
    BY <1>3, <2>1, <2>2
  <2> QED BY <2>3 DEF T
<1>8. \A s \in DOMAIN sess : sess[s].row \in DOMAIN rows /\ rows'[sess'[s].row] = rows[sess[s].row]
  BY <1>1, <1>6, <1>7, Facts
<1>9. /\ \A c \in calls : c.s \in DOMAIN sess /\ c.s # m
      /\ DOMAIN prov \subseteq DOMAIN sess /\ m \notin DOMAIN prov
      /\ Call(m, "link").s = m /\ Call(m, "link").pc = "link"
  BY <1>1, <1>7, Facts DEF Call
<1> HIDE DEF m
<1>10. WellFormed'
  <2>1. calls' \subseteq [s : DOMAIN sess', pc : Steps]
    <3>1. Call(m, "link") \in [s : DOMAIN sess', pc : Steps]
      BY <1>7 DEF Call, Steps
    <3>2. \A c \in calls : c \in [s : DOMAIN sess', pc : Steps]
      BY <1>1, <1>7, Facts
    <3> QED BY <1>3, <3>1, <3>2
  <2>2. DOMAIN prov' \subseteq DOMAIN sess' /\ prov' \in [DOMAIN prov' -> ProvRows]
    BY <1>1, <1>3, <1>7, Facts
  <2>3. Disowned' \subseteq DOMAIN sess'
    BY <1>1, <1>3, <1>7, Facts
  <2> QED BY <1>6, <1>7, <2>1, <2>2, <2>3, Assembled
<1>11. /\ new.row = n /\ new.status = "issuing" /\ new.known = FALSE /\ new.executed = FALSE
       /\ new.settled = FALSE
  OBVIOUS
<1> HIDE DEF new
<1>12. OwnRows'
  BY <1>4, <1>6, <1>7, <1>8, <1>11 DEF IInv, OwnRows
<1>13. LinkedOnce'
  <2>1. \A c, d \in calls' : (c.s = d.s /\ {c.pc, d.pc} \subseteq LinkSteps) => c = d
    BY <1>3, <1>9 DEF IInv, LinkedOnce
  <2>2. \A c \in calls' :
         /\ c.pc \in LinkSteps => ~sess'[c.s].known
         /\ c.pc = "link" => c.s \notin DOMAIN prov'
         /\ c.pc = "linked" => c.s \in DOMAIN prov'
         /\ c.pc \notin LinkSteps \cup {"revoke_unknown"} => sess'[c.s].known
    BY <1>3, <1>7, <1>9, <1>11 DEF IInv, LinkedOnce, LinkSteps
  <2>3. \A s \in DOMAIN sess' :
         IF sess'[s].known THEN s \in DOMAIN prov'
         ELSE sess'[s].status \in {"issuing", "failed", "expired"} /\ ~sess'[s].executed
    BY <1>3, <1>7, <1>11 DEF IInv, LinkedOnce
  <2> QED BY <2>1, <2>2, <2>3 DEF LinkedOnce
<1>14. ProviderTrue'
  BY <1>3, <1>7, <1>9 DEF IInv, ProviderTrue
<1>15. ExecutedOnce'
  BY <1>3, <1>7, <1>9, <1>11 DEF IInv, ExecutedOnce, ExecuteSteps
<1>16. GivenUpIsOver'
  <2>1. ASSUME NEW s \in DOMAIN sess \ Disowned', rows'[sess'[s].row].status = "failed"
        PROVE  Over(s)'
    <3>1. Over(s)
      BY <1>3, <1>8, <2>1 DEF IInv, GivenUpIsOver
    <3>2. s # m
      BY <1>7
    <3> QED BY <1>3, <1>7, <1>9, <3>1, <3>2 DEF Over, InFlight
  <2>2. rows'[sess'[m].row].status # "failed"
    BY <1>4, <1>6, <1>7, <1>11
  <2> QED BY <1>7, <2>1, <2>2 DEF GivenUpIsOver
<1> QED BY <1>6, <1>10, <1>12, <1>13, <1>14, <1>15, <1>16 DEF IInv


-----------------------------------------------------------------------------
(* Steps that leave the journal alone. *)

LEMMA RowReplaced ==
  ASSUME WellFormed, NEW s \in DOMAIN sess, NEW r \in SessRows(DOMAIN rows),
         sess' = [sess EXCEPT ![s] = r]
  PROVE  /\ sess' \in Seq(SessRows(DOMAIN rows)) /\ DOMAIN sess' = DOMAIN sess
         /\ \A t \in DOMAIN sess \ {s} : sess'[t] = sess[t]
         /\ sess'[s] = r
<1> DEFINE S == SessRows(DOMAIN rows)
<1>1. sess \in Seq(S) /\ r \in S
  BY Facts
<1> HIDE DEF S
<1>2. sess' \in Seq(S) /\ DOMAIN sess' = DOMAIN sess
  BY <1>1
<1> QED BY <1>2 DEF S

LEMMA LinkedRow ==
  ASSUME WellFormed, NEW s \in DOMAIN sess,
         sess' = [sess EXCEPT ![s].known = TRUE, ![s].status = "awaiting_customer"]
  PROVE  /\ sess' \in Seq(SessRows(DOMAIN rows)) /\ DOMAIN sess' = DOMAIN sess
         /\ \A t \in DOMAIN sess \ {s} : sess'[t] = sess[t]
         /\ sess'[s].status = "awaiting_customer" /\ sess'[s].row = sess[s].row /\ sess'[s].known
         /\ sess'[s].executed = sess[s].executed /\ sess'[s].settled = sess[s].settled
<1> DEFINE r == [sess[s] EXCEPT !.known = TRUE, !.status = "awaiting_customer"]
<1>1. sess[s] \in SessRows(DOMAIN rows)
  BY Facts
<1>2. r \in SessRows(DOMAIN rows)
  BY <1>1 DEF SessRows, SessionStatuses, ActiveStatuses
<1>3. /\ r.status = "awaiting_customer" /\ r.row = sess[s].row /\ r.known
      /\ r.executed = sess[s].executed /\ r.settled = sess[s].settled
  BY <1>1 DEF SessRows
<1>4. sess' = [sess EXCEPT ![s] = r]
  OBVIOUS
<1> HIDE DEF r
<1> QED BY <1>2, <1>3, <1>4, RowReplaced

LEMMA ExecutedRow ==
  ASSUME WellFormed, NEW s \in DOMAIN sess,
         sess' = [sess EXCEPT ![s].status = "executing", ![s].executed = TRUE]
  PROVE  /\ sess' \in Seq(SessRows(DOMAIN rows)) /\ DOMAIN sess' = DOMAIN sess
         /\ \A t \in DOMAIN sess \ {s} : sess'[t] = sess[t]
         /\ sess'[s].status = "executing" /\ sess'[s].row = sess[s].row /\ sess'[s].executed
         /\ sess'[s].known = sess[s].known /\ sess'[s].settled = sess[s].settled
<1> DEFINE r == [sess[s] EXCEPT !.status = "executing", !.executed = TRUE]
<1>1. sess[s] \in SessRows(DOMAIN rows)
  BY Facts
<1>2. r \in SessRows(DOMAIN rows)
  BY <1>1 DEF SessRows, SessionStatuses, ActiveStatuses
<1>3. /\ r.status = "executing" /\ r.row = sess[s].row /\ r.executed
      /\ r.known = sess[s].known /\ r.settled = sess[s].settled
  BY <1>1 DEF SessRows
<1>4. sess' = [sess EXCEPT ![s] = r]
  OBVIOUS
<1> HIDE DEF r
<1> QED BY <1>2, <1>3, <1>4, RowReplaced

LEMMA SettledSession ==
  ASSUME WellFormed, NEW s \in DOMAIN sess, sess' = [sess EXCEPT ![s].settled = TRUE]
  PROVE  /\ sess' \in Seq(SessRows(DOMAIN rows)) /\ DOMAIN sess' = DOMAIN sess
         /\ \A t \in DOMAIN sess \ {s} : sess'[t] = sess[t]
         /\ sess'[s].status = sess[s].status /\ sess'[s].row = sess[s].row /\ sess'[s].settled
         /\ sess'[s].known = sess[s].known /\ sess'[s].executed = sess[s].executed
<1> DEFINE r == [sess[s] EXCEPT !.settled = TRUE]
<1>1. sess[s] \in SessRows(DOMAIN rows)
  BY Facts
<1>2. r \in SessRows(DOMAIN rows)
  BY <1>1 DEF SessRows
<1>3. /\ r.status = sess[s].status /\ r.row = sess[s].row /\ r.settled
      /\ r.known = sess[s].known /\ r.executed = sess[s].executed
  BY <1>1 DEF SessRows
<1>4. sess' = [sess EXCEPT ![s] = r]
  OBVIOUS
<1> HIDE DEF r
<1> QED BY <1>2, <1>3, <1>4, RowReplaced

LEMMA TypedCalls ==
  ASSUME WellFormed
  PROVE  /\ calls \subseteq [s : DOMAIN sess, pc : Steps]
         /\ \A s \in DOMAIN sess, pc \in Steps :
              Call(s, pc) \in [s : DOMAIN sess, pc : Steps] /\ Call(s, pc).s = s /\ Call(s, pc).pc = pc
BY DEF WellFormed, Call

LEMMA MovedRow ==
  ASSUME WellFormed, NEW s \in DOMAIN prov, NEW st \in SessionStatuses, prov' = Moved(s, st)
  PROVE  /\ DOMAIN prov' = DOMAIN prov /\ prov' \in [DOMAIN prov -> ProvRows]
         /\ \A t \in DOMAIN prov \ {s} : prov'[t] = prov[t]
         /\ prov'[s].status = st /\ prov'[s].seen = prov[s].seen \cup {st}
         /\ prov'[s].money <=> (prov[s].money \/ st = "completed")
<1> DEFINE r == [status |-> st, seen |-> prov[s].seen \cup {st}, money |-> prov[s].money \/ st = "completed"]
<1>1. prov' = [prov EXCEPT ![s] = r]
  BY DEF Moved
<1>2. r \in ProvRows
  BY Facts DEF ProvRows
<1>3. r.status = st /\ r.seen = prov[s].seen \cup {st} /\ (r.money <=> (prov[s].money \/ st = "completed"))
  OBVIOUS
<1> HIDE DEF r
<1> QED BY <1>1, <1>2, <1>3, Facts


-----------------------------------------------------------------------------
(* The link. *)

LEMMA LinkPostedStep ==
  ASSUME IInv, NEW c, LinkPosted(c)
  PROVE  IInv'
<1> DEFINE s == c.s
           d == Call(s, "linked")
<1>1. /\ WellFormed /\ c \in calls /\ c.pc = "link" /\ s \in DOMAIN sess /\ s \notin DOMAIN prov
      /\ d.s = s /\ d.pc = "linked" /\ d \in [s : DOMAIN sess, pc : Steps]
  BY Facts, TypedCalls DEF IInv, LinkedOnce, LinkPosted, Steps
<1>2. /\ UNCHANGED <<journal, sess>> /\ calls' = (calls \ {c}) \cup {d}
      /\ DOMAIN prov' = DOMAIN prov \cup {s} /\ prov'[s] = NewSession
      /\ \A t \in DOMAIN prov : prov'[t] = prov[t]
      /\ prov' \in [DOMAIN prov' -> ProvRows]
  <2>1. NewSession \in ProvRows
    BY DEF NewSession, ProvRows, SessionStatuses, ActiveStatuses
  <2> QED BY <1>1, <2>1, Facts DEF LinkPosted, Goes
<1>3. Disowned' = Disowned /\ Disowned \subseteq DOMAIN sess
  BY <1>1, Facts DEF LinkPosted, history, Disowned
<1>4. /\ NewSession.status = "awaiting_customer" /\ NewSession.seen = {"awaiting_customer"}
      /\ NewSession.money = FALSE
  BY DEF NewSession
<1>5. ~sess[s].known /\ ~sess[s].executed /\ \A e \in calls : (e.s = s /\ e.pc \in LinkSteps) => e = c
  BY <1>1 DEF IInv, LinkedOnce, LinkSteps
<1> HIDE DEF d, s
<1>6. \A e \in calls' : e \in calls \/ e = d
  BY <1>2
<1>7. LinkedOnce'
  <2>1. \A e, g \in calls' : (e.s = g.s /\ {e.pc, g.pc} \subseteq LinkSteps) => e = g
    BY <1>1, <1>2, <1>5 DEF IInv, LinkedOnce
  <2>2. \A e \in calls' :
         /\ e.pc \in LinkSteps => ~sess'[e.s].known
         /\ e.pc = "link" => e.s \notin DOMAIN prov'
         /\ e.pc = "linked" => e.s \in DOMAIN prov'
         /\ e.pc \notin LinkSteps \cup {"revoke_unknown"} => sess'[e.s].known
    BY <1>1, <1>2, <1>5 DEF IInv, LinkedOnce, LinkSteps, s
  <2>3. \A t \in DOMAIN sess' : IF sess'[t].known THEN t \in DOMAIN prov'
                                ELSE sess'[t].status \in {"issuing", "failed", "expired"} /\ ~sess'[t].executed
    BY <1>2 DEF IInv, LinkedOnce
  <2> QED BY <2>1, <2>2, <2>3 DEF LinkedOnce
<1>8. ProviderTrue'
  BY <1>1, <1>2, <1>4 DEF IInv, ProviderTrue, FinalStatuses, Moving
<1>9. ExecutedOnce'
  <2>1. \A e \in calls : e.pc \notin LinkSteps \cup {"revoke_unknown"} => e.s \in DOMAIN prov
    BY <1>1, Facts DEF IInv, LinkedOnce
  <2>2. \A e \in calls' : e.pc \notin LinkSteps \cup {"revoke_unknown"} => e \in calls /\ prov'[e.s] = prov[e.s]
    BY <1>1, <1>2, <2>1 DEF LinkSteps
  <2>3. ExecuteSteps \cup {"revoked"} \subseteq Steps \ (LinkSteps \cup {"revoke_unknown"})
    BY DEF ExecuteSteps, LinkSteps, Steps, RevokeSteps
  <2>4. \A e, g \in calls' : (e.s = g.s /\ {e.pc, g.pc} \subseteq ExecuteSteps) => e = g
    BY <2>2, <2>3 DEF IInv, ExecutedOnce
  <2>5. \A e \in calls' :
         /\ e.pc \in ExecuteSteps => sess'[e.s].executed /\ ~sess'[e.s].settled
         /\ e.pc = "completed" => prov'[e.s].money
         /\ e.pc = "refused" => prov'[e.s].status \notin Moving
         /\ e.pc = "revoked" => prov'[e.s].status = "expired"
    BY <1>2, <2>2, <2>3 DEF IInv, ExecutedOnce, ExecuteSteps
  <2> QED BY <1>2, <2>4, <2>5 DEF IInv, ExecutedOnce
<1>10. \A t \in DOMAIN sess : Over(t) => Over(t)'
  BY <1>1, <1>2, <1>4, <1>5 DEF Over, InFlight, Moving
<1>11. calls' \subseteq [s : DOMAIN sess, pc : Steps]
  BY <1>1, <1>2, TypedCalls
<1>12. /\ DOMAIN prov' \subseteq DOMAIN sess /\ sess' \in Seq(SessRows(DOMAIN rows))
       /\ DOMAIN sess' = DOMAIN sess /\ \A t \in DOMAIN sess : sess'[t].row = sess[t].row
  BY <1>1, <1>2, Facts
<1>13. WellFormed' /\ OwnRows' /\ GivenUpIsOver' /\ Balanced'
  BY <1>2, <1>3, <1>10, <1>11, <1>12, Quiet
<1> QED BY <1>7, <1>8, <1>9, <1>13 DEF IInv

\* A session that was not executed is given up.
LEMMA GiveUpUnexecuted ==
  ASSUME IInv, NEW s \in DOMAIN sess, NEW st \in {"failed", "expired"}, ~sess[s].executed,
         Finish(s, st), UNCHANGED <<prov, history>>, calls' \subseteq calls
  PROVE  IInv'
<1>1. WellFormed /\ st \in SessionStatuses /\ Disowned' = Disowned
  BY DEF IInv, SessionStatuses, FinalStatuses, history, Disowned
<1>2. sess'[s].status = st
  BY <1>1, StatusOf DEF Finish, Becomes
<1>3. \A c \in calls : c.s = s => c.pc # "execute"
  BY DEF IInv, ExecutedOnce, ExecuteSteps
<1>4. s \in DOMAIN prov => prov[s].status \notin Moving
  BY <1>1, Facts DEF IInv, ProviderTrue
<1>5. Over(s)'
  BY <1>2, <1>3, <1>4 DEF Over, InFlight
<1>6. Disowned \subseteq DOMAIN sess
  BY <1>1, Facts
<1> QED BY <1>1, <1>5, <1>6, FinishStep DEF FinalStatuses

LEMMA LinkFailedStep ==
  ASSUME IInv, NEW c, LinkFailed(c)
  PROVE  IInv'
<1>1. /\ c \in calls /\ c.pc \in LinkSteps /\ c.s \in DOMAIN sess
      /\ calls' = calls \ {c} /\ UNCHANGED <<prov, history>> /\ Finish(c.s, "failed")
  BY Facts DEF IInv, LinkFailed, Ends, LinkSteps
<1>2. ~sess[c.s].executed
  BY <1>1 DEF IInv, LinkedOnce
<1> QED BY <1>1, <1>2, GiveUpUnexecuted

LEMMA IssuingStaleStep ==
  ASSUME IInv, NEW s, IssuingStale(s)
  PROVE  IInv'
<1>1. s \in DOMAIN sess /\ ~sess[s].executed
  BY DEF IInv, LinkedOnce, IssuingStale
<1> QED BY <1>1, GiveUpUnexecuted DEF IssuingStale

LEMMA LinkStoredStep ==
  ASSUME IInv, NEW c, LinkStored(c)
  PROVE  IInv'
<1> DEFINE s == c.s
<1>1. /\ WellFormed /\ c \in calls /\ c.pc = "linked" /\ s \in DOMAIN sess /\ s \in DOMAIN prov
      /\ calls' = calls \ {c} /\ UNCHANGED <<journal, prov>>
      /\ ~sess[s].known
  BY Facts DEF IInv, LinkedOnce, LinkStored, Ends, LinkSteps
<1>2. /\ sess' \in Seq(SessRows(DOMAIN rows)) /\ DOMAIN sess' = DOMAIN sess
      /\ \A t \in DOMAIN sess \ {s} : sess'[t] = sess[t]
      /\ sess'[s].status = "awaiting_customer" /\ sess'[s].row = sess[s].row /\ sess'[s].known
      /\ sess'[s].executed = sess[s].executed /\ sess'[s].settled = sess[s].settled
  BY <1>1, LinkedRow DEF LinkStored
<1>3. \A e \in calls' : e \in calls /\ (e.pc \in LinkSteps => e.s # s)
  BY <1>1 DEF IInv, LinkedOnce, LinkSteps
<1>4. /\ ~sess[s].executed
      /\ Disowned \subseteq Disowned' /\ Disowned' \subseteq DOMAIN sess
      /\ sess[s].status = "issuing" \/ s \in Disowned'
  BY <1>1, Facts DEF IInv, LinkedOnce, LinkStored, Disowned
<1> HIDE DEF s
<1>5. \A t \in DOMAIN sess : /\ sess'[t].row = sess[t].row
                             /\ sess'[t].executed = sess[t].executed
                             /\ sess'[t].settled = sess[t].settled
                             /\ sess[t].known => sess'[t].known
                             /\ t # s => sess'[t] = sess[t]
  BY <1>2
<1>6. \A e \in calls : e.s \in DOMAIN sess
  BY <1>1, Facts
<1>7. LinkedOnce'
  <2>1. \A e \in calls' :
         /\ e.pc \in LinkSteps => ~sess'[e.s].known
         /\ e.pc = "link" => e.s \notin DOMAIN prov'
         /\ e.pc = "linked" => e.s \in DOMAIN prov'
         /\ e.pc \notin LinkSteps \cup {"revoke_unknown"} => sess'[e.s].known
    BY <1>1, <1>3, <1>5, <1>6 DEF IInv, LinkedOnce
  <2>2. \A t \in DOMAIN sess' : IF sess'[t].known THEN t \in DOMAIN prov'
                                ELSE sess'[t].status \in {"issuing", "failed", "expired"} /\ ~sess'[t].executed
    BY <1>1, <1>2, <1>5 DEF IInv, LinkedOnce
  <2> QED BY <1>3, <2>1, <2>2 DEF IInv, LinkedOnce
<1>8. ProviderTrue'
  BY <1>1, <1>5, Facts DEF IInv, ProviderTrue
<1>9. ExecutedOnce'
  BY <1>1, <1>2, <1>3, <1>5, <1>6 DEF IInv, ExecutedOnce
<1>10. \A t \in DOMAIN sess \ Disowned' : Over(t) => Over(t)'
  <2>1. Over(s) => prov[s].status \in {"expired", "failed"} \/ s \in Disowned'
    BY <1>1, <1>4 DEF Over
  <2> QED BY <1>1, <1>5, <2>1 DEF Over, InFlight
<1>11. calls' \subseteq [s : DOMAIN sess, pc : Steps]
  BY <1>1, TypedCalls
<1>12. DOMAIN prov' \subseteq DOMAIN sess /\ prov' \in [DOMAIN prov' -> ProvRows]
  BY <1>1, Facts
<1>13. WellFormed' /\ OwnRows' /\ GivenUpIsOver' /\ Balanced'
  BY <1>1, <1>2, <1>4, <1>5, <1>10, <1>11, <1>12, Quiet
<1> QED BY <1>7, <1>8, <1>9, <1>13 DEF IInv


-----------------------------------------------------------------------------
(* Reading the session, executing it. *)

LEMMA RefreshStep ==
  ASSUME IInv, NEW s, Refresh(s)
  PROVE  IInv'
<1>1. s \in DOMAIN sess /\ sess[s].known /\ s \in DOMAIN prov /\ prov[s].status \in SessionStatuses
  BY Facts DEF IInv, LinkedOnce, Refresh
<1>2. ApplySnapshot(s, prov[s].status) /\ prov' = prov /\ calls' = calls
      /\ Disowned' = Disowned /\ Disowned \subseteq DOMAIN sess
  BY Facts DEF IInv, Refresh, history, Disowned
<1>3. prov[s].status = "customer_identified" => prov[s].status \notin Moving
  BY DEF Moving
<1> QED BY <1>1, <1>2, <1>3, SnapshotStep

LEMMA WebhookStep ==
  ASSUME IInv, NEW s, NEW status, Webhook(s, status)
  PROVE  IInv'
<1>1. /\ s \in DOMAIN sess /\ sess[s].known /\ s \in DOMAIN prov /\ status \in prov[s].seen
      /\ status \in SessionStatuses
  BY Facts DEF IInv, LinkedOnce, Webhook
<1>2. ApplySnapshot(s, status) /\ prov' = prov /\ calls' = calls
  BY DEF Webhook
<1>3. status \in FinalStatuses => prov[s].status = status
  BY <1>1 DEF IInv, ProviderTrue
<1>4. /\ Disowned \subseteq Disowned' /\ Disowned' \subseteq DOMAIN sess
      /\ (status = "customer_identified" /\ Active(s) /\ sess[s].settled /\ prov[s].status \in Moving)
           => s \in Disowned'
  BY <1>1, Facts DEF IInv, Webhook, Disowned
<1> QED BY <1>1, <1>2, <1>3, <1>4, SnapshotStep

LEMMA ExecuteStartStep ==
  ASSUME IInv, NEW s, ExecuteStart(s)
  PROVE  IInv'
<1> DEFINE d == Call(s, "execute")
<1>1. /\ WellFormed /\ s \in DOMAIN sess /\ sess[s].status = "customer_identified"
      /\ ~sess[s].executed /\ sess[s].known /\ s \in DOMAIN prov
      /\ d.s = s /\ d.pc = "execute" /\ d \in [s : DOMAIN sess, pc : Steps]
  BY TypedCalls DEF IInv, LinkedOnce, ExecuteStart, Steps
<1>2. /\ UNCHANGED <<journal, prov>> /\ calls' = calls \cup {d}
      /\ Disowned' = Disowned /\ Disowned \subseteq DOMAIN sess
  BY <1>1, Facts DEF ExecuteStart, history, Disowned
<1>3. /\ sess' \in Seq(SessRows(DOMAIN rows)) /\ DOMAIN sess' = DOMAIN sess
      /\ \A t \in DOMAIN sess \ {s} : sess'[t] = sess[t]
      /\ sess'[s].status = "executing" /\ sess'[s].row = sess[s].row /\ sess'[s].executed
      /\ sess'[s].known = sess[s].known /\ sess'[s].settled = sess[s].settled
  BY <1>1, ExecutedRow DEF ExecuteStart
<1>4. /\ ~sess[s].settled /\ prov[s].status \notin Moving
      /\ \A e \in calls : e.s = s => e.pc \notin ExecuteSteps /\ e.pc \notin LinkSteps
  BY <1>1 DEF IInv, ExecutedOnce, ProviderTrue, LinkedOnce
<1> HIDE DEF d
<1>5. \A t \in DOMAIN sess : /\ sess'[t].row = sess[t].row /\ sess'[t].known = sess[t].known
                             /\ sess'[t].settled = sess[t].settled
                             /\ sess[t].executed => sess'[t].executed
                             /\ t # s => sess'[t] = sess[t]
  BY <1>3
<1>6. \A e \in calls : e.s \in DOMAIN sess
  BY <1>1, Facts
<1>7. \A e \in calls' : e \in calls \/ e = d
  BY <1>2
<1>8. LinkedOnce'
  <2>1. \A e, g \in calls' : (e.s = g.s /\ {e.pc, g.pc} \subseteq LinkSteps) => e = g
    BY <1>1, <1>7 DEF IInv, LinkedOnce, LinkSteps
  <2>2. \A e \in calls' :
         /\ e.pc \in LinkSteps => ~sess'[e.s].known
         /\ e.pc = "link" => e.s \notin DOMAIN prov'
         /\ e.pc = "linked" => e.s \in DOMAIN prov'
         /\ e.pc \notin LinkSteps \cup {"revoke_unknown"} => sess'[e.s].known
    BY <1>1, <1>2, <1>4, <1>5, <1>6, <1>7 DEF IInv, LinkedOnce, LinkSteps
  <2>3. \A t \in DOMAIN sess' : IF sess'[t].known THEN t \in DOMAIN prov'
                                ELSE sess'[t].status \in {"issuing", "failed", "expired"} /\ ~sess'[t].executed
    BY <1>1, <1>2, <1>3, <1>5 DEF IInv, LinkedOnce
  <2> QED BY <2>1, <2>2, <2>3 DEF LinkedOnce
<1>9. ProviderTrue'
  BY <1>1, <1>2, <1>5, Facts DEF IInv, ProviderTrue
<1>10. ExecutedOnce'
  <2>1. \A e, g \in calls' : (e.s = g.s /\ {e.pc, g.pc} \subseteq ExecuteSteps) => e = g
    BY <1>1, <1>4, <1>7 DEF IInv, ExecutedOnce
  <2>2. \A e \in calls' :
         /\ e.pc \in ExecuteSteps => sess'[e.s].executed /\ ~sess'[e.s].settled
         /\ e.pc = "completed" => prov'[e.s].money
         /\ e.pc = "refused" => prov'[e.s].status \notin Moving
         /\ e.pc = "revoked" => prov'[e.s].status = "expired"
    BY <1>1, <1>2, <1>3, <1>4, <1>5, <1>6, <1>7 DEF IInv, ExecutedOnce
  <2>3. \A t \in DOMAIN sess' : sess'[t].settled => sess'[t].executed
    BY <1>3, <1>5 DEF IInv, ExecutedOnce
  <2> QED BY <2>1, <2>2, <2>3 DEF ExecutedOnce
<1>11. \A t \in DOMAIN sess : Over(t) => Over(t)'
  <2>1. Over(s) => prov[s].status \in {"expired", "failed"}
    BY <1>1 DEF Over
  <2> QED BY <1>1, <1>2, <1>5, <2>1 DEF Over, InFlight
<1>12. calls' \subseteq [s : DOMAIN sess, pc : Steps]
  BY <1>1, <1>2, TypedCalls
<1>13. DOMAIN prov' \subseteq DOMAIN sess /\ prov' \in [DOMAIN prov' -> ProvRows]
  BY <1>1, <1>2, Facts
<1>14. WellFormed' /\ OwnRows' /\ GivenUpIsOver' /\ Balanced'
  BY <1>2, <1>3, <1>5, <1>11, <1>12, <1>13, Quiet
<1> QED BY <1>8, <1>9, <1>10, <1>14 DEF IInv

LEMMA ExecuteAnsweredStep ==
  ASSUME IInv, NEW c, ExecuteAnswered(c)
  PROVE  IInv'
<1> DEFINE s == c.s
<1>1. /\ WellFormed /\ c \in calls /\ c.pc \in {"completed", "refused", "accepted"}
      /\ s \in DOMAIN sess /\ calls' = calls \ {c} /\ prov' = prov
      /\ Disowned' = Disowned /\ Disowned \subseteq DOMAIN sess
  BY Facts DEF IInv, ExecuteAnswered, Ends, history, Disowned
<1>2. /\ sess[s].known /\ sess[s].executed /\ s \in DOMAIN prov
      /\ \A e \in calls' : e.s = s => e.pc \notin LinkSteps \cup {"execute"}
  BY <1>1 DEF IInv, LinkedOnce, ExecutedOnce, ExecuteSteps, LinkSteps
<1>3. CASE c.pc = "completed" /\ Finish(s, "completed")
  <2>1. ~Over(s)
    BY <1>1, <1>2, <1>3 DEF IInv, ExecutedOnce, ProviderTrue, Over, Moving
  <2> QED BY <1>1, <1>2, <1>3, <2>1, FinishStep DEF FinalStatuses
<1>4. CASE c.pc = "refused" /\ Finish(s, "failed")
  <2>1. sess'[s].executed = sess[s].executed
    BY <1>1, <1>4, StatusOf DEF Finish, Becomes, SessionStatuses, FinalStatuses
  <2>2. Over(s)'
    BY <1>1, <1>2, <1>4, <2>1 DEF IInv, ExecutedOnce, Over, InFlight
  <2> QED BY <1>1, <1>2, <1>4, <2>2, FinishStep DEF FinalStatuses
<1>5. CASE c.pc = "accepted" /\ Finish(s, "execution_uncertain")
  BY <1>1, <1>2, <1>5, FinishStep DEF FinalStatuses
<1> QED BY <1>3, <1>4, <1>5 DEF ExecuteAnswered

LEMMA CallDiesStep ==
  ASSUME IInv, NEW c, CallDies(c)
  PROVE  IInv'
<1>1. Disowned' = Disowned /\ Disowned \subseteq DOMAIN sess
  BY Facts DEF IInv, CallDies, history, Disowned
<1> QED BY <1>1, NothingStep DEF CallDies, Ends

LEMMA SettleDelayStep ==
  ASSUME IInv, NEW s, SettleDelay(s)
  PROVE  IInv'
<1>1. /\ WellFormed /\ s \in DOMAIN sess /\ sess[s].executed /\ ~InFlight(s, ExecuteSteps)
      /\ UNCHANGED <<journal, calls, prov>>
  BY DEF IInv, SettleDelay, ExecuteSteps
<1>2. /\ sess' \in Seq(SessRows(DOMAIN rows)) /\ DOMAIN sess' = DOMAIN sess
      /\ \A t \in DOMAIN sess \ {s} : sess'[t] = sess[t]
      /\ sess'[s].status = sess[s].status /\ sess'[s].row = sess[s].row /\ sess'[s].settled
      /\ sess'[s].known = sess[s].known /\ sess'[s].executed = sess[s].executed
  BY <1>1, SettledSession DEF SettleDelay
<1>3. \A t \in DOMAIN sess : /\ sess'[t].row = sess[t].row /\ sess'[t].known = sess[t].known
                             /\ sess'[t].executed = sess[t].executed
                             /\ sess'[t].status = sess[t].status
                             /\ t # s => sess'[t].settled = sess[t].settled
  BY <1>2
<1>4. /\ \A e \in calls : e.s \in DOMAIN sess
      /\ DOMAIN prov \subseteq DOMAIN sess /\ prov \in [DOMAIN prov -> ProvRows]
      /\ calls \subseteq [s : DOMAIN sess, pc : Steps]
      /\ Disowned' = Disowned /\ Disowned \subseteq DOMAIN sess
  BY <1>1, Facts DEF SettleDelay, history, Disowned
<1>5. LinkedOnce' /\ ProviderTrue'
  BY <1>1, <1>2, <1>3, <1>4 DEF IInv, LinkedOnce, ProviderTrue
<1>6. ExecutedOnce'
  BY <1>1, <1>2, <1>3, <1>4 DEF IInv, ExecutedOnce, InFlight
<1>7. \A t \in DOMAIN sess : Over(t) => Over(t)'
  BY <1>1, <1>3 DEF Over, InFlight
<1>8. WellFormed' /\ OwnRows' /\ GivenUpIsOver' /\ Balanced'
  BY <1>1, <1>2, <1>3, <1>4, <1>7, Quiet
<1> QED BY <1>5, <1>6, <1>8 DEF IInv


-----------------------------------------------------------------------------
(* The provider. *)

\* A request goes on, or ends; no link is involved.
LEMMA CallGoesOn ==
  ASSUME IInv, NEW c \in calls, NEW pc \in Steps \ LinkSteps, sess[c.s].known \/ pc = "revoke_unknown",
         \/ Ends(c) \/ Goes(c, pc),
         UNCHANGED <<sess>>, DOMAIN prov' = DOMAIN prov
  PROVE  /\ LinkedOnce' /\ calls' \subseteq [s : DOMAIN sess, pc : Steps]
         /\ \A e \in calls' : \/ e \in calls \ {c}
                              \/ e.s = c.s /\ e.pc = pc /\ e = Call(c.s, pc)
         /\ \A s : InFlight(s, LinkSteps)' => InFlight(s, LinkSteps)
<1> DEFINE d == Call(c.s, pc)
<1>1. WellFormed /\ d.s = c.s /\ d.pc = pc /\ d \in [s : DOMAIN sess, pc : Steps]
  BY Facts, TypedCalls DEF IInv
<1>2. \A e \in calls' : e \in calls \ {c} \/ e = d
  BY DEF Ends, Goes
<1> HIDE DEF d
<1>3. LinkedOnce'
  <2>1. \A e, g \in calls' : (e.s = g.s /\ {e.pc, g.pc} \subseteq LinkSteps) => e = g
    BY <1>1, <1>2 DEF IInv, LinkedOnce
  <2>2. \A e \in calls' :
         /\ e.pc \in LinkSteps => ~sess'[e.s].known
         /\ e.pc = "link" => e.s \notin DOMAIN prov'
         /\ e.pc = "linked" => e.s \in DOMAIN prov'
         /\ e.pc \notin LinkSteps \cup {"revoke_unknown"} => sess'[e.s].known
    BY <1>1, <1>2 DEF IInv, LinkedOnce, LinkSteps
  <2>3. \A t \in DOMAIN sess' : IF sess'[t].known THEN t \in DOMAIN prov'
                                ELSE sess'[t].status \in {"issuing", "failed", "expired"} /\ ~sess'[t].executed
    BY DEF IInv, LinkedOnce
  <2> QED BY <2>1, <2>2, <2>3 DEF LinkedOnce
<1>4. calls' \subseteq [s : DOMAIN sess, pc : Steps]
  BY <1>1, <1>2, TypedCalls
<1>5. \A s : InFlight(s, LinkSteps)' => InFlight(s, LinkSteps)
  BY <1>1, <1>2 DEF InFlight
<1> QED BY <1>1, <1>2, <1>3, <1>4, <1>5 DEF d

LEMMA QuietSession ==
  ASSUME IInv, UNCHANGED <<journal, sess, history>>, LinkedOnce', ProviderTrue', ExecutedOnce',
         calls' \subseteq [s : DOMAIN sess, pc : Steps],
         DOMAIN prov' = DOMAIN prov, prov' \in [DOMAIN prov -> ProvRows],
         \A t \in DOMAIN sess : Over(t) => Over(t)'
  PROVE  IInv'
<1>1. WellFormed
  BY DEF IInv
<1>2. /\ sess' \in Seq(SessRows(DOMAIN rows)) /\ DOMAIN sess' = DOMAIN sess
      /\ \A t \in DOMAIN sess : sess'[t].row = sess[t].row
      /\ DOMAIN prov' \subseteq DOMAIN sess
      /\ Disowned' = Disowned /\ Disowned \subseteq DOMAIN sess
  BY <1>1, Facts DEF history, Disowned
<1>3. WellFormed' /\ OwnRows' /\ GivenUpIsOver' /\ Balanced'
  BY <1>2, Quiet
<1> QED BY <1>3 DEF IInv

LEMMA ProviderTrueStep ==
  ASSUME IInv, NEW s \in DOMAIN prov, NEW st \in SessionStatuses, prov' = Moved(s, st),
         UNCHANGED sess, prov[s].status \notin FinalStatuses, st \in Moving => sess[s].executed
  PROVE  ProviderTrue'
<1>1. WellFormed /\ prov[s].seen \cap FinalStatuses = {} /\ ~prov[s].money
  BY Facts DEF IInv, ProviderTrue, FinalStatuses
<1>2. /\ DOMAIN prov' = DOMAIN prov
      /\ \A t \in DOMAIN prov \ {s} : prov'[t] = prov[t]
      /\ prov'[s].status = st /\ prov'[s].seen = prov[s].seen \cup {st}
      /\ prov'[s].money <=> (prov[s].money \/ st = "completed")
  BY <1>1, MovedRow
<1> QED BY <1>1, <1>2 DEF IInv, ProviderTrue

LEMMA PathsAre ==
  ASSUME NEW from \in DOMAIN Paths, NEW to \in Paths[from]
  PROVE  /\ from \in {"awaiting_customer", "opened", "customer_identified", "executing",
                      "execution_uncertain"}
         /\ from \notin FinalStatuses
         /\ from \in {"executing", "execution_uncertain"}
              \/ to \in {"opened", "customer_identified", "expired"}
         /\ from \in {"executing", "execution_uncertain"}
              => to \in {"completed", "failed", "execution_uncertain"}
BY DEF Paths, FinalStatuses

LEMMA ProviderMovesStep ==
  ASSUME IInv, NEW s, NEW st \in SessionStatuses, ProviderMoves(s, st)
  PROVE  IInv'
<1>1. /\ WellFormed /\ s \in DOMAIN prov /\ prov' = Moved(s, st)
      /\ UNCHANGED <<journal, sess, calls, history>>
  BY DEF IInv, ProviderMoves
<1>2. /\ prov[s].status \notin FinalStatuses
      /\ \/ prov[s].status \in {"executing", "execution_uncertain"}
              /\ st \in {"completed", "failed", "execution_uncertain"}
         \/ prov[s].status \in {"awaiting_customer", "opened", "customer_identified"}
              /\ st \in {"opened", "customer_identified", "expired"}
  BY PathsAre DEF ProviderMoves
<1>3. st \in Moving => sess[s].executed
  BY <1>1, <1>2 DEF IInv, ProviderTrue, Moving
<1>4. ProviderTrue'
  BY <1>1, <1>2, <1>3, ProviderTrueStep
<1>5. /\ DOMAIN prov' = DOMAIN prov /\ prov' \in [DOMAIN prov -> ProvRows]
      /\ \A t \in DOMAIN prov \ {s} : prov'[t] = prov[t]
      /\ prov'[s].status = st
      /\ prov'[s].money <=> (prov[s].money \/ st = "completed")
  BY <1>1, MovedRow
<1>6. LinkedOnce'
  BY <1>1, <1>5 DEF IInv, LinkedOnce
<1>7. ExecutedOnce'
  <2>1. \A e \in calls' :
         /\ e.pc = "completed" => prov'[e.s].money
         /\ e.pc = "refused" => prov'[e.s].status \notin Moving
         /\ e.pc = "revoked" => prov'[e.s].status = "expired"
    <3>1. ASSUME NEW e \in calls, e.pc \in {"completed", "refused", "revoked"}
          PROVE  /\ e.pc = "completed" => prov'[e.s].money
                 /\ e.pc = "refused" => prov'[e.s].status \notin Moving
                 /\ e.pc = "revoked" => prov'[e.s].status = "expired"
      <4>1. e.s \in DOMAIN prov
        BY <1>1, <3>1, Facts DEF IInv, LinkedOnce, LinkSteps
      <4>2. CASE e.s # s
        BY <1>5, <4>1, <4>2 DEF IInv, ExecutedOnce
      <4>3. CASE e.s = s
        BY <1>2, <1>5, <4>3 DEF IInv, ExecutedOnce, Moving, FinalStatuses
      <4> QED BY <4>2, <4>3
    <3> QED BY <1>1, <3>1
  <2> QED BY <1>1, <2>1 DEF IInv, ExecutedOnce
<1>8. \A t \in DOMAIN sess : Over(t) => Over(t)'
  <2>1. ASSUME NEW t \in DOMAIN sess, Over(t), t # s
        PROVE  Over(t)'
    BY <1>1, <1>5, <2>1 DEF Over, InFlight
  <2>2. ASSUME Over(s)
        PROVE  Over(s)'
    <3>1. prov[s].status \notin {"expired", "failed"}
      BY <1>2 DEF FinalStatuses
    <3>2. st \notin Moving
      BY <1>1, <1>2, <2>2, <3>1 DEF Over, Moving
    <3> QED BY <1>1, <1>5, <2>2, <3>1, <3>2 DEF Over, InFlight
  <2> QED BY <2>1, <2>2
<1>9. calls' \subseteq [s : DOMAIN sess, pc : Steps]
  BY <1>1, TypedCalls
<1> QED BY <1>1, <1>4, <1>5, <1>6, <1>7, <1>8, <1>9, QuietSession

LEMMA ExecutedStep ==
  ASSUME IInv, NEW c, Executed(c)
  PROVE  IInv'
<1> DEFINE s == c.s
<1>1. /\ WellFormed /\ c \in calls /\ c.pc = "execute" /\ s \in DOMAIN sess
      /\ UNCHANGED <<journal, sess, history>>
      /\ sess[s].known /\ sess[s].executed /\ ~sess[s].settled /\ s \in DOMAIN prov
  BY Facts DEF IInv, LinkedOnce, ExecutedOnce, Executed, LinkSteps, ExecuteSteps
<1>2. ASSUME NEW pc \in ExecuteSteps, Goes(c, pc), pc # "execute", DOMAIN prov' = DOMAIN prov,
             prov' \in [DOMAIN prov -> ProvRows], ProviderTrue',
             \A t \in DOMAIN prov \ {s} : prov'[t] = prov[t],
             pc = "completed" => prov'[s].money,
             pc = "refused" => prov'[s].status \notin Moving,
             prov[s].status \in {"expired", "failed"} => prov'[s].status = prov[s].status
      PROVE  IInv'
  <2>1. pc \in Steps \ LinkSteps /\ sess' = sess
    BY <1>1 DEF ExecuteSteps, Steps, LinkSteps
  <2>2. /\ LinkedOnce' /\ calls' \subseteq [s : DOMAIN sess, pc : Steps]
        /\ \A e \in calls' : \/ e \in calls \ {c}
                             \/ e.s = c.s /\ e.pc = pc /\ e = Call(c.s, pc)
        /\ \A t : InFlight(t, LinkSteps)' => InFlight(t, LinkSteps)
    BY <1>1, <1>2, <2>1, CallGoesOn
  <2>3. \A e \in calls \ {c} : e.s = s => e.pc \notin ExecuteSteps
    BY <1>1 DEF IInv, ExecutedOnce, ExecuteSteps
  <2>4. \A e, g \in calls' : (e.s = g.s /\ {e.pc, g.pc} \subseteq ExecuteSteps) => e = g
    BY <2>2, <2>3 DEF IInv, ExecutedOnce
  <2>5. ASSUME NEW e \in calls'
        PROVE  /\ e.pc \in ExecuteSteps => sess'[e.s].executed /\ ~sess'[e.s].settled
               /\ e.pc = "completed" => prov'[e.s].money
               /\ e.pc = "refused" => prov'[e.s].status \notin Moving
               /\ e.pc = "revoked" => prov'[e.s].status = "expired"
    <3>1. CASE e.s = s /\ e.pc = pc
      BY <1>1, <1>2, <3>1 DEF ExecuteSteps
    <3>2. CASE e \in calls \ {c} /\ e.pc \in ExecuteSteps \cup {"revoked"}
      <4>1. e.s \in DOMAIN prov
        BY <1>1, <3>2, Facts DEF IInv, LinkedOnce, LinkSteps, ExecuteSteps
      <4>2. CASE e.s = s
        BY <1>2, <2>3, <3>2, <4>2 DEF IInv, ExecutedOnce, ExecuteSteps
      <4>3. CASE e.s # s
        BY <1>1, <1>2, <3>2, <4>1, <4>3 DEF IInv, ExecutedOnce, ExecuteSteps
      <4> QED BY <4>2, <4>3
    <3> QED BY <2>2, <3>1, <3>2 DEF ExecuteSteps
  <2>6. ExecutedOnce'
    BY <1>1, <2>4, <2>5 DEF IInv, ExecutedOnce
  <2>7. \A t \in DOMAIN sess : Over(t) => Over(t)'
    <3>1. Over(s) => prov[s].status \in {"expired", "failed"}
      BY <1>1 DEF Over, InFlight
    <3>2. ASSUME NEW t \in DOMAIN sess, t # s
          PROVE  InFlight(t, {"execute"})' => InFlight(t, {"execute"})
      BY <2>2, <3>2 DEF InFlight
    <3> QED BY <1>1, <1>2, <2>2, <3>1, <3>2 DEF Over
  <2> QED BY <1>1, <1>2, <2>2, <2>6, <2>7, QuietSession
<1>3. ASSUME NEW st \in {"completed", "executing"}, prov[s].status = "customer_identified",
             prov' = Moved(s, st)
      PROVE  /\ ProviderTrue' /\ DOMAIN prov' = DOMAIN prov /\ prov' \in [DOMAIN prov -> ProvRows]
             /\ \A t \in DOMAIN prov \ {s} : prov'[t] = prov[t]
             /\ st = "completed" => prov'[s].money
  <2>1. st \in SessionStatuses /\ prov[s].status \notin FinalStatuses
    BY <1>3 DEF SessionStatuses, ActiveStatuses, FinalStatuses
  <2> QED BY <1>1, <1>3, <2>1, MovedRow, ProviderTrueStep
<1>4. ASSUME prov' = prov
      PROVE  ProviderTrue' /\ DOMAIN prov' = DOMAIN prov /\ prov' \in [DOMAIN prov -> ProvRows]
  BY <1>1, <1>4, Facts DEF IInv, ProviderTrue
<1>5. CASE prov[s].status = "customer_identified" /\ prov' = Moved(s, "completed") /\ Goes(c, "completed")
  BY <1>2, <1>3, <1>5 DEF ExecuteSteps
<1>6. CASE prov[s].status = "customer_identified" /\ prov' = Moved(s, "executing") /\ Goes(c, "accepted")
  BY <1>2, <1>3, <1>6 DEF ExecuteSteps
<1>7. CASE prov[s].status \in {"customer_identified", "expired", "failed"} /\ prov' = prov /\ Goes(c, "refused")
  BY <1>2, <1>4, <1>7 DEF ExecuteSteps, Moving
<1>8. CASE prov' = prov /\ Goes(c, "accepted")
  BY <1>2, <1>4, <1>8 DEF ExecuteSteps
<1> QED BY <1>5, <1>6, <1>7, <1>8 DEF Executed


-----------------------------------------------------------------------------
(* Revoking the link. *)

LEMMA RevokeCheckStep ==
  ASSUME IInv, NEW s, RevokeCheck(s)
  PROVE  IInv'
<1> DEFINE pc == IF sess[s].known THEN "revoke" ELSE "revoke_unknown"
           d == Call(s, pc)
<1>1. /\ WellFormed /\ s \in DOMAIN sess /\ calls' = calls \cup {d}
      /\ UNCHANGED <<journal, sess, prov, history>>
      /\ d.s = s /\ d.pc = pc /\ d \in [s : DOMAIN sess, pc : Steps]
  BY TypedCalls DEF IInv, RevokeCheck, Steps, RevokeSteps
<1>2. /\ pc \notin LinkSteps /\ pc \notin ExecuteSteps /\ pc # "revoked"
      /\ sess[s].known \/ pc = "revoke_unknown"
  BY DEF LinkSteps, ExecuteSteps
<1> HIDE DEF d, pc
<1>3. \A e \in calls' : e \in calls \/ e = d
  BY <1>1
<1>4. LinkedOnce'
  BY <1>1, <1>2, <1>3 DEF IInv, LinkedOnce, LinkSteps
<1>5. ProviderTrue'
  BY <1>1 DEF IInv, ProviderTrue
<1>6. ExecutedOnce'
  BY <1>1, <1>2, <1>3 DEF IInv, ExecutedOnce, ExecuteSteps
<1>7. \A t \in DOMAIN sess : Over(t) => Over(t)'
  BY <1>1, <1>2 DEF Over, InFlight, ExecuteSteps
<1>8. calls' \subseteq [s : DOMAIN sess, pc : Steps]
  BY <1>1, TypedCalls
<1>9. DOMAIN prov' = DOMAIN prov /\ prov' \in [DOMAIN prov -> ProvRows]
  BY <1>1, Facts
<1> QED BY <1>1, <1>4, <1>5, <1>6, <1>7, <1>8, <1>9, QuietSession

LEMMA RevokeAtProviderStep ==
  ASSUME IInv, NEW c, RevokeAtProvider(c)
  PROVE  IInv'
<1> DEFINE s == c.s
<1>1. /\ WellFormed /\ c \in calls /\ c.pc = "revoke" /\ s \in DOMAIN sess
      /\ UNCHANGED <<journal, sess, history>> /\ sess[s].known /\ s \in DOMAIN prov
      /\ Disowned' = Disowned /\ Disowned \subseteq DOMAIN sess
  BY Facts DEF IInv, LinkedOnce, RevokeAtProvider, LinkSteps, history, Disowned
<1>2. CASE Ends(c) /\ UNCHANGED prov
  BY <1>1, <1>2, NothingStep DEF Ends
<1>3. CASE /\ prov[s].status = "awaiting_customer"
           /\ prov' = Moved(s, "expired") /\ Goes(c, "revoked")
  <2>1. "expired" \in SessionStatuses /\ prov[s].status \notin FinalStatuses /\ "expired" \notin Moving
    BY <1>3 DEF SessionStatuses, FinalStatuses, Moving
  <2>2. ProviderTrue'
    BY <1>1, <1>3, <2>1, ProviderTrueStep
  <2>3. /\ DOMAIN prov' = DOMAIN prov /\ prov' \in [DOMAIN prov -> ProvRows]
        /\ \A t \in DOMAIN prov \ {s} : prov'[t] = prov[t]
        /\ prov'[s].status = "expired"
    BY <1>1, <1>3, <2>1, MovedRow
  <2>4. "revoked" \in Steps \ LinkSteps /\ sess' = sess
    BY <1>1 DEF Steps, RevokeSteps, LinkSteps
  <2>5. /\ LinkedOnce' /\ calls' \subseteq [s : DOMAIN sess, pc : Steps]
        /\ \A e \in calls' : \/ e \in calls \ {c}
                             \/ e.s = c.s /\ e.pc = "revoked" /\ e = Call(c.s, "revoked")
        /\ \A t : InFlight(t, LinkSteps)' => InFlight(t, LinkSteps)
    BY <1>1, <1>3, <2>3, <2>4, CallGoesOn
  <2>6. \A e, g \in calls' : (e.s = g.s /\ {e.pc, g.pc} \subseteq ExecuteSteps) => e = g
    BY <2>5 DEF IInv, ExecutedOnce, ExecuteSteps
  <2>7. ASSUME NEW e \in calls'
        PROVE  /\ e.pc \in ExecuteSteps => sess'[e.s].executed /\ ~sess'[e.s].settled
               /\ e.pc = "completed" => prov'[e.s].money
               /\ e.pc = "refused" => prov'[e.s].status \notin Moving
               /\ e.pc = "revoked" => prov'[e.s].status = "expired"
    <3>1. CASE e.s = s /\ e.pc = "revoked"
      BY <2>3, <3>1 DEF ExecuteSteps
    <3>2. CASE e \in calls \ {c} /\ e.pc \in ExecuteSteps \cup {"revoked"}
      <4>1. e.s \in DOMAIN prov
        BY <1>1, <3>2, Facts DEF IInv, LinkedOnce, LinkSteps, ExecuteSteps
      <4>2. CASE e.s = s
        BY <1>1, <1>3, <2>1, <2>3, <3>2, <4>2 DEF IInv, ExecutedOnce, ExecuteSteps, ProviderTrue
      <4>3. CASE e.s # s
        BY <1>1, <2>3, <3>2, <4>1, <4>3 DEF IInv, ExecutedOnce, ExecuteSteps
      <4> QED BY <4>2, <4>3
    <3> QED BY <2>5, <3>1, <3>2 DEF ExecuteSteps
  <2>8. ExecutedOnce'
    BY <1>1, <2>6, <2>7 DEF IInv, ExecutedOnce
  <2>9. \A t \in DOMAIN sess : Over(t) => Over(t)'
    <3>1. \A t : InFlight(t, {"execute"})' => InFlight(t, {"execute"})
      BY <2>5 DEF InFlight
    <3> QED BY <1>1, <2>3, <2>5, <3>1 DEF Over
  <2> QED BY <1>1, <2>2, <2>3, <2>5, <2>8, <2>9, QuietSession
<1> QED BY <1>2, <1>3 DEF RevokeAtProvider

LEMMA RevokeFinishStep ==
  ASSUME IInv, NEW c, RevokeFinish(c)
  PROVE  IInv'
<1> DEFINE s == c.s
<1>1. /\ WellFormed /\ c \in calls /\ s \in DOMAIN sess /\ calls' \subseteq calls /\ prov' = prov
      /\ Disowned \subseteq DOMAIN sess
  BY Facts DEF IInv, RevokeFinish, Ends
<1>2. CASE c.pc = "revoked" /\ ApplySnapshot(s, "expired") /\ UNCHANGED revived
  <2>1. sess[s].known /\ prov[s].status = "expired"
    BY <1>1, <1>2 DEF IInv, LinkedOnce, ExecutedOnce, LinkSteps
  <2>2. Disowned' = Disowned
    BY <1>2 DEF RevokeFinish, Disowned
  <2> QED BY <1>1, <1>2, <2>1, <2>2, SnapshotStep DEF SessionStatuses, FinalStatuses
<1>3. CASE UNCHANGED <<journal, sess, revived>>
  <2>1. Disowned' = Disowned
    BY <1>3 DEF RevokeFinish, Disowned
  <2> QED BY <1>1, <1>3, <2>1, NothingStep
<1>4. CASE Finish(s, "expired") /\ ~sess[s].executed /\ revived' = revived
  BY <1>1, <1>4, GiveUpUnexecuted DEF RevokeFinish, history
<1>5. CASE Finish(s, "expired") /\ sess[s].executed /\ revived' = revived \cup {s}
  <2>1. Disowned \subseteq Disowned' /\ Disowned' \subseteq DOMAIN sess /\ s \in Disowned'
    BY <1>1, <1>5 DEF RevokeFinish, Disowned
  <2> QED BY <1>1, <1>5, <2>1, FinishStep DEF FinalStatuses
<1> QED BY <1>2, <1>3, <1>4, <1>5 DEF RevokeFinish

-----------------------------------------------------------------------------
(* The theorem. *)

LEMMA InitIInv == Init => IInv
<1>1. SUFFICES ASSUME Init PROVE IInv
  OBVIOUS
<1>2. /\ rows = <<>> /\ sess = <<>> /\ calls = {} /\ DOMAIN prov = {} /\ prov = [s \in {} |-> 0]
      /\ refunded = 0 /\ reserved = 0
  BY <1>1 DEF Init, JournalInit
<1>3. Total(rows, "completed") = 0 /\ Total(rows, "pending") = 0
  <2>1. rows \in JournalRows
    BY <1>2 DEF JournalRows
  <2>2. Weights(rows) = Weights(rows) /\ DOMAIN rows = {}
    BY <1>2
  <2>3. Balance(rows) = 0
    BY <2>2, SumEmpty DEF Balance
  <2> QED BY <2>1, <2>3, TotalsAreBalance
<1>4. WellFormed /\ Disowned = {}
  BY <1>1, <1>2, <1>3 DEF Init, WellFormed, Disowned
<1>5. OwnRows /\ LinkedOnce /\ ProviderTrue /\ ExecutedOnce /\ GivenUpIsOver
  BY <1>2 DEF OwnRows, LinkedOnce, ProviderTrue, ExecutedOnce, GivenUpIsOver
<1>6. Balanced
  <2> DEFINE rs == Without(rows, LostRows)
  <2>1. rows \in JournalRows /\ DOMAIN rows = {}
    BY <1>2 DEF JournalRows
  <2>2. DOMAIN rs = {}
    BY <2>1, WithoutFacts
  <2> HIDE DEF rs
  <2>3. Balance(rs) = 0
    BY <2>2, SumEmpty DEF Balance
  <2> QED BY <2>1, <2>3, BalancedIs, OwnedIs, JournalAssumption DEF Balanced, rs
<1> QED BY <1>4, <1>5, <1>6 DEF IInv

LEMMA IInvStep == IInv /\ [Next]_vars => IInv'
<1>1. SUFFICES ASSUME IInv, [Next]_vars PROVE IInv'
  OBVIOUS
<1>2. CASE UNCHANGED vars
  <2>1. Disowned' = Disowned /\ Disowned \subseteq DOMAIN sess
    BY <1>1, <1>2, Facts DEF IInv, vars, history, Disowned
  <2> QED BY <1>1, <1>2, <2>1, NothingStep DEF vars
<1>3. ASSUME NEW a \in Amounts, Start(a) \/ PayCash(a) PROVE IInv'
  BY <1>1, <1>3, StartStep, PayCashStep
<1>4. ASSUME NEW c \in calls, LinkPosted(c) \/ LinkFailed(c) \/ LinkStored(c) PROVE IInv'
  BY <1>1, <1>4, LinkPostedStep, LinkFailedStep, LinkStoredStep
<1>5. ASSUME NEW c \in calls, Executed(c) \/ ExecuteAnswered(c) \/ CallDies(c) PROVE IInv'
  BY <1>1, <1>5, ExecutedStep, ExecuteAnsweredStep, CallDiesStep
<1>6. ASSUME NEW c \in calls, RevokeAtProvider(c) \/ RevokeFinish(c) PROVE IInv'
  BY <1>1, <1>6, RevokeAtProviderStep, RevokeFinishStep
<1>7. ASSUME NEW s \in Sessions, IssuingStale(s) \/ Refresh(s) \/ ExecuteStart(s) PROVE IInv'
  BY <1>1, <1>7, IssuingStaleStep, RefreshStep, ExecuteStartStep
<1>8. ASSUME NEW s \in Sessions, SettleDelay(s) \/ RevokeCheck(s) PROVE IInv'
  BY <1>1, <1>8, SettleDelayStep, RevokeCheckStep
<1>9. ASSUME NEW s \in Sessions, NEW st \in SessionStatuses, ProviderMoves(s, st) \/ Webhook(s, st)
      PROVE  IInv'
  BY <1>1, <1>9, ProviderMovesStep, WebhookStep
<1> QED BY <1>1, <1>2, <1>3, <1>4, <1>5, <1>6, <1>7, <1>8, <1>9 DEF Next

\* The inductive invariant: a reservation is given up only when no money can
\* leave through its session any more, but for the sessions the runs
\* RevokedGivesNothing and UnexecutedGivesNothing are about; the journal without the rows of those
\* does not exceed the payment.
THEOREM Invariance == Spec => []IInv
<1>1. Init => IInv
  BY InitIInv
<1>2. IInv /\ [Next]_vars => IInv'
  BY IInvStep
<1> QED BY <1>1, <1>2, PTL DEF Spec

LEMMA RowsOfMoney ==
  ASSUME IInv
  PROVE  LET money == MapThenSumSet(LAMBDA s : rows[sess[s].row].amount,
                                    {s \in DOMAIN prov \ Disowned : prov[s].money})
         IN money + Cash \in Nat /\ money + Cash <= Balance(OwnedRows)
<1> DEFINE L == {s \in DOMAIN prov \ Disowned : prov[s].money}
           C == {i \in DOMAIN rows : rows[i].method = "cash"}
           f == [s \in L |-> rows[sess[s].row].amount]
           h == [s \in L |-> sess[s].row]
           I == {h[s] : s \in L}
           rs == Without(rows, LostRows)
           w == Weights(rs)
<1>1. WellFormed /\ OwnRows /\ ProviderTrue /\ GivenUpIsOver
  BY DEF IInv
<1>2. /\ rs \in JournalRows /\ DOMAIN rs = DOMAIN rows
       /\ \A i \in DOMAIN rows : /\ rs[i].amount = rows[i].amount /\ rs[i].amount \in Nat
                                 /\ i \notin LostRows => rs[i].status = rows[i].status
  BY <1>1, Facts, RowFacts, WithoutFacts
<1>3. Balance(OwnedRows) = SumOver(w, DOMAIN rows)
  BY <1>2, OwnedIs DEF Balance
<1> HIDE DEF rs
<1>4. IsFiniteSet(DOMAIN prov) /\ IsFiniteSet(DOMAIN rows)
  <2>1. Len(sess) \in Int /\ Len(rows) \in Int /\ 1 \in Int
    BY <1>1, Facts
  <2>2. IsFiniteSet(DOMAIN sess) /\ DOMAIN prov \subseteq DOMAIN sess
    BY <1>1, <2>1, Facts, FS_Interval
  <2> QED BY <1>1, <2>1, <2>2, Facts, FS_Interval, FS_Subset
<1>5. IsFiniteSet(L) /\ IsFiniteSet(C)
  BY <1>4, FS_Subset
<1>6. MapThenSumSet(LAMBDA s : rows[sess[s].row].amount, L) = SumOver(f, L)
  <2> HIDE DEF L
  <2> QED BY <1>5, SumOfSessions
<1>7. Cash = SumOver(AmountsOf(rows), C)
  <2>1. Cash = MapThenSumSet(LAMBDA i : rows[i].amount, C)
    BY DEF Cash, SumOf, Indexes
  <2>2. C \in SUBSET DOMAIN rows
    OBVIOUS
  <2> HIDE DEF C
  <2> QED BY <1>5, <2>1, <2>2, SumOfAmounts
<1>8. ASSUME NEW s \in L
      PROVE  /\ h[s] \in DOMAIN rows /\ rows[h[s]].method = "apipay_qr"
             /\ rs[h[s]].status # "failed" /\ rows[h[s]].amount = f[s]
  <2>1. s \in DOMAIN sess \ Disowned /\ sess[s].row \in DOMAIN rows
    BY <1>1, Facts
  <2>2. ~Over(s)
    BY <1>1 DEF ProviderTrue, Over, Moving
  <2>3. sess[s].row \notin LostRows
    BY <1>1, <2>1, Facts DEF OwnRows, LostRows
  <2> QED BY <1>1, <1>2, <2>1, <2>2, <2>3 DEF OwnRows, GivenUpIsOver
<1>9. \A s, t \in L : h[s] = h[t] => s = t
  BY <1>1, Facts DEF OwnRows
<1>10. \A s \in L : f[s] \in Int /\ w[h[s]] = f[s]
  <2>1. ASSUME NEW s \in L
        PROVE  f[s] \in Int /\ w[h[s]] = f[s]
    <3>1. w[h[s]] = rows[h[s]].amount
      BY <1>8, <1>2 DEF Weights
    <3>2. rows[h[s]].amount \in Nat
      BY <1>8, <1>2
    <3> QED BY <1>8, <3>1, <3>2
  <2> QED BY <2>1
<1>11. \A i \in C : AmountsOf(rows)[i] = w[i]
  <2>1. ASSUME NEW i \in C PROVE i \notin LostRows
    BY <1>1, Facts DEF OwnRows, LostRows
  <2> QED BY <1>1, <1>2, <2>1 DEF OwnRows, AmountsOf, Weights
<1>12. I \subseteq DOMAIN rows /\ C \subseteq DOMAIN rows /\ I \cap C = {}
  <2>1. \A s \in L : h[s] \in DOMAIN rows /\ h[s] \notin C
    BY <1>8
  <2> HIDE DEF h, L, C
  <2>2. \A i \in I : i \in DOMAIN rows /\ i \notin C
    BY <2>1
  <2> QED BY <2>2 DEF C
<1>13. \A i \in DOMAIN rows : w[i] \in Nat
  BY <1>2 DEF Weights
<1> HIDE DEF L, C, f, h, w
<1>14. SumOver(w, I) = SumOver(f, L)
  BY <1>5, <1>9, <1>10, SumImage
<1>15. SumOver(AmountsOf(rows), C) = SumOver(w, C)
  BY <1>5, <1>11, SumSame
<1> HIDE DEF I
<1>16. IsFiniteSet(I) /\ I \cup C \in SUBSET DOMAIN rows
  BY <1>4, <1>12, FS_Subset
<1>17. SumOver(w, I \cup C) = SumOver(w, I) + SumOver(w, C)
  <2>1. \A i \in I \cup C : w[i] \in Int
    BY <1>13, <1>16
  <2> QED BY <1>5, <1>12, <1>16, <2>1, SumOfDisjoint
<1>18. SumOver(w, I \cup C) <= SumOver(w, DOMAIN rows)
  BY <1>4, <1>13, <1>16, SumOfSubset
<1>19. SumOver(w, I \cup C) \in Nat
  <2>1. IsFiniteSet(I \cup C) /\ \A i \in I \cup C : w[i] \in Nat
    BY <1>4, <1>13, <1>16, FS_Subset
  <2> QED BY <2>1, SumNat
<1> QED BY <1>6, <1>7, <1>3, <1>14, <1>15, <1>17, <1>18, <1>19 DEF L

\* The provider and the till together give back no more than was paid, for any
\* amounts, any loss or repetition of answers, any revocation and any order of
\* webhooks, but for the sessions given up by one of the two errors.
THEOREM NoOverRefundHolds == Spec => []NoOverRefund
<1>1. IInv => NoOverRefund
  <2> DEFINE money == MapThenSumSet(LAMBDA s : rows[sess[s].row].amount,
                                    {s \in DOMAIN prov \ Disowned : prov[s].money})
  <2>1. SUFFICES ASSUME IInv PROVE money + Cash <= Paid
    BY DEF NoOverRefund, SumBut
  <2>2. WellFormed /\ Balanced
    BY <2>1 DEF IInv
  <2>3. Balance(OwnedRows) \in Nat /\ Balance(OwnedRows) <= Paid
    BY <2>2, Facts, BalancedIs, OwnedIs DEF Balanced
  <2>4. money + Cash \in Nat /\ money + Cash <= Balance(OwnedRows)
    BY <2>1, RowsOfMoney
  <2>5. Paid \in Nat
    BY JournalAssumption
  <2> HIDE DEF money
  <2> QED BY <2>3, <2>4, <2>5
<1> QED BY <1>1, Invariance, PTL
=================================================================================
