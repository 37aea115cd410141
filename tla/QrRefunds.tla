------------------------------- MODULE QrRefunds -------------------------------
(***************************************************************************)
(* Refunds of a payment made by Kaspi QR (backend/apps/orders/qr_refunds.py*)
(* with its callers in views.py, webhooks.py): the desk issues a link, the *)
(* customer opens and confirms it in Kaspi, and one request, execute, moves*)
(* the money.  Each session reserves its amount in the journal.            *)
(*                                                                         *)
(* Abstracted: "opened" stands for the statuses activating and             *)
(* awaiting_scan; the choice among the customer's purchases is left out,   *)
(* execute may follow a confirmation or not.                               *)
(***************************************************************************)
EXTENDS RefundJournal

VARIABLES
  sess,     \* ApiPayQrRefund rows: [row, status, known, executed, settled]
  calls,    \* requests in flight: [s, pc]
  prov,     \* sessions at ApiPay: [status, seen, money]
  revived,  \* history: sessions whose reservation a revoke gave up, and that
            \* got their link all the same or were being executed
  outdated  \* history: sessions finished as failed by a confirmation older than
            \* what execute had reached at ApiPay

history == <<revived, outdated>>
vars == <<journal, sess, calls, prov, history>>

\* ApiPayQrRefund.ACTIVE_STATUSES
ActiveStatuses ==
  {"issuing", "awaiting_customer", "opened", "customer_identified", "executing"}
FinalStatuses == {"completed", "failed", "expired"}
SessionStatuses == ActiveStatuses \cup FinalStatuses \cup {"execution_uncertain"}
RevokeSteps == {"revoke_unknown", "revoke", "revoked"}
Steps == RevokeSteps \cup
         {"link", "linked", "execute", "completed", "accepted", "refused"}

Sessions == 1..MaxRefunds

TypeOK ==
  /\ rows \in Seq(RefundRows({"apipay_qr", "cash"}, {0}))
  /\ refunded \in Nat /\ reserved \in Nat
  /\ sess \in Seq([row : Sessions, status : SessionStatuses, known : BOOLEAN,
                   executed : BOOLEAN, settled : BOOLEAN])
  /\ calls \subseteq [s : Sessions, pc : Steps]
  /\ revived \subseteq Sessions /\ outdated \subseteq Sessions
  /\ DOMAIN prov \subseteq Sessions
  /\ \A s \in DOMAIN prov :
       prov[s] \in [status : SessionStatuses, seen : SUBSET SessionStatuses, money : BOOLEAN]

Init ==
  /\ JournalInit
  /\ sess = <<>> /\ calls = {} /\ prov = [s \in {} |-> 0]
  /\ revived = {} /\ outdated = {}

Call(s, pc) == [s |-> s, pc |-> pc]
Goes(c, pc) == calls' = (calls \ {c}) \cup {Call(c.s, pc)}
Ends(c) == calls' = calls \ {c}
InFlight(s, pcs) == \E c \in calls : c.s = s /\ c.pc \in pcs

Active(s) == sess[s].status \in ActiveStatuses
Becomes(s, status) == sess' = [sess EXCEPT ![s].status = status]

\* Mutant: an uncertain execution gives its reservation up.
FinishUncertain(s, status) ==
  /\ Becomes(s, status)
  /\ Write(Settled(sess[s].row, IF status = "completed" THEN "completed" ELSE "failed"))

\* _finish_locked: the end of a session settles its reservation; an
\* uncertain execution keeps it.
Finish(s, status) ==
  /\ Becomes(s, status)
  /\ IF status = "completed" THEN Write(Settled(sess[s].row, "completed"))
     ELSE IF status \in {"failed", "expired"} THEN Write(Settled(sess[s].row, "failed"))
     ELSE UNCHANGED journal

-----------------------------------------------------------------------------
(* The sessions at ApiPay. *)

NewSession == [status |-> "awaiting_customer", seen |-> {"awaiting_customer"}, money |-> FALSE]

Moved(s, status) ==
  [prov EXCEPT ![s] = [status |-> status, seen |-> @.seen \cup {status},
                       money |-> @.money \/ status = "completed"]]

Paths == [awaiting_customer   |-> {"opened", "expired"},
          opened              |-> {"customer_identified", "expired"},
          customer_identified |-> {"expired"},
          executing           |-> {"completed", "failed", "execution_uncertain"},
          execution_uncertain |-> {"completed", "failed"}]

ProviderMoves(s, status) ==
  /\ s \in DOMAIN prov
  /\ prov[s].status \in DOMAIN Paths /\ status \in Paths[prov[s].status]
  /\ prov' = Moved(s, status)
  /\ UNCHANGED <<journal, sess, calls, history>>

-----------------------------------------------------------------------------
(* start_qr_refund *)

Start(a) ==
  /\ Len(rows) < MaxRefunds
  /\ \A s \in DOMAIN sess : ~Active(s)
  /\ Refundable(a)
  /\ Write(Append(rows, NewRow("apipay_qr", "pending", a, 0)))
  /\ sess' = Append(sess, [row |-> Len(rows) + 1, status |-> "issuing", known |-> FALSE,
                           executed |-> FALSE, settled |-> FALSE])
  /\ calls' = calls \cup {Call(Len(sess) + 1, "link")}
  /\ UNCHANGED <<prov, history>>

\* POST /qr-refunds/links: answered, or an error that moves no money.
LinkPosted(c) ==
  /\ c \in calls /\ c.pc = "link"
  /\ prov' = [s \in DOMAIN prov \cup {c.s} |-> IF s = c.s THEN NewSession ELSE prov[s]]
  /\ Goes(c, "linked")
  /\ UNCHANGED <<journal, sess, history>>

LinkFailed(c) ==
  /\ c \in calls /\ c.pc \in {"link", "linked"}
  /\ Finish(c.s, "failed")
  /\ Ends(c)
  /\ UNCHANGED <<prov, history>>

\* The answer is stored, whatever has become of the session meanwhile.
LinkStored(c) ==
  /\ c \in calls /\ c.pc = "linked"
  /\ sess' = [sess EXCEPT ![c.s].known = TRUE, ![c.s].status = "awaiting_customer"]
  /\ revived' = IF sess[c.s].status = "issuing" THEN revived ELSE revived \cup {c.s}
  /\ Ends(c)
  /\ UNCHANGED <<journal, prov, outdated>>

\* Mutant: only a session that has its link is looked at.
IssuingStaleKnown(s) ==
  /\ s \in DOMAIN sess
  /\ sess[s].status = "issuing" /\ sess[s].known
  /\ Finish(s, "failed")
  /\ UNCHANGED <<calls, prov, history>>

\* refresh_qr_refund of a session whose link never came (ISSUING_STALE_AFTER).
IssuingStale(s) ==
  /\ s \in DOMAIN sess
  /\ sess[s].status = "issuing" /\ ~sess[s].known
  /\ ~InFlight(s, {"link", "linked"})
  /\ Finish(s, "failed")
  /\ UNCHANGED <<calls, prov, history>>

-----------------------------------------------------------------------------
(* apply_qr_refund_snapshot *)

\* Mutant: an uncertain execution is final.
ResolvesActive(s, status) == Active(s)

Resolves(s, status) ==
  \/ Active(s)
  \/ sess[s].status = "execution_uncertain" /\ status \in FinalStatuses

ApplySnapshot(s, status) ==
  IF ~Resolves(s, status) THEN UNCHANGED <<journal, sess>>
  ELSE IF status \in FinalStatuses \cup {"execution_uncertain"} THEN Finish(s, status)
  ELSE IF status = "customer_identified" /\ sess[s].executed
       THEN IF sess[s].settled THEN Finish(s, "failed") ELSE UNCHANGED <<journal, sess>>
  ELSE Becomes(s, status) /\ UNCHANGED journal

\* refresh_qr_refund: the present state of the session at ApiPay.
Refresh(s) ==
  /\ s \in DOMAIN sess /\ sess[s].known
  /\ ApplySnapshot(s, prov[s].status)
  /\ UNCHANGED <<calls, prov, history>>

\* What "executing" leads to is up to Kaspi.
Moving == {"executing", "execution_uncertain", "completed"}

\* A webhook, replayed from the inbox at any time, or a GET answered earlier: any
\* status the session has had.
Webhook(s, status) ==
  /\ s \in DOMAIN sess /\ sess[s].known
  /\ status \in prov[s].seen
  /\ ApplySnapshot(s, status)
  /\ outdated' = IF /\ status = "customer_identified" /\ Active(s) /\ sess[s].settled
                     /\ prov[s].status \in Moving
                  THEN outdated \cup {s} ELSE outdated
  /\ UNCHANGED <<calls, prov, revived>>

-----------------------------------------------------------------------------
(* execute_qr_refund, by the desk or by auto_execute_qr_refund *)

ExecuteStart(s) ==
  /\ s \in DOMAIN sess
  /\ sess[s].status = "customer_identified" /\ ~sess[s].executed
  /\ sess' = [sess EXCEPT ![s].status = "executing", ![s].executed = TRUE]
  /\ calls' = calls \cup {Call(s, "execute")}
  /\ UNCHANGED <<journal, prov, history>>

\* What ApiPay makes of the request, and what it answers.
Executed(c) ==
  /\ c \in calls /\ c.pc = "execute"
  /\ IF prov[c.s].status = "customer_identified"
     THEN \/ prov' = Moved(c.s, "completed") /\ Goes(c, "completed")
          \/ prov' = Moved(c.s, "executing") /\ Goes(c, "accepted")
          \/ UNCHANGED prov /\ Goes(c, "refused")
     ELSE IF prov[c.s].status \in {"expired", "failed"}
     THEN UNCHANGED prov /\ Goes(c, "refused")
     ELSE UNCHANGED prov /\ Goes(c, "accepted")
  /\ UNCHANGED <<journal, sess, history>>

\* The answer is applied without looking at what came meanwhile.
ExecuteAnswered(c) ==
  /\ c \in calls
  /\ \/ c.pc = "completed" /\ Finish(c.s, "completed")
     \/ c.pc = "refused" /\ Finish(c.s, "failed")
     \/ c.pc = "accepted" /\ Finish(c.s, "execution_uncertain")
  /\ Ends(c)
  /\ UNCHANGED <<prov, history>>

\* An answer that does not come, or the death of the process: what was
\* committed before the request stays, the rest does not happen.
CallDies(c) ==
  /\ c \in calls
  /\ Ends(c)
  /\ UNCHANGED <<journal, sess, prov, history>>

\* EXECUTE_SETTLE_DELAY is longer than any execute call.
SettleDelay(s) ==
  /\ s \in DOMAIN sess /\ sess[s].executed /\ ~sess[s].settled
  /\ ~InFlight(s, {"execute", "completed", "accepted", "refused"})
  /\ sess' = [sess EXCEPT ![s].settled = TRUE]
  /\ UNCHANGED <<journal, calls, prov, history>>

-----------------------------------------------------------------------------
(* revoke_qr_refund *)

RevokeCheck(s) ==
  /\ s \in DOMAIN sess
  /\ sess[s].status \in {"issuing", "awaiting_customer"}
  /\ calls' = calls \cup {Call(s, IF sess[s].known THEN "revoke" ELSE "revoke_unknown")}
  /\ UNCHANGED <<journal, sess, prov, history>>

\* DELETE of the link; one that was opened cannot be revoked.
RevokeAtProvider(c) ==
  /\ c \in calls /\ c.pc = "revoke"
  /\ IF prov[c.s].status = "awaiting_customer"
     THEN prov' = Moved(c.s, "expired") /\ Goes(c, "revoked")
     ELSE Ends(c) /\ UNCHANGED prov
  /\ UNCHANGED <<journal, sess, history>>

\* A session that had no link when it was read is ended without asking ApiPay,
\* whatever has become of it meanwhile.
RevokeFinish(c) ==
  /\ c \in calls
  /\ \/ /\ c.pc = "revoked"
        /\ ApplySnapshot(c.s, "expired")
        /\ UNCHANGED revived
     \/ /\ c.pc = "revoke_unknown"
        /\ IF Active(c.s)
           THEN /\ Finish(c.s, "expired")
                /\ revived' = IF sess[c.s].executed THEN revived \cup {c.s} ELSE revived
           ELSE UNCHANGED <<journal, sess, revived>>
  /\ Ends(c)
  /\ UNCHANGED <<prov, outdated>>

-----------------------------------------------------------------------------
PayCash(a) ==
  /\ Len(rows) < MaxRefunds
  /\ CashRefund(a)
  /\ UNCHANGED <<sess, calls, prov, history>>

Next ==
  \/ \E a \in Amounts : Start(a) \/ PayCash(a)
  \/ \E c \in calls :
       \/ LinkPosted(c) \/ LinkFailed(c) \/ LinkStored(c)
       \/ Executed(c) \/ ExecuteAnswered(c)
       \/ RevokeAtProvider(c) \/ RevokeFinish(c)
       \/ CallDies(c)
  \/ \E s \in Sessions :
       \/ IssuingStale(s) \/ Refresh(s) \/ ExecuteStart(s) \/ SettleDelay(s)
       \/ RevokeCheck(s)
       \/ \E status \in SessionStatuses : ProviderMoves(s, status) \/ Webhook(s, status)

Spec == Init /\ [][Next]_vars

(* reconcile_qr_refunds reads every session that may still move, and        *)
(* uncertain ones too; calls end by timeout; the provider closes every      *)
(* session in the end (links expire, Kaspi or its support decides).  These  *)
(* can happen only so often, and stay possible until they do, so fairness   *)
(* of their disjunction is fairness of each.                                *)
Fairness ==
  /\ SF_vars(\E s \in Sessions : Refresh(s))
  /\ WF_vars(\/ \E c \in calls : c.pc \notin RevokeSteps /\ CallDies(c)
             \/ \E s \in Sessions :
                  \/ IssuingStale(s) \/ SettleDelay(s)
                  \/ \E status \in SessionStatuses : ProviderMoves(s, status))

FairSpec == Spec /\ Fairness

-----------------------------------------------------------------------------
(* Properties *)

\* What left through the sessions but some.
SumBut(S) ==
  MapThenSumSet(LAMBDA s : rows[sess[s].row].amount, {s \in DOMAIN prov \ S : prov[s].money})
Disowned == revived \cup outdated

\* The provider and the till together give back no more than was paid
\* ("Повтор execute — второй возврат живых денег", models.py:534), but for the
\* sessions given up by one of the two errors the next properties are about.
NoOverRefund == SumBut(Disowned) + Cash <= Paid

\* A session that was revoked gives back nothing any more: its link was withdrawn,
\* or will not be handed out (revoke_qr_refund frees the reservation).
RevokedGivesNothing == SumBut(outdated) + Cash <= Paid

\* A session confirmed still, EXECUTE_SETTLE_DELAY after its execute, gives back
\* nothing any more ("деньги не ушли", apply_qr_refund_snapshot).
UnexecutedGivesNothing == SumBut(revived) + Cash <= Paid

\* Money that left is counted in the end, but for the same sessions: whenever
\* some is not, a moment comes when all is.
MoneyIsCounted ==
  []<>(\A s \in DOMAIN prov \ Disowned :
         prov[s].money => rows[sess[s].row].status = "completed")

\* No session withholds the balance for ever: whenever one does, a moment comes
\* when none does.
ReservationEnds ==
  []<>(\A s \in DOMAIN sess : rows[sess[s].row].status # "pending")

-----------------------------------------------------------------------------
(* Why: the inductive invariant behind NoOverRefund.                        *)

WellFormed ==
  /\ rows \in Seq(RefundRows({"apipay_qr", "cash"}, {0}))
  /\ sess \in Seq([row : DOMAIN rows, status : SessionStatuses, known : BOOLEAN,
                   executed : BOOLEAN, settled : BOOLEAN])
  /\ calls \subseteq [s : DOMAIN sess, pc : Steps]
  /\ DOMAIN prov \subseteq DOMAIN sess
  /\ prov \in [DOMAIN prov -> [status : SessionStatuses, seen : SUBSET SessionStatuses,
                               money : BOOLEAN]]
  /\ refunded = Total(rows, "completed") /\ reserved = Total(rows, "pending")
  /\ Disowned \subseteq DOMAIN sess

\* Every session reserves with a row of its own.
OwnRows ==
  /\ \A s \in DOMAIN sess : rows[sess[s].row].method = "apipay_qr"
  /\ \A s, t \in DOMAIN sess : sess[s].row = sess[t].row => s = t
  /\ \A i \in DOMAIN rows : rows[i].method = "cash" => rows[i].status = "completed"

LinkSteps == {"link", "linked"}
ExecuteSteps == {"execute", "completed", "accepted", "refused"}

\* A link is asked for once; before its answer is stored a session can only end.
LinkedOnce ==
  /\ \A c, d \in calls : (c.s = d.s /\ {c.pc, d.pc} \subseteq LinkSteps) => c = d
  /\ \A c \in calls :
       /\ c.pc \in LinkSteps => ~sess[c.s].known
       /\ c.pc = "link" => c.s \notin DOMAIN prov
       /\ c.pc = "linked" => c.s \in DOMAIN prov
       /\ c.pc \notin LinkSteps \cup {"revoke_unknown"} => sess[c.s].known
  /\ \A s \in DOMAIN sess :
       IF sess[s].known THEN s \in DOMAIN prov
       ELSE sess[s].status \in {"issuing", "failed", "expired"} /\ ~sess[s].executed

\* What ApiPay says of a session: an end is the end, money leaves with
\* completed only, and only after an execute.
ProviderTrue ==
  \A s \in DOMAIN prov :
    /\ prov[s].money <=> prov[s].status = "completed"
    /\ prov[s].seen \cap FinalStatuses \subseteq {prov[s].status}
    /\ prov[s].status \in Moving => sess[s].executed

\* One execute request in the life of a session, and what its answer means.
ExecutedOnce ==
  /\ \A c, d \in calls : (c.s = d.s /\ {c.pc, d.pc} \subseteq ExecuteSteps) => c = d
  /\ \A c \in calls :
       /\ c.pc \in ExecuteSteps => sess[c.s].executed /\ ~sess[c.s].settled
       /\ c.pc = "completed" => prov[c.s].money
       /\ c.pc = "refused" => prov[c.s].status \notin Moving
       /\ c.pc = "revoked" => prov[c.s].status = "expired"
  /\ \A s \in DOMAIN sess : sess[s].settled => sess[s].executed

\* No money can leave through the session any more, unless it gets its link though
\* it was given up.
Over(s) ==
  \/ s \in DOMAIN prov /\ prov[s].status \in {"expired", "failed"}
  \/ /\ s \in DOMAIN prov => prov[s].status \notin Moving
     /\ ~InFlight(s, {"execute"})
     /\ sess[s].executed \/ sess[s].status \in {"failed", "expired"}

GivenUpIsOver ==
  \A s \in DOMAIN sess \ Disowned : rows[sess[s].row].status = "failed" => Over(s)

\* The journal as it were, had no disowned session come to money.
LostRows == {sess[s].row : s \in Disowned}
OwnedRows ==
  [i \in DOMAIN rows |-> IF i \in LostRows THEN [rows[i] EXCEPT !.status = "failed"]
                         ELSE rows[i]]
Balanced == Total(OwnedRows, "completed") + Total(OwnedRows, "pending") <= Paid

IInv ==
  /\ WellFormed /\ OwnRows /\ LinkedOnce /\ ProviderTrue /\ ExecutedOnce /\ GivenUpIsOver
  /\ Balanced
=============================================================================
