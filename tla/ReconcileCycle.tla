---------------------------- MODULE ReconcileCycle ----------------------------
(***************************************************************************)
(* How one reconciliation iteration spends its budget of provider requests *)
(* over the invoices waiting for it (backend/apps/orders/reconciliation.py,*)
(* tasks.py, apipay.py:recover_invoice_issue_mapping).  What the answers   *)
(* mean for money is the subject of ApiPayInvoices.                        *)
(*                                                                         *)
(* A record is "unknown" while its POST has no known outcome, "active" or  *)
(* "closed" once mapped (both are polled), and "quiet" when nothing asks   *)
(* for it: paid, released as never issued, or closed too long ago.         *)
(* updated_at is the only schedule: it is kept as a line, the record       *)
(* touched longest ago first.                                              *)
(***************************************************************************)
EXTENDS Naturals, FiniteSets, SequencesExt

CONSTANTS
  Records,     \* ApiPayInvoice rows
  Department,  \* the department of each record's order
  Keyed,       \* departments with an ApiPay key
  Poison,      \* records for whose key ApiPay shows several invoices
  Budget,      \* request_budget
  Batch        \* batch_size

ASSUME CycleAssumption ==
  /\ IsFiniteSet(Records) /\ Poison \subseteq Records
  /\ DOMAIN Department = Records
  /\ Budget \in Nat \ {0} /\ Batch \in Nat \ {0}

VARIABLES
  kind,     \* what each record is to the reconciliation
  line,     \* records by updated_at, oldest first
  fresh,    \* records whose update is younger than stale_after, at its start
  touched,  \* records updated since the iteration began
  pc,       \* the step of the iteration
  target,   \* the issue candidate, as a set of at most one record
  left,     \* requests_remaining
  spent,    \* requests sent in this iteration
  todo,     \* batches selected and not yet polled
  skipped   \* history: records an iteration selected and left as they were

cycle == <<pc, target, left, spent, todo>>
vars == <<kind, line, fresh, touched, cycle, skipped>>

Kinds == {"none", "unknown", "active", "closed", "quiet"}

TypeOK ==
  /\ kind \in [Records -> Kinds]
  /\ line \in Seq(Records) /\ IsInjective(line)
  /\ Range(line) = {r \in Records : kind[r] # "none"}
  /\ fresh \subseteq Records /\ touched \subseteq Records
  /\ pc \in {"idle", "search", "select", "poll"}
  /\ target \subseteq Records /\ Cardinality(target) <= 1
  /\ left \in 0..Budget /\ spent \in Nat
  /\ todo \subseteq SUBSET Records
  /\ skipped \subseteq Records

Init ==
  /\ kind = [r \in Records |-> "none"]
  /\ line = <<>>
  /\ fresh = {} /\ touched = {}
  /\ pc = "idle" /\ target = {} /\ left = 0 /\ spent = 0 /\ todo = {}
  /\ skipped = {}

-----------------------------------------------------------------------------
\* updated_at = now for the records S: they go to the end, in their order.
\* The others of b were passed over: they keep their place.
TouchOf(b, S) ==
  /\ line' = SelectSeq(line, LAMBDA r : r \notin S)
               \o SelectSeq(line, LAMBDA r : r \in S)
  /\ touched' = touched \cup S
  /\ skipped' = (skipped \cup b) \ S

Touch(S) == TouchOf({}, S)

\* The records of some kinds that are stale, oldest first.
Stale(kinds) ==
  SelectSeq(line, LAMBDA r : kind[r] \in kinds /\ r \notin fresh \cup touched)

FirstOf(s, n) == SubSeq(s, 1, IF n < Len(s) THEN n ELSE Len(s))

HasKey(r) == Department[r] \in Keyed

-----------------------------------------------------------------------------
(* Everybody else: requests issue invoices, webhooks report their states *)

Issue(r) ==
  /\ kind[r] = "none"
  /\ \E k \in {"unknown", "active"} : kind' = [kind EXCEPT ![r] = k]
  /\ line' = Append(line, r)
  /\ touched' = touched \cup {r}
  /\ UNCHANGED <<fresh, cycle, skipped>>

\* Late evidence reopens a closed invoice, and a webhook maps a released issue.
Moves == [none |-> {}, unknown |-> {"active", "closed", "quiet"},
          active |-> {"closed", "quiet"}, closed |-> {"active", "quiet"},
          quiet |-> {"active", "closed"}]

Update(r) ==
  /\ \E k \in Moves[kind[r]] : kind' = [kind EXCEPT ![r] = k]
  /\ Touch({r})
  /\ UNCHANGED <<fresh, cycle>>

\* A closed invoice leaves the lookback window.
Lookback(r) ==
  /\ kind[r] = "closed"
  /\ kind' = [kind EXCEPT ![r] = "quiet"]
  /\ UNCHANGED <<line, fresh, touched, cycle, skipped>>

-----------------------------------------------------------------------------
(* The iteration.  What a finished step leaves behind is cleared: fresh, left *)
(* and target are read no later than shown here.                             *)

\* The interval equals stale_after by default: what the last iteration touched
\* may or may not be stale at this one.  The oldest issue of unknown outcome
\* takes the whole budget of the iteration.
Begin ==
  /\ pc = "idle"
  /\ fresh' \in SUBSET touched
  /\ touched' = {}
  /\ spent' = 0
  /\ LET issues == SelectSeq(line, LAMBDA r : kind[r] = "unknown" /\ r \notin fresh')
     IN IF issues = <<>>
        THEN target' = {} /\ left' = Budget /\ pc' = "select"
        ELSE target' = {Head(issues)} /\ left' = 0 /\ pc' = "search"
  /\ UNCHANGED <<kind, line, todo, skipped>>

\* The search of r ends, after n requests.
Searched(r, n) ==
  /\ pc = "search" /\ target = {r}
  /\ spent' = spent + n
  /\ pc' = "select" /\ target' = {}
  /\ UNCHANGED <<fresh, left, todo>>

\* Mutant: a search that settled nothing leaves updated_at as it was.
PostponeUntouched(r) ==
  /\ kind[r] = "unknown"
  /\ \E n \in 0..Budget : Searched(r, n)
  /\ UNCHANGED <<kind, line, touched, skipped>>

\* Too young to be given up, several invoices for the key, no key of the
\* department, an error, or more pages than the budget allows: the record goes
\* to the end of the line.
Postpone(r) ==
  /\ kind[r] = "unknown"
  /\ \E n \in IF HasKey(r) THEN 1..Budget ELSE {0} : Searched(r, n)
  /\ Touch({r})
  /\ UNCHANGED kind

\* Found and mapped, or released after a complete search.
Settle(r) ==
  /\ kind[r] = "unknown" /\ HasKey(r) /\ r \notin Poison
  /\ \E n \in 1..Budget : Searched(r, n)
  /\ \E k \in {"active", "closed", "quiet"} : kind' = [kind EXCEPT ![r] = k]
  /\ Touch({r})

\* A webhook has mapped the candidate since it was selected.
Overtaken(r) ==
  /\ kind[r] # "unknown"
  /\ \E n \in 0..Budget : Searched(r, n)
  /\ UNCHANGED <<kind, line, touched, skipped>>

\* Batches never mix departments: each has its own key, or is skipped.
Batches(candidates) ==
  LET ofDepartment(d) == SelectSeq(candidates, LAMBDA r : Department[r] = d)
      chunk(s, i) == {s[j] : j \in {j \in DOMAIN s : (j - 1) \div Batch = i}}
  IN UNION {{chunk(ofDepartment(d), i) : i \in 0..Len(candidates)} : d \in Keyed} \ {{}}

\* The batches of these candidates are polled one after the other; those of a
\* department without a key are passed over.
SelectThese(candidates) ==
  /\ pc = "select"
  /\ todo' = Batches(candidates)
  /\ pc' = IF todo' = {} THEN "idle" ELSE "poll"
  /\ fresh' = {} /\ left' = 0
  /\ skipped' = skipped \cup {r \in Range(candidates) : ~HasKey(r)}
  /\ UNCHANGED <<kind, line, touched, target, spent>>

\* Mutant: the candidates touched last come first.
SelectNewest == SelectThese(FirstOf(Reverse(Stale({"active", "closed"})), left * Batch))

Select == SelectThese(FirstOf(Stale({"active", "closed"}), left * Batch))

\* One status request.  It may fail as a whole; a record whose evidence is
\* refused as stale, or fails to be applied, is left as it is, every other one is
\* touched, and may move.
Poll(b) ==
  /\ pc = "poll" /\ b \in todo
  /\ spent' = spent + 1
  /\ todo' = todo \ {b}
  /\ pc' = IF todo' = {} THEN "idle" ELSE "poll"
  /\ \E seen \in SUBSET b :
       /\ TouchOf(b, seen)
       /\ kind' \in [Records -> Kinds]
       /\ \A r \in Records :
            \/ kind'[r] = kind[r]
            \/ r \in seen /\ kind'[r] \in Moves[kind[r]]
  /\ UNCHANGED <<fresh, target, left>>

\* The worker dies; the next beat starts over.
Die ==
  /\ pc # "idle"
  /\ pc' = "idle" /\ todo' = {} /\ target' = {} /\ fresh' = {} /\ left' = 0
  /\ UNCHANGED <<kind, line, touched, spent, skipped>>

Search(r) == Postpone(r) \/ Settle(r) \/ Overtaken(r)

Next ==
  \/ \E r \in Records : Issue(r) \/ Update(r) \/ Lookback(r) \/ Search(r)
  \/ Begin \/ Select \/ Die
  \/ \E b \in todo : Poll(b)

Spec == Init /\ [][Next]_vars

\* Iterations go on, and a worker does not die every time before the step it
\* has come to.  A status request that is sent may fail, every time.
FairSpec ==
  /\ Spec
  /\ WF_vars(Begin) /\ SF_vars(Select)
  /\ SF_vars(\E r \in Records : Search(r))
  /\ \A r \in Records : SF_vars(\E b \in todo : r \in b /\ Poll(b))

\* Besides, an issue searched for again and again is settled, if it can be.
SettlingSpec == FairSpec /\ \A r \in Records : SF_vars(Settle(r))

-----------------------------------------------------------------------------
\* "request_budget is a hard cap on provider requests for this call".
RequestsWithinBudget == spent <= Budget

\* A poison issue does not monopolise the search: every other one gets its turn.
EveryIssueIsSearched ==
  \A r \in Records :
    kind[r] = "unknown" ~> kind[r] # "unknown" \/ (pc = "search" /\ target = {r})

Polled(r) == r \in UNION todo

Before(r) == {line[i] : i \in {i \in DOMAIN line : \E j \in DOMAIN line : i < j /\ line[j] = r}}

\* As many records as one iteration can poll stand before r, each passed over
\* when its turn came: its request failed, its evidence was refused, or its
\* department has no key.
Blocked(r) ==
  Cardinality({q \in Before(r) \cap skipped : kind[q] \in {"active", "closed"}})
    >= Budget * Batch

\* However many invoices wait, have just been touched or fail, each comes to its
\* turn: only an issue of unknown outcome, which takes the whole budget, and a
\* budget's worth of records that were passed over and kept their place before
\* it can delay that.
PolledUnlessBlocked ==
  \A r \in Records :
    kind[r] = "active" /\ HasKey(r)
      ~> \/ kind[r] # "active" \/ Polled(r) \/ Blocked(r)
         \/ \E q \in Records : kind[q] = "unknown"

\* "Active provider operations must remain recoverable regardless of age": an
\* active invoice comes to its turn whatever issues wait beside it.
ActiveIsPolled ==
  \A r \in Records :
    kind[r] = "active" /\ HasKey(r)
      ~> kind[r] # "active" \/ Polled(r) \/ Blocked(r)
=============================================================================
