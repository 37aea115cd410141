----------------------------- MODULE ShipmentStock -----------------------------
(***************************************************************************)
(* Where the bags of a shipped order came from, and the stock of the       *)
(* warehouses: apps/shipments/sources.py and services.py, the edit of an   *)
(* order's items (orders/services.py replace_items), the goods return a    *)
(* storekeeper closes (orders/goods_returns.py) and the transfer between   *)
(* warehouses (warehouse/services.py).                                     *)
(*                                                                         *)
(* Every operation is one PostgreSQL transaction that takes row locks one  *)
(* after the other.  A transaction is a record of what it still has to     *)
(* lock (want, in the order of the code) and what it holds.  The foreign   *)
(* keys are DEFERRABLE INITIALLY DEFERRED, so the KEY SHARE locks of the   *)
(* rows it inserted come last, when it commits.  What it writes is covered *)
(* by the locks it holds, so it is written in one step, at the commit.     *)
(* A circle of waiting transactions is broken by the database, which       *)
(* rolls one of them back.                                                 *)
(***************************************************************************)
EXTENDS Integers, Sequences, FiniteSetsExt, SequencesExt

CONSTANTS
    Orders,       \* the orders, numbers: ids are compared and sorted
    Products,     \* the products, numbers
    Warehouses,   \* the warehouses, numbers; all of them stay active
    Main,         \* the warehouse with code "main"
    Home,         \* Home[o]: order.warehouse, pinned since the confirmation
    ReturnLines,  \* the orders in which a goods return may list its products
    Txs,          \* slots for the transactions open at a time, numbers
    Compositions, \* the items an order may be edited to: bags of each product
    Ordered,      \* the items the orders may have at the start
    Pasts,        \* the source rows the shipment of the first order may have at the start
    MaxOps        \* bound: operations started

ASSUME StockAssumption ==
    /\ Orders \subseteq Nat /\ Products \subseteq Nat /\ Warehouses \subseteq Nat /\ Txs \subseteq Nat
    /\ IsFiniteSet(Orders) /\ IsFiniteSet(Products) /\ IsFiniteSet(Warehouses) /\ IsFiniteSet(Txs)
    /\ Main \in Warehouses
    /\ Home \in [Orders -> Warehouses]
    /\ ReturnLines \subseteq Seq(Products)
    /\ Compositions \subseteq [Products -> Nat]
    /\ \A f \in Compositions : \E p \in Products : f[p] > 0
    /\ Ordered \subseteq [Orders -> Compositions]
    /\ Pasts \subseteq [Products \X Warehouses -> Nat]
    /\ MaxOps \in Nat

VARIABLES
    status,       \* order.status: "confirmed" or "shipped"
    items,        \* bags of each product in the order's items
    rows,         \* ShipmentSource.bags of each cell; 0: there is no row
    deducted,     \* shipment.stock_deducted
    stock,        \* StockItem.bags of each cell
    transferred,  \* what transfers brought to each cell so far, and the opening balance
    goods,        \* the goods return: its lines, accepted bags and status
    tx,           \* the open transactions
    ops

vars == <<status, items, rows, deducted, stock, transferred, goods, tx, ops>>

Cells == Products \X Warehouses
NoRows == [c \in Cells |-> 0]
Total(f, S) == MapThenSumSet(LAMBDA x : f[x], S)
CellsOf(p) == {p} \X Warehouses
Ascending(S) == CHOOSE s \in SetToSeqs(S) : \A i, j \in DOMAIN s : i < j => s[i] < s[j]
CellOrder(S) ==
    CHOOSE s \in SetToSeqs(S) :
        \A i, j \in DOMAIN s : i < j => \/ s[i][1] < s[j][1]
                                        \/ s[i][1] = s[j][1] /\ s[i][2] < s[j][2]
-----------------------------------------------------------------------------
(* Locks *)

Idle == [op |-> "none"]
Free(t) == tx[t] = Idle
Busy(t) == tx[t] # Idle

Lock(kind, id, mode) == [kind |-> kind, id |-> id, mode |-> mode]
LockOrder(o) == <<Lock("order", o, "update")>>
LockReturn == <<Lock("return", 1, "update")>>

(* The Product row is the mutex of all stock cards of the product. *)
LockProducts(ps) == [i \in DOMAIN ps |-> Lock("product", ps[i], "update")]

(* lock_stock_items: the cells ascending by (product, warehouse), hence the *)
(* products ascending.                                                      *)
LockCells(S) == LockProducts(Ascending({c[1] : c \in S}))

(* What the deferred foreign keys lock when rows about ids were inserted. *)
References(kind, ids) == [i \in DOMAIN ids |-> Lock(kind, ids[i], "share")]
MovementsOf(S) == References("warehouse", [i \in DOMAIN CellOrder(S) |-> CellOrder(S)[i][2]])

Compatible(a, b) ==
    \/ <<a.kind, a.id>> # <<b.kind, b.id>>
    \/ a.mode = "share" /\ b.mode # "update"
    \/ b.mode = "share" /\ a.mode # "update"

Waiting(t) == Busy(t) /\ tx[t].want # <<>>
WaitsFor(t, u) == /\ Waiting(t) /\ u # t /\ Busy(u)
                  /\ \E l \in tx[u].held : ~Compatible(Head(tx[t].want), l)
Stuck(S) == S # {} /\ \A t \in S : \E u \in S : WaitsFor(t, u)

Grant(t) ==
    /\ Waiting(t)
    /\ \A u \in Txs : ~WaitsFor(t, u)
    /\ tx' = [tx EXCEPT ![t].want = Tail(@), ![t].held = @ \cup {Head(tx[t].want)}]
    /\ UNCHANGED <<status, items, rows, deducted, stock, transferred, goods, ops>>

(* The database rolls back one transaction of the circle. *)
DeadlockAbort(t) ==
    /\ \E S \in SUBSET Txs : t \in S /\ Stuck(S)
    /\ tx' = [tx EXCEPT ![t] = Idle]
    /\ UNCHANGED <<status, items, rows, deducted, stock, transferred, goods, ops>>
-----------------------------------------------------------------------------
(* Sources of a shipment *)

AllFromHome(o) == [c \in Cells |-> IF c[2] = Home[o] THEN items[o][c[1]] ELSE 0]

(* plan_sources: the loader's answer must name the bags of every product. *)
Answers(o, plan) == \A p \in Products : Total(plan, CellsOf(p)) = items[o][p]
Plans(o) == {f \in [Cells -> 0 .. Max({items[o][p] : p \in Products})] : Answers(o, f)}

Basis(o) == IF ~deducted[o] THEN "not_deducted"
            ELSE IF rows[o] # NoRows THEN "recorded" ELSE "legacy"
Gap(o, p) == items[o][p] - Total(rows[o], CellsOf(p))

(* checked_sources: the rows must agree with the items; what they miss was  *)
(* moved on the order's warehouse by an old release, so its row takes it.   *)
Checked(o) == CASE Basis(o) = "not_deducted" -> NoRows
                [] Basis(o) = "legacy" -> AllFromHome(o)
                [] OTHER -> [c \in Cells |-> IF c[2] = Home[o] THEN rows[o][c] + Gap(o, c[1])
                                                               ELSE rows[o][c]]
AllocationMismatch(o) == \E c \in Cells : Checked(o)[c] < 0

(* absorb_delta: the cells of product p, the anchor first if it has a row,  *)
(* then more bags, then the smaller warehouse.                              *)
Before(r, anchor, c, d) ==
    \/ c[2] = anchor /\ d[2] # anchor
    \/ /\ (c[2] = anchor) = (d[2] = anchor)
       /\ r[c] > r[d] \/ (r[c] = r[d] /\ c[2] < d[2])
Rowed(r, p) == {c \in CellsOf(p) : r[c] > 0}
Ahead(r, anchor, c) == {d \in Rowed(r, c[1]) : Before(r, anchor, d, c)}

(* Mutant: an increase goes where most bags came from. *)
IncreaseAtRichest(r, p, delta, anchor) ==
    LET first == IF Rowed(r, p) = {} THEN <<p, anchor>>
                 ELSE CHOOSE c \in Rowed(r, p) : \A d \in Rowed(r, p) : r[c] >= r[d]
    IN  [r EXCEPT ![first] = @ + delta]

AbsorbIncrease(r, p, delta, anchor) ==
    LET first == IF Rowed(r, p) = {} THEN <<p, anchor>>
                 ELSE CHOOSE c \in Rowed(r, p) : Ahead(r, anchor, c) = {}
    IN  [r EXCEPT ![first] = @ + delta]
AbsorbDecrease(r, p, need, anchor) ==
    [c \in Cells |-> IF c \in Rowed(r, p)
                     THEN r[c] - Min({r[c], Max({0, need - Total(r, Ahead(r, anchor, c))})})
                     ELSE r[c]]
AbsorbDelta(r, p, delta, anchor) ==
    IF delta > 0 THEN AbsorbIncrease(r, p, delta, anchor)
                 ELSE AbsorbDecrease(r, p, -delta, anchor)

(* reconcile_sources over all products: a product is absorbed in its own cells. *)
Reconciled(o, new) ==
    [c \in Cells |-> AbsorbDelta(Checked(o), c[1], new[c[1]] - items[o][c[1]], Home[o])[c]]
Moves(r, s) == {c \in Cells : r[c] # s[c]}
-----------------------------------------------------------------------------
(* Operations.  A request opens a transaction in the first free slot; Checks runs under its first  *)
(* lock and either refuses or asks for the other locks; Commit writes.      *)

Start(t, op, arg, want) ==
    /\ t = Min({u \in Txs : Free(u)}) /\ ops < MaxOps
    /\ ops' = ops + 1
    /\ tx' = [tx EXCEPT ![t] = [op |-> op, arg |-> arg, stage |-> "check",
                                 want |-> want, held |-> {}]]
    /\ UNCHANGED <<status, items, rows, deducted, stock, transferred, goods>>

(* loader_dispatch: the answer is checked without a lock, as the items are  *)
(* now, and again by dispatch_order under the lock.                         *)
AskDispatch(t, o, plan) ==
    /\ plan \in Plans(o)
    /\ Start(t, "dispatch", [order |-> o, plan |-> plan], LockOrder(o))

(* manual_complete_order and the reports: no answer, all from order.warehouse. *)
AskComplete(t, o) ==
    Start(t, "complete", [order |-> o], LockOrder(o))

(* replace_items; listed is the order in which the new items are created. *)
AskEdit(t, o, new, listed) ==
    Start(t, "edit", [order |-> o, new |-> new, listed |-> listed], LockOrder(o))

AskRollback(t, o) ==
    Start(t, "rollback", [order |-> o], LockOrder(o))

(* Mutant: FOR UPDATE instead of FOR NO KEY UPDATE. *)
ForUpdate == "update"
WarehouseMode == "nokey"

(* transfer_stock: the main warehouse, both warehouses by id, the product. *)
AskTransfer(t, p, from, to) ==
    LET warehouse(w) == Lock("warehouse", w, WarehouseMode)
        both == Ascending({from, to})
    IN  /\ from # to
        /\ Start(t, "transfer", [product |-> p, from |-> from, to |-> to],
                 <<warehouse(Main), warehouse(both[1]), warehouse(both[2])>> \o LockProducts(<<p>>))

AskReturn(t, op) ==
    /\ op \in {"close", "reopen"}
    /\ Start(t, op, [lines |-> goods.lines], LockReturn)

(* The warehouse of the return is Main in this model.  close and reopen take *)
(* the accepted lines by the line's id, one product lock after the other.    *)
AcceptedLines ==
    LET kept == Ascending({i \in DOMAIN goods.lines : goods.accepted[goods.lines[i]] > 0})
    IN  [i \in DOMAIN kept |-> goods.lines[kept[i]]]
ReturnCells == {<<p, Main>> : p \in Products}

(* The items may have been edited since the loader answered. *)
(* Mutant: the answer is trusted as it was checked without the lock. *)
NeverOutdated(r) == FALSE
Outdated(r) == ~Answers(r.arg.order, r.arg.plan)

Refused(r) ==
    CASE r.op = "dispatch" -> status[r.arg.order] # "confirmed" \/ Outdated(r)
      [] r.op = "complete" -> status[r.arg.order] # "confirmed"
      [] r.op = "edit" -> status[r.arg.order] = "shipped" /\ AllocationMismatch(r.arg.order)
      [] r.op = "rollback" -> status[r.arg.order] # "shipped" \/ AllocationMismatch(r.arg.order)
      [] r.op = "transfer" -> stock[<<r.arg.product, r.arg.from>>] < 1
      [] r.op = "close" -> goods.status # "pending"
      [] r.op = "reopen" -> goods.status # "closed"

(* The cells an operation moves: written off, given back or corrected. *)
WriteOff(r) == IF r.op = "dispatch" THEN r.arg.plan ELSE AllFromHome(r.arg.order)
Corrected(r) == IF status[r.arg.order] = "confirmed" \/ Basis(r.arg.order) = "not_deducted"
                THEN {} ELSE Moves(Checked(r.arg.order), Reconciled(r.arg.order, r.arg.new))
Restored(o) == {c \in Cells : Checked(o)[c] > 0}

FurtherLocks(r) ==
    CASE r.op \in {"dispatch", "complete"} ->
            LET cells == {c \in Cells : WriteOff(r)[c] > 0}
            IN  LockCells(cells) \o MovementsOf(cells)
      [] r.op = "edit" -> LockCells(Corrected(r)) \o References("product", r.arg.listed)
                                                  \o MovementsOf(Corrected(r))
      [] r.op = "rollback" -> LockCells(Restored(r.arg.order)) \o MovementsOf(Restored(r.arg.order))
      [] r.op = "transfer" -> <<>>
      [] r.op \in {"close", "reopen"} ->
            IF AcceptedLines = <<>> THEN <<>>
            ELSE LockProducts(AcceptedLines) \o References("warehouse", <<Main>>)

Checks(t) ==
    /\ Busy(t) /\ tx[t].stage = "check" /\ tx[t].want = <<>>
    /\ tx' = [tx EXCEPT ![t] = IF Refused(@) THEN Idle
                               ELSE [@ EXCEPT !.stage = "commit", !.want = FurtherLocks(tx[t])]]
    /\ UNCHANGED <<status, items, rows, deducted, stock, transferred, goods, ops>>

Ready(t, op) == Busy(t) /\ tx[t].op = op /\ tx[t].stage = "commit" /\ tx[t].want = <<>>
End(t) == tx' = [tx EXCEPT ![t] = Idle] /\ UNCHANGED ops

(* write_off and mark_order_shipped; the stock may go below zero. *)
CommitShip(t) ==
    \E op \in {"dispatch", "complete"} : LET o == tx[t].arg.order IN
    /\ Ready(t, op)
    /\ status' = [status EXCEPT ![o] = "shipped"]
    /\ rows' = [rows EXCEPT ![o] = WriteOff(tx[t])]
    /\ deducted' = [deducted EXCEPT ![o] = TRUE]
    /\ stock' = [c \in Cells |-> stock[c] - WriteOff(tx[t])[c]]
    /\ End(t)
    /\ UNCHANGED <<items, transferred, goods>>

(* The rows are written again when there are any; a shipment without rows   *)
(* stays without them, one that took nothing from stock moves nothing.      *)
CommitEdit(t) ==
    LET o == tx[t].arg.order
        after == Reconciled(o, tx[t].arg.new)
    IN
    /\ Ready(t, "edit")
    /\ items' = [items EXCEPT ![o] = tx[t].arg.new]
    /\ IF Corrected(tx[t]) = {} THEN UNCHANGED stock
       ELSE stock' = [c \in Cells |-> stock[c] + Checked(o)[c] - after[c]]
    /\ IF status[o] = "shipped" /\ Basis(o) = "recorded"
       THEN rows' = [rows EXCEPT ![o] = after] ELSE UNCHANGED rows
    /\ End(t)
    /\ UNCHANGED <<status, deducted, transferred, goods>>

(* Mutant: the bags go to the order's warehouse. *)
GivenHome(o) == AllFromHome(o)
GivenBack(o) == Checked(o)

(* restore_stock; the Shipment goes and its rows with it. *)
CommitRollback(t) ==
    LET o == tx[t].arg.order IN
    /\ Ready(t, "rollback")
    /\ stock' = [c \in Cells |-> stock[c] + GivenBack(o)[c]]
    /\ status' = [status EXCEPT ![o] = "confirmed"]
    /\ rows' = [rows EXCEPT ![o] = NoRows]
    /\ deducted' = [deducted EXCEPT ![o] = TRUE]
    /\ End(t)
    /\ UNCHANGED <<items, transferred, goods>>

CommitTransfer(t) ==
    LET from == <<tx[t].arg.product, tx[t].arg.from>>
        to == <<tx[t].arg.product, tx[t].arg.to>>
        moved(f) == [f EXCEPT ![from] = @ - 1, ![to] = @ + 1]
    IN
    /\ Ready(t, "transfer")
    /\ stock' = moved(stock) /\ transferred' = moved(transferred)
    /\ End(t)
    /\ UNCHANGED <<status, items, rows, deducted, goods>>

Returned(sign) ==
    [c \in Cells |-> IF c \in ReturnCells THEN stock[c] + sign * goods.accepted[c[1]] ELSE stock[c]]

CommitClose(t) ==
    /\ Ready(t, "close")
    /\ stock' = Returned(1)
    /\ goods' = [goods EXCEPT !.status = "closed"]
    /\ End(t)
    /\ UNCHANGED <<status, items, rows, deducted, transferred>>

CommitReopen(t) ==
    /\ Ready(t, "reopen")
    /\ stock' = Returned(-1)
    /\ goods' = [goods EXCEPT !.status = "pending"]
    /\ End(t)
    /\ UNCHANGED <<status, items, rows, deducted, transferred>>

(* confirm_goods_return_item, when no transaction holds the return's row. *)
AcceptLine(p, bags) ==
    /\ goods.status = "pending" /\ ops < MaxOps
    /\ \A t \in Txs : Busy(t) => Head(LockReturn) \notin tx[t].held
    /\ goods.accepted[p] # bags
    /\ goods' = [goods EXCEPT !.accepted[p] = bags]
    /\ ops' = ops + 1
    /\ UNCHANGED <<status, items, rows, deducted, stock, transferred, tx>>
-----------------------------------------------------------------------------
(* The bags an order really took from each cell.  Rows that disagree with   *)
(* the items were left by an edit of an old release, which moved the whole  *)
(* difference on the order's warehouse.                                     *)
Truth(o) == IF status[o] = "shipped" THEN Checked(o) ELSE NoRows
Accounted ==
    LET truth == [o \in Orders |-> Truth(o)]
    IN  [c \in Cells |->
           transferred[c] - Total([o \in Orders |-> truth[o][c]], Orders)
           + (IF goods.status = "closed" /\ c \in ReturnCells THEN goods.accepted[c[1]] ELSE 0)]

(* A shipment of this release or of an older one, or one recorded afterwards *)
(* without touching the stock (fixation.py _fix_shipped).                    *)
Init ==
    /\ items \in Ordered
    /\ \E s \in {"confirmed", "shipped"} :
          status = [o \in Orders |-> IF o = Min(Orders) THEN s ELSE "confirmed"]
    /\ \E r \in Pasts \cup {NoRows}, d \in BOOLEAN :
          /\ status[Min(Orders)] = "confirmed" \/ ~d => r = NoRows
          /\ status[Min(Orders)] = "confirmed" => d
          /\ rows = [o \in Orders |-> IF o = Min(Orders) THEN r ELSE NoRows]
          /\ deducted = [o \in Orders |-> IF o = Min(Orders) THEN d ELSE TRUE]
    /\ transferred = [c \in Cells |-> 1]
    /\ \E lines \in ReturnLines :
          goods = [lines |-> lines, accepted |-> [p \in Products |-> 1], status |-> "pending"]
    /\ stock = Accounted
    /\ tx = [t \in Txs |-> Idle]
    /\ ops = 0

Listings(new) == SetToSeqs({p \in Products : new[p] > 0})

Next ==
    \/ \E t \in Txs :
         \/ Grant(t) \/ DeadlockAbort(t) \/ Checks(t)
         \/ CommitShip(t) \/ CommitEdit(t) \/ CommitRollback(t) \/ CommitTransfer(t)
         \/ CommitClose(t) \/ CommitReopen(t)
    \/ \E t \in {u \in Txs : Free(u)} :
         \/ \E o \in Orders : \/ \E plan \in Plans(o) : AskDispatch(t, o, plan)
                              \/ AskComplete(t, o) \/ AskRollback(t, o)
                              \/ \E new \in Compositions : \E s \in Listings(new) : AskEdit(t, o, new, s)
         \/ \E p \in Products, from, to \in Warehouses : AskTransfer(t, p, from, to)
         \/ \E op \in {"close", "reopen"} : AskReturn(t, op)
    \/ \E p \in Products, bags \in 0 .. 1 : AcceptLine(p, bags)

Spec == Init /\ [][Next]_vars
-----------------------------------------------------------------------------
(* What a transaction of each operation is about, and the locks. *)
Locks == [kind : {"order", "return", "warehouse", "product"}, id : Nat,
          mode : {"update", "nokey", "share"}]
OpenedAs(names, args) == [op : names, arg : args, stage : {"check", "commit"},
                         want : Seq(Locks), held : SUBSET Locks]
Opened == OpenedAs({"dispatch"}, [order : Orders, plan : [Cells -> Nat]])
          \cup OpenedAs({"complete", "rollback"}, [order : Orders])
          \cup OpenedAs({"edit"}, [order : Orders, new : Compositions, listed : Seq(Products)])
          \cup OpenedAs({"transfer"}, [product : Products, from : Warehouses, to : Warehouses])
          \cup OpenedAs({"close", "reopen"}, [lines : ReturnLines])

TypeOK ==
    /\ status \in [Orders -> {"confirmed", "shipped"}]
    /\ items \in [Orders -> Compositions]
    /\ rows \in [Orders -> [Cells -> Nat]] /\ deducted \in [Orders -> BOOLEAN]
    /\ stock \in [Cells -> Int] /\ transferred \in [Cells -> Int]
    /\ goods \in [lines : ReturnLines, accepted : [Products -> Nat], status : {"pending", "closed"}]
    /\ tx \in [Txs -> {Idle} \cup Opened]
    /\ ops \in 0 .. MaxOps

(* Whatever was shipped, corrected, rolled back, returned and transferred,  *)
(* by whichever transactions at once, the balance of every stock card is    *)
(* the opening balance with the transfers, less what the shipped orders     *)
(* really took from that very card, plus the accepted return: no bag is     *)
(* written off twice, lost, or given back to a warehouse it did not leave.  *)
CellsExplained == stock = Accounted

(* "Sum of bags by product = sum of OrderItem.quantity" (models.py          *)
(* ShipmentSource): an order whose rows agree with its items never comes to *)
(* disagree, although the loader's answer was given before the lock and the *)
(* items may have been edited since.                                        *)
RowsAgree(o) == status[o] = "shipped" /\ Basis(o) = "recorded" => \A p \in Products : Gap(o, p) = 0
RowsStayTrue == [][\A o \in Orders : RowsAgree(o) => RowsAgree(o)']_vars

(* absorb_delta: "an increase and an equal decrease undo each other", for   *)
(* every distribution over warehouses a shipped order has come to.          *)
UndoIsExact ==
    \A o \in Orders, p \in Products, d \in 1 .. 2 :
        status[o] = "shipped" /\ Basis(o) = "recorded" =>
            AbsorbDelta(AbsorbDelta(rows[o], p, d, Home[o]), p, -d, Home[o]) = rows[o]

(* Shipments, rollbacks and transfers lock in one global order: however     *)
(* they meet, they never wait for each other in a circle.                   *)
Sorted == {"dispatch", "complete", "rollback", "transfer"}
SortedWritersNeverDeadlock ==
    \A S \in SUBSET Txs : Stuck(S) => \E t \in S : tx[t].op \notin Sorted

(* What reconcile_shipment_stock says of itself: two corrections with       *)
(* overlapping mixed products cannot deadlock.  They can: an edit locks     *)
(* only the products whose bags changed, and its new items reference the    *)
(* other products when it commits.                                          *)
CorrectionsNeverDeadlock ==
    \A S \in SUBSET Txs : Stuck(S) => \E t \in S : tx[t].op # "edit"
-----------------------------------------------------------------------------
(* Why: the inductive invariant behind the properties above.               *)

(* A transaction that is not a transfer locks the row of its order, or of   *)
(* the return, before it looks; what it saw then stays true until it ends.  *)
FirstLock(r) == IF r.op \in {"close", "reopen"} THEN Head(LockReturn)
                ELSE Head(LockOrder(r.arg.order))
Covered(r) ==
    r.op # "transfer" =>
        /\ r.stage = "check" => \/ r.want = <<FirstLock(r)>> /\ r.held = {}
                                \/ r.want = <<>> /\ r.held = {FirstLock(r)}
        /\ r.stage = "commit" => FirstLock(r) \in r.held /\ ~Refused(r)

(* The locks two transactions hold are compatible. *)
Exclusive ==
    \A t, u \in Txs : (t # u /\ Busy(t) /\ Busy(u)) =>
        \A a \in tx[t].held, b \in tx[u].held : Compatible(a, b)

(* The order of the locks: the order's row, the main warehouse, the others, *)
(* the products.  Shared locks on warehouses come last and wait for none.   *)
Rank(l) == CASE l.kind \in {"order", "return"} -> 0
             [] l.kind = "warehouse" -> IF l.id = Main THEN 1 ELSE 2
             [] l.kind = "product" -> 3
Precedes(a, b) == Rank(a) < Rank(b) \/ (Rank(a) = Rank(b) /\ a.id < b.id)
Calm(l) == l.kind = "warehouse" /\ l.mode = "share"

(* What is held when the i-th of the wanted locks is asked for. *)
Behind(r, i) == r.held \cup {r.want[j] : j \in 1 .. (i - 1)}
Rising(r) ==
    r.op \in Sorted =>
        /\ \A l \in r.held : l.kind = "warehouse" => l.mode # "update"
        /\ \A i \in DOMAIN r.want : LET l == r.want[i] IN
              /\ l.kind = "warehouse" => l.mode # "update"
              /\ Calm(l) \/ l \in Behind(r, i) \/ \A b \in Behind(r, i) : Precedes(b, l)

IInv ==
    /\ TypeOK /\ CellsExplained /\ Exclusive
    /\ \A t \in Txs : Busy(t) => Covered(tx[t]) /\ Rising(tx[t])
=============================================================================
