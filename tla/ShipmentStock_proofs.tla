-------------------------- MODULE ShipmentStock_proofs --------------------------
(* What is proved of ShipmentStock for any number of orders, products,      *)
(* warehouses and transactions: the balance of every stock card, undo, the  *)
(* agreement of rows and items, and that sorted writers do not deadlock.    *)
EXTENDS ShipmentStock, Sums_proofs

-----------------------------------------------------------------------------
(* Finite sets with a strict order, given as a set of pairs. *)

StrictOn(R, S) ==
  /\ \A x \in S : <<x, x>> \notin R
  /\ \A x, y, z \in S : <<x, y>> \in R /\ <<y, z>> \in R => <<x, z>> \in R
TotalOn(R, S) == \A x, y \in S : x # y => <<x, y>> \in R \/ <<y, x>> \in R

\* Somebody has nobody before him: there is no endless chain.
LEMMA NoEndlessChain ==
  ASSUME NEW S, IsFiniteSet(S), S # {}, NEW R, StrictOn(R, S)
  PROVE  \E x \in S : \A y \in S : <<y, x>> \notin R
<1> DEFINE below(x) == {y \in S : <<y, x>> \in R}
           B == {below(x) : x \in S}
<1>1. B \subseteq SUBSET S /\ B # {}
  OBVIOUS
<1>2. PICK T \in B : \A U \in SUBSET T : U # T => U \notin B
  BY <1>1, SmallestSet
<1>3. PICK x \in S : T = below(x)
  OBVIOUS
<1>4. ASSUME NEW y \in S, <<y, x>> \in R
      PROVE  FALSE
  <2>1. below(y) \in SUBSET T /\ y \in T /\ y \notin below(y)
    BY <1>3, <1>4 DEF StrictOn
  <2>2. below(y) \in B
    OBVIOUS
  <2> QED BY <1>2, <2>1, <2>2
<1> QED BY <1>4

SortedBy(R, s) == \A i, j \in DOMAIN s : i < j => <<s[i], s[j]>> \in R

\* A sequence that lists a finite set names its elements once each.
LEMMA Listing ==
  ASSUME NEW S, IsFiniteSet(S), NEW s \in SetToSeqs(S)
  PROVE  /\ s \in Seq(S) /\ DOMAIN s = 1 .. Cardinality(S) /\ Cardinality(S) \in Nat
         /\ Len(s) = Cardinality(S) /\ \A i \in DOMAIN s : s[i] \in S
<1>1. Cardinality(S) \in Nat
  BY FS_CardinalityType
<1>2. s \in [1 .. Cardinality(S) -> S]
  BY DEF SetToSeqs
<1> HIDE DEF SetToSeqs
<1> QED BY <1>1, <1>2

\* A finite set with a total order can be listed in that order.
LEMMA SortedExists ==
  ASSUME NEW S, IsFiniteSet(S), NEW R, StrictOn(R, S), TotalOn(R, S)
  PROVE  \E s \in SetToSeqs(S) : SortedBy(R, s)
<1> DEFINE listed(T) == \E s \in SetToSeqs(T) : SortedBy(R, s)
           B == {T \in SUBSET S : ~listed(T)}
<1>1. SUFFICES ASSUME B # {} PROVE FALSE
  OBVIOUS
<1>2. PICK T \in B : \A U \in SUBSET T : U # T => U \notin B
  <2>1. B \subseteq SUBSET S
    OBVIOUS
  <2> HIDE DEF B
  <2> QED BY <1>1, <2>1, SmallestSet
<1>3. T \in SUBSET S /\ ~listed(T) /\ IsFiniteSet(T)
  BY <1>2, FS_Subset
<1>4. T # {}
  <2> SUFFICES ASSUME T = {} PROVE listed(T)
    BY <1>3
  <2> DEFINE s == [i \in 1 .. 0 |-> 0]
  <2>1. Cardinality(T) = 0
    BY FS_EmptySet
  <2>2. s \in SetToSeqs(T)
    BY <2>1 DEF SetToSeqs
  <2>3. SortedBy(R, s)
    BY DEF SortedBy
  <2> QED BY <2>2, <2>3
<1>5. PICK m \in T : \A y \in T : <<y, m>> \notin R
  BY <1>3, <1>4, NoEndlessChain DEF StrictOn
<1> DEFINE U == T \ {m}
<1>6. listed(U)
  BY <1>2, <1>3
<1>7. PICK u \in SetToSeqs(U) : SortedBy(R, u)
  BY <1>6
<1> DEFINE n == Cardinality(U)
           s == [i \in 1 .. n + 1 |-> IF i = 1 THEN m ELSE u[i - 1]]
<1>8. /\ n \in Nat /\ Cardinality(T) = n + 1
      /\ u \in [1 .. n -> U] /\ \A i, j \in 1 .. n : i # j => u[i] # u[j]
  <2>1. IsFiniteSet(U) /\ Cardinality(U) = Cardinality(T) - 1
    BY <1>3, FS_RemoveElement
  <2>2. Cardinality(U) \in Nat /\ Cardinality(T) \in Nat
    BY <1>3, <2>1, FS_CardinalityType
  <2>3. u \in [1 .. n -> U] /\ \A i, j \in 1 .. n : i # j => u[i] # u[j]
    BY <1>7 DEF SetToSeqs
  <2> HIDE DEF U
  <2> QED BY <2>1, <2>2, <2>3
<1> HIDE DEF n
<1>9. s \in SetToSeqs(T)
  <2>1. s \in [1 .. n + 1 -> T]
    BY <1>8
  <2>2. ASSUME NEW i \in 1 .. n + 1, NEW j \in 1 .. n + 1, i # j
        PROVE  s[i] # s[j]
    BY <1>8, <2>2
  <2> QED BY <1>8, <2>1, <2>2 DEF SetToSeqs
<1>10. SortedBy(R, s)
  <2> SUFFICES ASSUME NEW i \in 1 .. n + 1, NEW j \in 1 .. n + 1, i < j
               PROVE  <<s[i], s[j]>> \in R
    BY <1>8 DEF SortedBy
  <2>1. j - 1 \in 1 .. n /\ s[j] = u[j - 1] /\ u[j - 1] \in U
    BY <1>8
  <2>2. CASE i = 1
    BY <1>3, <1>5, <2>1, <2>2 DEF TotalOn
  <2>3. CASE i # 1
    <3>1. i - 1 \in 1 .. n /\ s[i] = u[i - 1] /\ i - 1 < j - 1 /\ DOMAIN u = 1 .. n
      BY <1>8, <2>3
    <3> QED BY <1>7, <2>1, <3>1 DEF SortedBy
  <2> QED BY <2>2, <2>3
<1> QED BY <1>3, <1>9, <1>10

\* A set of numbers has an ascending enumeration, so Ascending is one.
LEMMA AscendingIs ==
  ASSUME NEW S \in SUBSET Nat, IsFiniteSet(S)
  PROVE  /\ Ascending(S) \in SetToSeqs(S)
         /\ \A i, j \in DOMAIN Ascending(S) : i < j => Ascending(S)[i] < Ascending(S)[j]
<1> DEFINE R == {r \in S \X S : r[1] < r[2]}
<1>1. StrictOn(R, S) /\ TotalOn(R, S)
  BY DEF StrictOn, TotalOn
<1>2. PICK s \in SetToSeqs(S) : SortedBy(R, s)
  BY <1>1, SortedExists
<1>3. \A i, j \in DOMAIN s : i < j => s[i] < s[j]
  BY <1>2 DEF SortedBy
<1> QED BY <1>2, <1>3 DEF Ascending

\* A pair is the pair of its halves.
LEMMA PairOf ==
  ASSUME NEW A, NEW B, NEW c \in A \X B
  PROVE  c = <<c[1], c[2]>> /\ c[1] \in A /\ c[2] \in B
OBVIOUS

\* A finite set of cells has an enumeration by product and warehouse, so CellOrder is one.
LEMMA CellOrderIs ==
  ASSUME NEW S \in SUBSET Cells, IsFiniteSet(S)
  PROVE  CellOrder(S) \in SetToSeqs(S)
<1> DEFINE less(c, d) == c[1] < d[1] \/ (c[1] = d[1] /\ c[2] < d[2])
           R == {r \in S \X S : less(r[1], r[2])}
<1>1. ASSUME NEW c \in S
      PROVE  c = <<c[1], c[2]>> /\ c[1] \in Nat /\ c[2] \in Nat
  <2>1. c \in Products \X Warehouses /\ Products \subseteq Nat /\ Warehouses \subseteq Nat
    BY StockAssumption DEF Cells
  <2> QED BY <2>1, PairOf
<1>2. StrictOn(R, S)
  BY <1>1 DEF StrictOn
<1>3. TotalOn(R, S)
  BY <1>1 DEF TotalOn
<1>4. PICK s \in SetToSeqs(S) : SortedBy(R, s)
  BY <1>2, <1>3, SortedExists
<1>5. \A i, j \in DOMAIN s : i < j => less(s[i], s[j])
  BY <1>4 DEF SortedBy
<1> QED BY <1>4, <1>5 DEF CellOrder

-----------------------------------------------------------------------------
(* Taking from one cell after the other until enough is taken. *)

\* The smaller and the larger of two numbers.
LEMMA OfTwo ==
  ASSUME NEW a \in Int, NEW b \in Int
  PROVE  /\ Min({a, b}) = IF a <= b THEN a ELSE b
         /\ Max({a, b}) = IF a >= b THEN a ELSE b
BY DEF Min, Max

Earlier(R, S, x) == {y \in S : <<y, x>> \in R}
Taken(r, need, R, S) ==
  [x \in S |-> Min({r[x], Max({0, need - SumOver(r, Earlier(R, S, x))})})]

\* What the greedy rule takes at x: nothing, all of it, or the rest of the need.
LEMMA TakenIs ==
  ASSUME NEW S, IsFiniteSet(S), NEW R, NEW r, \A x \in S : r[x] \in Nat, NEW need \in Nat,
         NEW x \in S
  PROVE  LET before == SumOver(r, Earlier(R, S, x))
         IN /\ before \in Nat /\ Taken(r, need, R, S)[x] \in Nat
            /\ Taken(r, need, R, S)[x] =
                 IF need <= before THEN 0 ELSE IF r[x] <= need - before THEN r[x] ELSE need - before
<1> DEFINE before == SumOver(r, Earlier(R, S, x))
           rest == Max({0, need - before})
<1>1. Earlier(R, S, x) \in SUBSET S /\ IsFiniteSet(Earlier(R, S, x))
  BY FS_Subset DEF Earlier
<1>2. before \in Nat
  BY <1>1, SumNat
<1>3. Taken(r, need, R, S)[x] = Min({r[x], rest})
  BY DEF Taken
<1> HIDE DEF before
<1>4. rest = IF 0 >= need - before THEN 0 ELSE need - before
  <2> DEFINE d == need - before
  <2>1. d \in Int /\ 0 \in Int
    BY <1>2
  <2> HIDE DEF d
  <2>2. Max({0, d}) = IF 0 >= d THEN 0 ELSE d
    BY <2>1, OfTwo
  <2> QED BY <2>2 DEF d
<1>5. rest \in Nat
  BY <1>2, <1>4
<1> HIDE DEF rest
<1>6. r[x] \in Nat /\ Min({r[x], rest}) = IF r[x] <= rest THEN r[x] ELSE rest
  BY <1>5, OfTwo
<1> QED BY <1>2, <1>3, <1>4, <1>5, <1>6 DEF before

\* Together that is what is needed, or all there is.
LEMMA Greedy ==
  ASSUME NEW S, IsFiniteSet(S), NEW R, StrictOn(R, S), TotalOn(R, S),
         NEW r, \A x \in S : r[x] \in Nat, NEW need \in Nat
  PROVE  SumOver(Taken(r, need, R, S), S) =
           IF need <= SumOver(r, S) THEN need ELSE SumOver(r, S)
<1> DEFINE enough(T) == SumOver(Taken(r, need, R, T), T) =
                          IF need <= SumOver(r, T) THEN need ELSE SumOver(r, T)
           B == {T \in SUBSET S : ~enough(T)}
<1>1. SUFFICES ASSUME B # {} PROVE FALSE
  OBVIOUS
<1>2. PICK T \in B : \A U \in SUBSET T : U # T => U \notin B
  <2>1. B \subseteq SUBSET S
    OBVIOUS
  <2> HIDE DEF B
  <2> QED BY <1>1, <2>1, SmallestSet
<1>3. T \in SUBSET S /\ ~enough(T) /\ IsFiniteSet(T)
  BY <1>2, FS_Subset
<1>4. T # {}
  <2>1. SumOver(Taken(r, need, R, {}), {}) = 0 /\ SumOver(r, {}) = 0
    BY SumEmpty
  <2> QED BY <1>3, <2>1
<1>5. PICK m \in T : \A y \in T : <<m, y>> \notin R
  <2> DEFINE Q == {q \in T \X T : <<q[2], q[1]>> \in R}
  <2>1. \A x, y \in T : <<x, y>> \in Q <=> <<y, x>> \in R
    OBVIOUS
  <2> HIDE DEF Q
  <2>2. StrictOn(Q, T)
    BY <1>3, <2>1 DEF StrictOn
  <2>3. PICK m \in T : \A y \in T : <<y, m>> \notin Q
    BY <1>3, <1>4, <2>2, NoEndlessChain
  <2> QED BY <2>1, <2>3
<1> DEFINE U == T \ {m}
           f == Taken(r, need, R, T)
           g == Taken(r, need, R, U)
<1>6. /\ U \in SUBSET T /\ U \in SUBSET S /\ U # T /\ IsFiniteSet(U)
      /\ \A x \in T : r[x] \in Nat
      /\ \A x \in U : r[x] \in Nat
  BY <1>3, FS_Subset
<1>7. enough(U)
  BY <1>2, <1>6
<1>8. \A x \in U : Earlier(R, T, x) = Earlier(R, U, x)
  BY <1>5 DEF Earlier
<1>9. Earlier(R, T, m) = U
  BY <1>3, <1>5 DEF Earlier, TotalOn, StrictOn
<1>10. \A x \in U : f[x] = g[x]
  BY <1>8 DEF Taken
<1>11. \A x \in T : f[x] \in Int
  <2> HIDE DEF U, enough, B
  <2> QED BY <1>3, <1>6, TakenIs
<1>12. SumOver(f, T) = f[m] + SumOver(f, U)
  <2> HIDE DEF f, enough, B
  <2> QED BY <1>3, <1>11, SumRemove
<1>13. SumOver(f, U) = SumOver(g, U)
  <2> HIDE DEF f, g, U, enough, B
  <2> QED BY <1>6, <1>10, SumSame
<1>14. SumOver(r, T) = r[m] + SumOver(r, U) /\ SumOver(r, U) \in Nat /\ r[m] \in Nat
  <2>1. \A x \in T : r[x] \in Int
    BY <1>6
  <2>2. SumOver(r, T) = r[m] + SumOver(r, U)
    BY <1>3, <2>1, SumRemove
  <2>3. SumOver(r, U) \in Nat
    BY <1>6, SumNat
  <2> QED BY <1>6, <2>2, <2>3
<1>15. f[m] = LET before == SumOver(r, U) IN
                IF need <= before THEN 0 ELSE IF r[m] <= need - before THEN r[m] ELSE need - before
  <2> HIDE DEF enough, B, U
  <2> QED BY <1>3, <1>6, <1>9, TakenIs
<1>16. enough(T)
  <2>1. SumOver(g, U) = IF need <= SumOver(r, U) THEN need ELSE SumOver(r, U)
    BY <1>7
  <2> DEFINE a == SumOver(r, U)
  <2>2. SumOver(f, T) = (IF need <= a THEN 0 ELSE IF r[m] <= need - a THEN r[m] ELSE need - a)
                        + (IF need <= a THEN need ELSE a)
    BY <1>12, <1>13, <1>15, <2>1
  <2>3. SumOver(r, T) = r[m] + a /\ a \in Nat /\ r[m] \in Nat
    BY <1>14
  <2> HIDE DEF a, f, g, U
  <2>4. SumOver(f, T) = IF need <= r[m] + a THEN need ELSE r[m] + a
    BY <2>2, <2>3
  <2> QED BY <2>3, <2>4 DEF f
<1> QED BY <1>3, <1>16

-----------------------------------------------------------------------------
(* The cells of a product and the order in which absorb_delta takes them. *)

\* Cells are pairs of a product and a warehouse, finitely many for each product.
LEMMA CellFacts ==
  /\ IsFiniteSet(Cells)
  /\ \A c \in Cells : c = <<c[1], c[2]>> /\ c[1] \in Products /\ c[2] \in Warehouses
                      /\ c[2] \in Nat /\ c \in CellsOf(c[1])
  /\ \A p \in Products, w \in Warehouses : <<p, w>> \in Cells /\ <<p, w>> \in CellsOf(p)
  /\ \A p \in Products : /\ CellsOf(p) \in SUBSET Cells /\ IsFiniteSet(CellsOf(p))
                         /\ \A c \in CellsOf(p) : c[1] = p
<1>1. IsFiniteSet(Products) /\ IsFiniteSet(Warehouses) /\ Warehouses \subseteq Nat
  BY StockAssumption
<1>2. IsFiniteSet(Cells)
  BY <1>1, FS_Product DEF Cells
<1>3. ASSUME NEW c \in Cells
      PROVE  c = <<c[1], c[2]>> /\ c[1] \in Products /\ c[2] \in Warehouses
             /\ c[2] \in Nat /\ c \in CellsOf(c[1])
  <2>1. c = <<c[1], c[2]>> /\ c[1] \in Products /\ c[2] \in Warehouses
    BY PairOf DEF Cells
  <2>2. <<c[1], c[2]>> \in {c[1]} \X Warehouses
    BY <2>1
  <2> QED BY <1>1, <2>1, <2>2 DEF CellsOf
<1>4. \A p \in Products, w \in Warehouses : <<p, w>> \in Cells /\ <<p, w>> \in CellsOf(p)
  BY DEF Cells, CellsOf
<1>5. ASSUME NEW p \in Products
      PROVE  /\ CellsOf(p) \in SUBSET Cells /\ IsFiniteSet(CellsOf(p))
             /\ \A c \in CellsOf(p) : c[1] = p
  <2>1. ASSUME NEW c \in CellsOf(p)
        PROVE  c \in Cells /\ c[1] = p
    <3>1. c = <<c[1], c[2]>> /\ c[1] \in {p} /\ c[2] \in Warehouses
      BY PairOf DEF CellsOf
    <3>2. c[1] = p
      BY <3>1
    <3>3. c = <<p, c[2]>> /\ c[2] \in Warehouses
      BY <3>1, <3>2
    <3> QED BY <1>4, <3>2, <3>3
  <2>2. CellsOf(p) \in SUBSET Cells
    BY <2>1
  <2>3. IsFiniteSet(CellsOf(p))
    BY <1>2, <2>2, FS_Subset
  <2> QED BY <2>1, <2>2, <2>3
<1> QED BY <1>2, <1>3, <1>4, <1>5

OrderOf(r, anchor, S) == {q \in S \X S : Before(r, anchor, q[1], q[2])}

\* The order of absorb_delta is a strict total order on the rowed cells of a product.
LEMMA BeforeIsOrder ==
  ASSUME NEW r \in [Cells -> Nat], NEW p \in Products, NEW anchor
  PROVE  LET S == Rowed(r, p)
             R == OrderOf(r, anchor, S)
         IN /\ S \in SUBSET CellsOf(p) /\ S \in SUBSET Cells /\ IsFiniteSet(S)
            /\ StrictOn(R, S) /\ TotalOn(R, S)
            /\ \A c \in S : r[c] \in Nat /\ r[c] > 0 /\ c[1] = p
            /\ \A c \in S : Ahead(r, anchor, c) = Earlier(R, S, c)
            /\ \A c, d \in S : c # d => Before(r, anchor, c, d) \/ Before(r, anchor, d, c)
            /\ \A c, d \in S : Before(r, anchor, c, d) => ~Before(r, anchor, d, c)
<1> DEFINE S == Rowed(r, p)
           R == OrderOf(r, anchor, S)
<1>1. S \in SUBSET CellsOf(p) /\ S \in SUBSET Cells /\ IsFiniteSet(S)
  BY CellFacts, FS_Subset DEF Rowed
<1>2. \A c \in S : r[c] \in Nat /\ r[c] > 0 /\ c[1] = p /\ c = <<p, c[2]>> /\ c[2] \in Nat
  BY <1>1, CellFacts DEF Rowed
<1>3. \A c, d \in S : <<c, d>> \in R <=> Before(r, anchor, c, d)
  BY DEF OrderOf
<1> HIDE DEF S, R
<1>4. \A c \in S : ~Before(r, anchor, c, c)
  BY <1>2 DEF Before
<1>5. \A c, d, e \in S : Before(r, anchor, c, d) /\ Before(r, anchor, d, e) => Before(r, anchor, c, e)
  BY <1>2 DEF Before
<1>6. \A c, d \in S : c # d => Before(r, anchor, c, d) \/ Before(r, anchor, d, c)
  <2> SUFFICES ASSUME NEW c \in S, NEW d \in S, c # d
               PROVE  Before(r, anchor, c, d) \/ Before(r, anchor, d, c)
    OBVIOUS
  <2>1. c[2] # d[2]
    BY <1>2
  <2> QED BY <1>2, <2>1 DEF Before
<1>7. \A c, d \in S : Before(r, anchor, c, d) => ~Before(r, anchor, d, c)
  BY <1>4, <1>5
<1>8. \A c \in S : Ahead(r, anchor, c) = Earlier(R, S, c)
  BY <1>2, <1>3 DEF Ahead, Earlier, S
<1>9. StrictOn(R, S)
  BY <1>3, <1>4, <1>5 DEF StrictOn
<1>10. TotalOn(R, S)
  BY <1>3, <1>6 DEF TotalOn
<1>11. \A c \in S : r[c] \in Nat /\ r[c] > 0 /\ c[1] = p
  BY <1>2
<1> QED BY <1>1, <1>6, <1>7, <1>8, <1>9, <1>10, <1>11 DEF S, R

\* The model's Total is the sum the lemmas are about.
LEMMA TotalIsSum ==
  ASSUME NEW f, NEW S
  PROVE  Total(f, S) = SumOver(f, S)
BY DEF Total, SumOver

\* Where an increase goes: to one cell of the product, with nothing ahead.
FirstCell(r, p, anchor) ==
  IF Rowed(r, p) = {} THEN <<p, anchor>> ELSE CHOOSE c \in Rowed(r, p) : Ahead(r, anchor, c) = {}

\* The cell an increase goes to is the first in that order, or the anchor's.
LEMMA FirstCellIs ==
  ASSUME NEW r \in [Cells -> Nat], NEW p \in Products, NEW anchor \in Warehouses
  PROVE  LET first == FirstCell(r, p, anchor)
         IN /\ first \in CellsOf(p) /\ first \in Cells
            /\ Rowed(r, p) # {} => first \in Rowed(r, p) /\ Ahead(r, anchor, first) = {}
            /\ Rowed(r, p) = {} => first = <<p, anchor>> /\ r[first] = 0
<1> DEFINE S == Rowed(r, p)
           R == OrderOf(r, anchor, S)
           first == FirstCell(r, p, anchor)
<1>1. CASE S = {}
  <2>1. first = <<p, anchor>> /\ first \in CellsOf(p) /\ first \in Cells
    BY <1>1, CellFacts DEF FirstCell
  <2>2. r[first] \in Nat /\ first \notin S
    BY <1>1, <2>1
  <2>3. r[first] = 0
    BY <2>1, <2>2 DEF Rowed
  <2> QED BY <1>1, <2>1, <2>3
<1>2. CASE S # {}
  <2>1. /\ IsFiniteSet(S) /\ StrictOn(R, S) /\ S \in SUBSET CellsOf(p) /\ S \in SUBSET Cells
        /\ \A c \in S : Ahead(r, anchor, c) = Earlier(R, S, c)
    BY BeforeIsOrder
  <2> HIDE DEF S, R
  <2>2. PICK c \in S : \A y \in S : <<y, c>> \notin R
    BY <1>2, <2>1, NoEndlessChain
  <2>3. Ahead(r, anchor, c) = {}
    BY <2>1, <2>2 DEF Earlier
  <2>4. first \in S /\ Ahead(r, anchor, first) = {}
    BY <1>2, <2>3 DEF FirstCell, S
  <2> QED BY <1>2, <2>1, <2>4 DEF S
<1> QED BY <1>1, <1>2

-----------------------------------------------------------------------------
(* absorb_delta: what it leaves in the cells. *)

\* An increase adds its bags to one cell of the product.
LEMMA IncreaseIs ==
  ASSUME NEW r \in [Cells -> Nat], NEW p \in Products, NEW anchor \in Warehouses, NEW d \in Nat
  PROVE  LET s == AbsorbIncrease(r, p, d, anchor)
             first == FirstCell(r, p, anchor)
         IN /\ s \in [Cells -> Nat]
            /\ s[first] = r[first] + d
            /\ \A c \in Cells : c # first => s[c] = r[c]
            /\ SumOver(s, CellsOf(p)) = SumOver(r, CellsOf(p)) + d
<1> DEFINE s == AbsorbIncrease(r, p, d, anchor)
           first == FirstCell(r, p, anchor)
<1>1. first \in CellsOf(p) /\ first \in Cells
  BY FirstCellIs
<1>2. s = [r EXCEPT ![first] = @ + d]
  BY DEF AbsorbIncrease, FirstCell
<1> HIDE DEF s, first
<1>3. /\ s \in [Cells -> Nat] /\ s[first] = r[first] + d
      /\ \A c \in Cells : c # first => s[c] = r[c]
  BY <1>1, <1>2
<1>4. IsFiniteSet(CellsOf(p)) /\ CellsOf(p) \in SUBSET Cells
  BY CellFacts
<1>5. /\ \A c \in CellsOf(p) : r[c] \in Int /\ s[c] \in Int
      /\ \A c \in CellsOf(p) \ {first} : s[c] = r[c]
  BY <1>3, <1>4
<1>6. SumOver(s, CellsOf(p)) = SumOver(r, CellsOf(p)) - r[first] + s[first]
  BY <1>1, <1>4, <1>5, SumChange
<1>7. SumOver(r, CellsOf(p)) \in Int /\ r[first] \in Nat
  BY <1>1, <1>4, <1>5, SumInt
<1>8. SumOver(s, CellsOf(p)) = SumOver(r, CellsOf(p)) + d
  BY <1>3, <1>6, <1>7
<1> QED BY <1>3, <1>8 DEF s, first

\* A decrease takes from each cell with a row what it must, and no more than
\* it has.
LEMMA DecreaseIs ==
  ASSUME NEW r \in [Cells -> Nat], NEW p \in Products, NEW anchor, NEW need \in Nat
  PROVE  LET s == AbsorbDecrease(r, p, need, anchor)
             before(c) == SumOver(r, Ahead(r, anchor, c))
         IN /\ s \in [Cells -> Nat]
            /\ \A c \in Rowed(r, p) :
                 /\ before(c) \in Nat
                 /\ s[c] = r[c] - (IF need <= before(c) THEN 0
                                   ELSE IF r[c] <= need - before(c) THEN r[c] ELSE need - before(c))
            /\ \A c \in Cells : c \notin Rowed(r, p) => s[c] = r[c]
            /\ need <= SumOver(r, CellsOf(p)) =>
                 SumOver(s, CellsOf(p)) = SumOver(r, CellsOf(p)) - need
<1> DEFINE s == AbsorbDecrease(r, p, need, anchor)
           S == Rowed(r, p)
           R == OrderOf(r, anchor, S)
           g == Taken(r, need, R, S)
           before(c) == SumOver(r, Ahead(r, anchor, c))
           cut(c) == IF need <= before(c) THEN 0
                     ELSE IF r[c] <= need - before(c) THEN r[c] ELSE need - before(c)
<1>1. /\ S \in SUBSET CellsOf(p) /\ S \in SUBSET Cells /\ IsFiniteSet(S)
      /\ StrictOn(R, S) /\ TotalOn(R, S)
      /\ \A c \in S : r[c] \in Nat /\ r[c] > 0 /\ c[1] = p
      /\ \A c \in S : Ahead(r, anchor, c) = Earlier(R, S, c)
  BY BeforeIsOrder
<1>2. ASSUME NEW c \in S
      PROVE  /\ before(c) \in Nat /\ g[c] \in Nat /\ g[c] = cut(c)
             /\ s[c] = r[c] - g[c] /\ g[c] <= r[c]
  <2> HIDE DEF R
  <2>1. Ahead(r, anchor, c) = Earlier(R, S, c) /\ r[c] \in Nat
    BY <1>1
  <2>2. before(c) \in Nat /\ g[c] \in Nat /\ g[c] = cut(c)
    <3> HIDE DEF S
    <3> QED BY <1>1, <2>1, TakenIs
  <2>3. s[c] = r[c] - Min({r[c], Max({0, need - Total(r, Ahead(r, anchor, c))})})
    BY <1>1 DEF AbsorbDecrease
  <2>4. g[c] = Min({r[c], Max({0, need - SumOver(r, Ahead(r, anchor, c))})})
    BY <2>1 DEF Taken
  <2>5. s[c] = r[c] - g[c]
    BY <2>3, <2>4, TotalIsSum
  <2>6. g[c] <= r[c]
    <3> HIDE DEF g, before
    <3> QED BY <2>1, <2>2
  <2> QED BY <2>2, <2>5, <2>6
<1>3. \A c \in Cells : c \notin S => s[c] = r[c]
  BY DEF AbsorbDecrease
<1>4. DOMAIN s = Cells /\ s = [c \in Cells |-> s[c]]
  BY DEF AbsorbDecrease
<1> HIDE DEF s, S, R, g, before
<1>5. \A c \in Cells : s[c] \in Nat
  BY <1>1, <1>2, <1>3
<1>6. s \in [Cells -> Nat]
  BY <1>4, <1>5
<1>7. ASSUME need <= SumOver(r, CellsOf(p))
      PROVE  SumOver(s, CellsOf(p)) = SumOver(r, CellsOf(p)) - need
  <2> DEFINE N == CellsOf(p) \ S
  <2>1. /\ IsFiniteSet(CellsOf(p)) /\ CellsOf(p) \in SUBSET Cells /\ IsFiniteSet(N)
        /\ S \cap N = {} /\ S \cup N = CellsOf(p)
    BY <1>1, CellFacts, FS_Subset
  <2>2. \A c \in N : r[c] = 0 /\ s[c] = 0
    <3>1. \A c \in N : r[c] \in Nat /\ ~(r[c] > 0)
      BY <2>1 DEF Rowed, S
    <3> QED BY <1>3, <2>1, <3>1
  <2>3. /\ \A c \in S \cup N : r[c] \in Int
        /\ \A c \in S \cup N : s[c] \in Int
    BY <1>5, <2>1
  <2> HIDE DEF N
  <2>4. SumOver(r, N) = 0 /\ SumOver(s, N) = 0
    BY <2>1, <2>2, SumZero
  <2>5. /\ SumOver(r, S \cup N) = SumOver(r, S) + SumOver(r, N)
        /\ SumOver(s, S \cup N) = SumOver(s, S) + SumOver(s, N)
    BY <1>1, <2>1, <2>3, SumOfDisjoint
  <2>6. \A c \in S : s[c] \in Int /\ g[c] \in Int /\ r[c] = s[c] + g[c]
    BY <1>1, <1>2, <1>5
  <2>7. SumOver(r, S) = SumOver(s, S) + SumOver(g, S)
    BY <1>1, <2>6, SumPlus
  <2>8. SumOver(g, S) = IF need <= SumOver(r, S) THEN need ELSE SumOver(r, S)
    BY <1>1, Greedy DEF g
  <2>9. SumOver(r, S) \in Int /\ SumOver(s, S) \in Int
    <3>1. /\ \A c \in S : r[c] \in Int
          /\ \A c \in S : s[c] \in Int
      BY <2>3
    <3> QED BY <1>1, <3>1, SumInt
  <2>10. SumOver(r, CellsOf(p)) = SumOver(r, S) /\ SumOver(s, CellsOf(p)) = SumOver(s, S)
    <3>1. SumOver(r, S \cup N) = SumOver(r, S) /\ SumOver(s, S \cup N) = SumOver(s, S)
      BY <2>4, <2>5, <2>9
    <3> QED BY <2>1, <3>1
  <2>11. SumOver(s, S) = SumOver(r, S) - need
    <3>1. need <= SumOver(r, S)
      BY <1>7, <2>10
    <3> QED BY <2>7, <2>8, <2>9, <3>1
  <2> QED BY <2>10, <2>11
<1>8. /\ s \in [Cells -> Nat]
      /\ \A c \in S : before(c) \in Nat /\ s[c] = r[c] - cut(c)
      /\ \A c \in Cells : c \notin S => s[c] = r[c]
      /\ need <= SumOver(r, CellsOf(p)) => SumOver(s, CellsOf(p)) = SumOver(r, CellsOf(p)) - need
  BY <1>2, <1>3, <1>6, <1>7
<1> QED BY <1>8 DEF s, S, before

\* An increase and the same decrease leave every cell as it was: the cell that
\* got the increase comes first in the decrease too, and has enough.
LEMMA IncreaseUndone ==
  ASSUME NEW r \in [Cells -> Nat], NEW p \in Products, NEW anchor \in Warehouses,
         NEW d \in Nat, d > 0
  PROVE  AbsorbDecrease(AbsorbIncrease(r, p, d, anchor), p, d, anchor) = r
<1> DEFINE s == AbsorbIncrease(r, p, d, anchor)
           u == AbsorbDecrease(s, p, d, anchor)
           first == FirstCell(r, p, anchor)
           before(c) == SumOver(s, Ahead(s, anchor, c))
<1>1. /\ s \in [Cells -> Nat] /\ s[first] = r[first] + d
      /\ \A c \in Cells : c # first => s[c] = r[c]
  BY IncreaseIs
<1>2. /\ first \in CellsOf(p) /\ first \in Cells /\ first[1] = p
      /\ Rowed(r, p) # {} => first \in Rowed(r, p) /\ Ahead(r, anchor, first) = {}
      /\ \A c \in CellsOf(p) : c \in Cells
  BY FirstCellIs, CellFacts
<1> HIDE DEF s, first
<1>3. /\ u \in [Cells -> Nat]
      /\ \A c \in Rowed(s, p) :
           /\ before(c) \in Nat
           /\ u[c] = s[c] - (IF d <= before(c) THEN 0
                             ELSE IF s[c] <= d - before(c) THEN s[c] ELSE d - before(c))
      /\ \A c \in Cells : c \notin Rowed(s, p) => u[c] = s[c]
  BY <1>1, DecreaseIs
<1>4. r[first] \in Nat /\ \A c \in Cells : r[c] \in Nat /\ s[c] \in Nat
  BY <1>1, <1>2
<1>5. first \in Rowed(s, p)
  BY <1>1, <1>2, <1>4 DEF Rowed
<1>6. \A c \in Rowed(s, p) : c # first => c \in Rowed(r, p)
  BY <1>1, <1>2 DEF Rowed
<1>7. ASSUME NEW c \in Rowed(s, p), c # first
      PROVE  Before(s, anchor, first, c)
  <2>1. c \in Rowed(r, p) /\ first \in Rowed(r, p) /\ Ahead(r, anchor, first) = {}
    BY <1>2, <1>6, <1>7
  <2>2. ~Before(r, anchor, c, first)
    BY <1>2, <2>1 DEF Ahead
  <2>3. Before(r, anchor, first, c)
    BY <1>7, <2>1, <2>2, BeforeIsOrder
  <2>4. s[c] = r[c] /\ s[first] = r[first] + d /\ r[c] \in Nat
    BY <1>1, <1>4, <1>7, <2>1, BeforeIsOrder
  <2> QED BY <1>4, <2>3, <2>4 DEF Before
<1>8. Ahead(s, anchor, first) = {}
  <2>1. ASSUME NEW c \in Ahead(s, anchor, first)
        PROVE  FALSE
    <3>1. c \in Rowed(s, p) /\ Before(s, anchor, c, first)
      BY <1>2 DEF Ahead
    <3>2. ~Before(s, anchor, first, c)
      BY <1>1, <1>5, <3>1, BeforeIsOrder
    <3> QED BY <1>7, <3>1, <3>2
  <2> QED BY <2>1
<1>9. ASSUME NEW c \in Cells
      PROVE  u[c] = r[c]
  <2>1. CASE c \notin Rowed(s, p)
    BY <1>1, <1>3, <1>5, <2>1
  <2>2. CASE c = first
    <3>1. before(first) = 0
      BY <1>8, SumEmpty
    <3> HIDE DEF u, before
    <3>2. u[first] = s[first] - (IF s[first] <= d THEN s[first] ELSE d)
      BY <1>3, <1>5, <3>1
    <3> QED BY <1>1, <1>4, <2>2, <3>2
  <2>3. CASE c \in Rowed(s, p) /\ c # first
    <3>1. /\ Ahead(s, anchor, c) \in SUBSET Rowed(s, p) /\ IsFiniteSet(Rowed(s, p))
          /\ first \in Ahead(s, anchor, c) /\ Rowed(s, p) \in SUBSET Cells
      <4>1. c[1] = p /\ IsFiniteSet(Rowed(s, p)) /\ Rowed(s, p) \in SUBSET Cells
        BY <1>1, <2>3, BeforeIsOrder
      <4> QED BY <1>5, <1>7, <2>3, <4>1 DEF Ahead
    <3>2. IsFiniteSet(Ahead(s, anchor, c)) /\ \A x \in Ahead(s, anchor, c) : s[x] \in Nat
      BY <1>4, <3>1, FS_Subset
    <3>3. SumOver(s, {first}) <= before(c)
      <4>1. {first} \in SUBSET Ahead(s, anchor, c)
        BY <3>1
      <4> QED BY <3>2, <4>1, SumOfSubset
    <3>4. SumOver(s, {first}) = s[first]
      BY <1>1, <1>2, <1>4, SumSingle
    <3> HIDE DEF u, before
    <3>5. d <= before(c)
      BY <1>1, <1>3, <1>4, <2>3, <3>3, <3>4
    <3>6. u[c] = s[c] - 0
      BY <1>3, <2>3, <3>5
    <3> QED BY <1>1, <1>4, <2>3, <3>6
  <2> QED BY <2>1, <2>2, <2>3
<1> QED BY <1>3, <1>9 DEF s

\* An increase and an equal decrease undo each other.
LEMMA UndoIsPureData ==
  ASSUME NEW r \in [Cells -> Nat], NEW p \in Products, NEW anchor \in Warehouses, NEW d \in 1 .. 2
  PROVE  AbsorbDelta(AbsorbDelta(r, p, d, anchor), p, -d, anchor) = r
<1>1. d \in Nat /\ d > 0 /\ ~(-d > 0) /\ -(-d) = d
  OBVIOUS
<1>2. AbsorbDecrease(AbsorbIncrease(r, p, d, anchor), p, d, anchor) = r
  BY <1>1, IncreaseUndone
<1> QED BY <1>1, <1>2 DEF AbsorbDelta

\* A correction changes the product's bags by its delta and leaves no cell below zero.
LEMMA AbsorbTotal ==
  ASSUME NEW r \in [Cells -> Nat], NEW p \in Products, NEW anchor \in Warehouses, NEW delta \in Int
  PROVE  LET s == AbsorbDelta(r, p, delta, anchor)
         IN /\ s \in [Cells -> Nat]
            /\ SumOver(r, CellsOf(p)) + delta >= 0 =>
                 SumOver(s, CellsOf(p)) = SumOver(r, CellsOf(p)) + delta
<1>1. CASE delta > 0
  <2>1. delta \in Nat
    BY <1>1
  <2>2. AbsorbDelta(r, p, delta, anchor) = AbsorbIncrease(r, p, delta, anchor)
    BY <1>1 DEF AbsorbDelta
  <2> QED BY <2>1, <2>2, IncreaseIs
<1>2. CASE ~(delta > 0)
  <2> DEFINE s == AbsorbDelta(r, p, delta, anchor)
             a == SumOver(r, CellsOf(p))
  <2>1. -delta \in Nat
    BY <1>2
  <2>2. s = AbsorbDecrease(r, p, -delta, anchor)
    BY <1>2 DEF AbsorbDelta
  <2>3. /\ s \in [Cells -> Nat]
        /\ -delta <= a => SumOver(s, CellsOf(p)) = a - (-delta)
    BY <2>1, <2>2, DecreaseIs
  <2>4. a \in Nat
    <3>1. IsFiniteSet(CellsOf(p)) /\ \A c \in CellsOf(p) : r[c] \in Nat
      BY CellFacts
    <3> QED BY <3>1, SumNat
  <2> HIDE DEF s, a
  <2>5. a + delta >= 0 => SumOver(s, CellsOf(p)) = a + delta
    BY <2>3, <2>4
  <2> QED BY <2>3, <2>5 DEF s, a
<1> QED BY <1>1, <1>2

-----------------------------------------------------------------------------
(* Plans and rows of a shipment. *)

\* q bags of each product, all of them at w.
AllAt(q, w) == [c \in Cells |-> IF c[2] = w THEN q[c[1]] ELSE 0]

\* An order's items have bags of at least one product.
LEMMA CompositionIs ==
  ASSUME NEW q \in Compositions
  PROVE  q \in [Products -> Nat] /\ \E p \in Products : q[p] > 0
BY StockAssumption

\* The order's warehouse is a warehouse.
LEMMA HomeIs == \A o \in Orders : Home[o] \in Warehouses
BY StockAssumption

\* All at one warehouse: the cells of a product add up to the items.
LEMMA AllAtTotal ==
  ASSUME NEW q \in [Products -> Nat], NEW w \in Warehouses
  PROVE  /\ AllAt(q, w) \in [Cells -> Nat]
         /\ \A p \in Products : SumOver(AllAt(q, w), CellsOf(p)) = q[p]
<1> DEFINE f == AllAt(q, w)
<1>1. f \in [Cells -> Nat]
  BY CellFacts DEF AllAt
<1>2. ASSUME NEW p \in Products
      PROVE  SumOver(f, CellsOf(p)) = q[p]
  <2> DEFINE h == <<p, w>>
             N == CellsOf(p) \ {h}
  <2>1. /\ h \in CellsOf(p) /\ IsFiniteSet(CellsOf(p)) /\ CellsOf(p) \in SUBSET Cells
        /\ h \in Cells /\ h[1] = p /\ h[2] = w
    BY CellFacts
  <2>2. f[h] = q[p]
    BY <2>1 DEF AllAt
  <2>3. ASSUME NEW c \in N
        PROVE  f[c] = 0
    <3>1. c \in Cells /\ c[1] = p /\ c = <<c[1], c[2]>> /\ c # h
      BY <2>1, CellFacts
    <3>2. c[2] # w
      BY <3>1
    <3> QED BY <3>1, <3>2 DEF AllAt
  <2> HIDE DEF f, h
  <2>4. IsFiniteSet(N) /\ \A c \in CellsOf(p) : f[c] \in Int
    BY <1>1, <2>1, FS_Subset
  <2>5. SumOver(f, CellsOf(p)) = f[h] + SumOver(f, N)
    BY <2>1, <2>4, SumRemove
  <2>6. SumOver(f, N) = 0
    <3> HIDE DEF N
    <3> QED BY <2>3, <2>4, SumZero
  <2> QED BY <2>2, <2>5, <2>6
<1> QED BY <1>1, <1>2

\* A shipment of an order takes something from somewhere.
LEMMA TakesSomething ==
  ASSUME NEW f \in [Cells -> Nat], NEW q \in Compositions,
         \A p \in Products : SumOver(f, CellsOf(p)) = q[p]
  PROVE  f # NoRows
<1>1. PICK p \in Products : q[p] > 0
  BY CompositionIs
<1>2. SUFFICES ASSUME f = NoRows PROVE FALSE
  OBVIOUS
<1>3. IsFiniteSet(CellsOf(p)) /\ \A c \in CellsOf(p) : f[c] = 0
  BY <1>2, CellFacts DEF NoRows
<1>4. SumOver(f, CellsOf(p)) = 0
  BY <1>3, SumZero
<1>5. q[p] = 0
  BY <1>4
<1> QED BY <1>1, <1>5

\* checked_sources: whatever the basis, the cells it gives add up to the items.
LEMMA CheckedTotal ==
  ASSUME TypeOK, NEW o \in Orders, Basis(o) # "not_deducted"
  PROVE  /\ Checked(o) \in [Cells -> Int]
         /\ ~AllocationMismatch(o) => Checked(o) \in [Cells -> Nat]
         /\ \A p \in Products : SumOver(Checked(o), CellsOf(p)) = items[o][p]
<1> DEFINE f == Checked(o)
           q == items[o]
           r == rows[o]
           w == Home[o]
<1>1. /\ q \in Compositions /\ q \in [Products -> Nat] /\ r \in [Cells -> Nat]
      /\ w \in Warehouses
  BY CompositionIs, HomeIs DEF TypeOK
<1>2. CASE Basis(o) = "legacy"
  <2>1. f = AllAt(q, w)
    BY <1>2 DEF Checked, AllFromHome, AllAt
  <2> HIDE DEF f, q, r, w
  <2>2. f \in [Cells -> Nat] /\ \A p \in Products : SumOver(f, CellsOf(p)) = q[p]
    BY <1>1, <2>1, AllAtTotal
  <2>3. f \in [Cells -> Int]
    BY <2>2
  <2> QED BY <2>2, <2>3 DEF f, q
<1>3. CASE Basis(o) # "legacy"
  <2>1. f = [c \in Cells |-> IF c[2] = w THEN r[c] + Gap(o, c[1]) ELSE r[c]]
    BY <1>3 DEF Checked
  <2>2. \A p \in Products : Gap(o, p) = q[p] - SumOver(r, CellsOf(p))
    BY TotalIsSum DEF Gap
  <2>3. f \in [Cells -> Int] \/ ~(\A p \in Products : Gap(o, p) \in Int)
    <3>1. \A c \in Cells : c[1] \in Products /\ r[c] \in Nat
      BY <1>1, CellFacts
    <3> QED BY <2>1, <3>1
  <2>4. (\A c \in Cells : ~(f[c] < 0)) \/ AllocationMismatch(o)
    BY DEF AllocationMismatch
  <2> DEFINE gap(p) == Gap(o, p)
  <2> HIDE DEF f, q, r, w, gap
  <2>5. ASSUME NEW p \in Products
        PROVE  gap(p) \in Int /\ SumOver(f, CellsOf(p)) = q[p]
    <3> DEFINE h == <<p, w>>
               a == SumOver(r, CellsOf(p))
    <3>1. /\ h \in CellsOf(p) /\ IsFiniteSet(CellsOf(p)) /\ CellsOf(p) \in SUBSET Cells
          /\ h \in Cells /\ h[1] = p /\ h[2] = w
      BY <1>1, CellFacts
    <3>2. a \in Nat /\ q[p] \in Nat
      <4>1. \A c \in CellsOf(p) : r[c] \in Nat
        BY <1>1, <3>1
      <4> QED BY <1>1, <3>1, <4>1, SumNat
    <3>3. gap(p) = q[p] - a
      BY <2>2 DEF gap
    <3>4. gap(p) \in Int
      BY <3>2, <3>3
    <3>5. f[h] = r[h] + gap(p) /\ r[h] \in Nat
      BY <1>1, <2>1, <3>1 DEF gap
    <3>6. ASSUME NEW c \in CellsOf(p) \ {h}
          PROVE  f[c] = r[c]
      <4>1. c \in Cells /\ c[1] = p /\ c = <<c[1], c[2]>> /\ c # h
        BY <3>1, CellFacts
      <4>2. c[2] # w
        BY <4>1
      <4> QED BY <2>1, <4>1, <4>2
    <3> HIDE DEF h, a
    <3>7. \A c \in CellsOf(p) : r[c] \in Int /\ f[c] \in Int
      BY <1>1, <3>1, <3>4, <3>5, <3>6
    <3>8. SumOver(f, CellsOf(p)) = SumOver(r, CellsOf(p)) - r[h] + f[h]
      BY <3>1, <3>6, <3>7, SumChange
    <3>9. SumOver(f, CellsOf(p)) = q[p]
      BY <3>2, <3>3, <3>5, <3>8 DEF a
    <3> QED BY <3>4, <3>9
  <2>6. f \in [Cells -> Int]
    BY <2>3, <2>5 DEF gap
  <2>7. ~AllocationMismatch(o) => f \in [Cells -> Nat]
    BY <2>4, <2>6
  <2> QED BY <2>5, <2>6, <2>7 DEF f, q
<1> QED BY <1>2, <1>3

\* After a correction the cells add up to the new items.
LEMMA ReconciledTotal ==
  ASSUME TypeOK, NEW o \in Orders, Basis(o) # "not_deducted", ~AllocationMismatch(o),
         NEW new \in Compositions
  PROVE  /\ Reconciled(o, new) \in [Cells -> Nat]
         /\ \A p \in Products : SumOver(Reconciled(o, new), CellsOf(p)) = new[p]
<1> DEFINE r == Checked(o)
           q == items[o]
           w == Home[o]
           s(p) == AbsorbDelta(r, p, new[p] - q[p], w)
           f == Reconciled(o, new)
<1>1. /\ q \in [Products -> Nat] /\ new \in [Products -> Nat] /\ w \in Warehouses
  BY CompositionIs, HomeIs DEF TypeOK
<1>2. r \in [Cells -> Nat] /\ \A p \in Products : SumOver(r, CellsOf(p)) = q[p]
  BY CheckedTotal
<1>3. f = [c \in Cells |-> s(c[1])[c]]
  BY DEF Reconciled
<1> HIDE DEF r, q, w, f
<1>4. ASSUME NEW p \in Products
      PROVE  s(p) \in [Cells -> Nat] /\ SumOver(s(p), CellsOf(p)) = new[p]
  <2> DEFINE delta == new[p] - q[p]
             a == SumOver(r, CellsOf(p))
  <2>1. delta \in Int /\ a = q[p] /\ a + delta >= 0 /\ a + delta = new[p]
    BY <1>1, <1>2
  <2> HIDE DEF delta
  <2>2. /\ AbsorbDelta(r, p, delta, w) \in [Cells -> Nat]
        /\ a + delta >= 0 => SumOver(AbsorbDelta(r, p, delta, w), CellsOf(p)) = a + delta
    BY <1>1, <1>2, <2>1, AbsorbTotal
  <2> QED BY <2>1, <2>2 DEF delta
<1> HIDE DEF s
<1>5. f \in [Cells -> Nat]
  BY <1>3, <1>4, CellFacts
<1>6. ASSUME NEW p \in Products
      PROVE  SumOver(f, CellsOf(p)) = new[p]
  <2>1. IsFiniteSet(CellsOf(p)) /\ \A c \in CellsOf(p) : f[c] = s(p)[c]
    BY <1>3, CellFacts
  <2> DEFINE g == s(p)
  <2>2. SumOver(g, CellsOf(p)) = new[p] /\ \A c \in CellsOf(p) : f[c] = g[c]
    BY <1>4, <2>1
  <2> HIDE DEF g
  <2> QED BY <2>1, <2>2, SumSame
<1> QED BY <1>5, <1>6 DEF f

\* A shipment without rows stays one: its correction is all at the order's
\* warehouse, as what it is compared with next time.
LEMMA LegacyFollows ==
  ASSUME TypeOK, NEW o \in Orders, Basis(o) = "legacy", NEW new \in Compositions
  PROVE  Reconciled(o, new) = AllAt(new, Home[o])
<1> DEFINE r == Checked(o)
           q == items[o]
           w == Home[o]
           s(p) == AbsorbDelta(r, p, new[p] - q[p], w)
           f == Reconciled(o, new)
<1>1. /\ q \in [Products -> Nat] /\ new \in [Products -> Nat] /\ w \in Warehouses
  BY CompositionIs, HomeIs DEF TypeOK
<1>2. r = AllAt(q, w)
  BY DEF Checked, AllFromHome, AllAt
<1>3. f = [c \in Cells |-> s(c[1])[c]]
  BY DEF Reconciled
<1> HIDE DEF r, q, w, f
<1>4. r \in [Cells -> Nat]
  BY <1>1, <1>2, AllAtTotal
<1>5. ASSUME NEW p \in Products
      PROVE  \A c \in CellsOf(p) : s(p)[c] = IF c[2] = w THEN new[p] ELSE 0
  <2> DEFINE h == <<p, w>>
             S == Rowed(r, p)
             delta == new[p] - q[p]
  <2>1. /\ h \in CellsOf(p) /\ h \in Cells /\ h[1] = p /\ h[2] = w
        /\ CellsOf(p) \in SUBSET Cells /\ new[p] \in Nat /\ q[p] \in Nat
    BY <1>1, CellFacts
  <2>2. r[h] = q[p]
    BY <1>2, <2>1 DEF AllAt
  <2>3. ASSUME NEW c \in CellsOf(p), c # h
        PROVE  r[c] = 0 /\ c[2] # w /\ c \in Cells
    <3>1. c \in Cells /\ c[1] = p /\ c = <<c[1], c[2]>>
      BY <2>1, CellFacts
    <3>2. c[2] # w
      BY <2>3, <3>1
    <3> QED BY <1>2, <3>1, <3>2 DEF AllAt
  <2> HIDE DEF h
  <2>4. S \in SUBSET {h} /\ (q[p] > 0 <=> h \in S)
    BY <2>1, <2>2, <2>3 DEF Rowed
  <2>5. /\ s(p)[h] = new[p]
        /\ \A c \in CellsOf(p) : c # h => s(p)[c] = 0
    <3>1. CASE delta > 0
      <4>1. delta \in Nat /\ s(p) = AbsorbIncrease(r, p, delta, w)
        BY <2>1, <3>1 DEF AbsorbDelta
      <4>2. FirstCell(r, p, w) = h
        <5>1. CASE S = {}
          BY <5>1 DEF FirstCell, h
        <5>2. CASE S # {}
          BY <1>1, <1>4, <2>4, <5>2, FirstCellIs
        <5> QED BY <5>1, <5>2
      <4>3. /\ s(p)[h] = r[h] + delta
            /\ \A c \in Cells : c # h => s(p)[c] = r[c]
        <5> HIDE DEF s, delta
        <5> QED BY <1>1, <1>4, <4>1, <4>2, IncreaseIs
      <4>4. r[h] + delta = new[p]
        BY <2>1, <2>2
      <4> HIDE DEF s, delta
      <4> QED BY <2>3, <4>3, <4>4
    <3>2. CASE ~(delta > 0)
      <4> DEFINE need == -delta
                 before(c) == SumOver(r, Ahead(r, w, c))
      <4>1. need \in Nat /\ s(p) = AbsorbDecrease(r, p, need, w) /\ need <= q[p]
            /\ q[p] - need = new[p]
        BY <2>1, <3>2 DEF AbsorbDelta
      <4> HIDE DEF s, need
      <4>2. /\ \A c \in S : s(p)[c] = r[c] - (IF need <= before(c) THEN 0
                                ELSE IF r[c] <= need - before(c) THEN r[c] ELSE need - before(c))
            /\ \A c \in Cells : c \notin S => s(p)[c] = r[c]
        BY <1>4, <4>1, DecreaseIs
      <4>3. \A c \in CellsOf(p) : c # h => s(p)[c] = 0
        BY <2>3, <2>4, <4>2
      <4>4. CASE h \notin S
        <5>1. q[p] = 0 /\ s(p)[h] = r[h]
          BY <2>1, <2>4, <4>2, <4>4
        <5> QED BY <2>1, <2>2, <4>1, <4>3, <5>1
      <4>5. CASE h \in S
        <5>1. Ahead(r, w, h) = {}
          <6>1. ASSUME NEW c \in Ahead(r, w, h)
                PROVE  FALSE
            <7>1. c \in S /\ Before(r, w, c, h)
              BY <2>1 DEF Ahead
            <7>2. c = h /\ ~Before(r, w, c, h)
              BY <1>4, <2>4, <4>5, <7>1, BeforeIsOrder
            <7> QED BY <7>1, <7>2
          <6> QED BY <6>1
        <5>2. before(h) = 0
          BY <5>1, SumEmpty
        <5> HIDE DEF before
        <5>3. s(p)[h] = q[p] - (IF q[p] <= need THEN q[p] ELSE need)
          BY <2>1, <2>2, <4>1, <4>2, <4>5, <5>2
        <5>4. s(p)[h] = new[p]
          BY <2>1, <4>1, <5>3
        <5> QED BY <4>3, <5>4
      <4> QED BY <4>4, <4>5
    <3> QED BY <3>1, <3>2
  <2> HIDE DEF s
  <2> QED BY <2>1, <2>3, <2>5
<1> HIDE DEF s
<1>6. \A c \in Cells : f[c] = AllAt(new, w)[c]
  BY <1>3, <1>5, CellFacts DEF AllAt
<1>7. f = AllAt(new, w)
  <2>1. DOMAIN f = Cells /\ f = [c \in Cells |-> f[c]]
    BY <1>3
  <2>2. AllAt(new, w) = [c \in Cells |-> AllAt(new, w)[c]]
    BY DEF AllAt
  <2> HIDE DEF AllAt
  <2> QED BY <1>6, <2>1, <2>2
<1> QED BY <1>7 DEF f, w

-----------------------------------------------------------------------------
(* Transactions and their locks. *)

OnOrder == {"dispatch", "complete", "edit", "rollback"}
OnReturn == {"close", "reopen"}

\* The fields of a transaction's record, by its operation.
LEMMA RecordOf ==
  ASSUME NEW r \in Opened
  PROVE  /\ r # Idle /\ r.op \in OnOrder \cup OnReturn \cup {"transfer"}
         /\ r.stage \in {"check", "commit"} /\ r.want \in Seq(Locks) /\ r.held \in SUBSET Locks
         /\ r.op \in OnOrder => r.arg.order \in Orders
         /\ r.op = "dispatch" => r.arg.plan \in [Cells -> Nat]
         /\ r.op = "edit" => r.arg.new \in Compositions /\ r.arg.listed \in Seq(Products)
         /\ r.op = "transfer" => /\ r.arg.product \in Products
                                 /\ r.arg.from \in Warehouses /\ r.arg.to \in Warehouses
<1>1. Idle.op = "none"
  BY DEF Idle
<1>2. CASE r \in OpenedAs({"dispatch"}, [order : Orders, plan : [Cells -> Nat]])
  BY <1>1, <1>2 DEF OpenedAs, OnOrder, OnReturn
<1>3. CASE r \in OpenedAs({"complete", "rollback"}, [order : Orders])
  BY <1>1, <1>3 DEF OpenedAs, OnOrder, OnReturn
<1>4. CASE r \in OpenedAs({"edit"}, [order : Orders, new : Compositions, listed : Seq(Products)])
  BY <1>1, <1>4 DEF OpenedAs, OnOrder, OnReturn
<1>5. CASE r \in OpenedAs({"transfer"}, [product : Products, from : Warehouses, to : Warehouses])
  BY <1>1, <1>5 DEF OpenedAs, OnOrder, OnReturn
<1>6. CASE r \in OpenedAs({"close", "reopen"}, [lines : ReturnLines])
  BY <1>1, <1>6 DEF OpenedAs, OnOrder, OnReturn
<1> QED BY <1>2, <1>3, <1>4, <1>5, <1>6 DEF Opened

\* A transaction that gets the lock it waits for, or has checked and goes on.
Waits(r, w, h) == [r EXCEPT !.want = w, !.held = h]
Goes(r, w) == [r EXCEPT !.stage = "commit", !.want = w]
Written(r, w, h) ==
  /\ Waits(r, w, h) \in Opened /\ Goes(r, w) \in Opened
  /\ Waits(r, w, h).op = r.op /\ Waits(r, w, h).arg = r.arg /\ Waits(r, w, h).stage = r.stage
  /\ Waits(r, w, h).want = w /\ Waits(r, w, h).held = h
  /\ Goes(r, w).op = r.op /\ Goes(r, w).arg = r.arg /\ Goes(r, w).stage = "commit"
  /\ Goes(r, w).want = w /\ Goes(r, w).held = r.held

\* Writing want and held, or going on to commit, keeps the record one of its operation.
LEMMA WrittenAs ==
  ASSUME NEW names, NEW args, NEW r \in OpenedAs(names, args), OpenedAs(names, args) \subseteq Opened,
         NEW w \in Seq(Locks), NEW h \in SUBSET Locks
  PROVE  Written(r, w, h)
<1> DEFINE x == Waits(r, w, h)
           y == Goes(r, w)
<1>1. x \in OpenedAs(names, args)
  BY DEF OpenedAs, Waits
<1>2. y \in OpenedAs(names, args)
  BY DEF OpenedAs, Goes
<1>3. x.op = r.op /\ x.arg = r.arg /\ x.stage = r.stage /\ x.want = w /\ x.held = h
  BY DEF OpenedAs, Waits
<1>4. y.op = r.op /\ y.arg = r.arg /\ y.stage = "commit" /\ y.want = w /\ y.held = r.held
  BY DEF OpenedAs, Goes
<1> HIDE DEF x, y
<1>5. x \in Opened /\ y \in Opened
  BY <1>1, <1>2
<1> QED BY <1>3, <1>4, <1>5 DEF Written, x, y

\* The same for a record of any operation.
LEMMA WrittenIs ==
  ASSUME NEW r \in Opened, NEW w \in Seq(Locks), NEW h \in SUBSET Locks
  PROVE  Written(r, w, h)
<1>1. CASE r \in OpenedAs({"dispatch"}, [order : Orders, plan : [Cells -> Nat]])
  <2>1. OpenedAs({"dispatch"}, [order : Orders, plan : [Cells -> Nat]]) \subseteq Opened
    BY DEF Opened
  <2> QED BY <1>1, <2>1, WrittenAs
<1>2. CASE r \in OpenedAs({"complete", "rollback"}, [order : Orders])
  <2>1. OpenedAs({"complete", "rollback"}, [order : Orders]) \subseteq Opened
    BY DEF Opened
  <2> QED BY <1>2, <2>1, WrittenAs
<1>3. CASE r \in OpenedAs({"edit"}, [order : Orders, new : Compositions, listed : Seq(Products)])
  <2>1. OpenedAs({"edit"}, [order : Orders, new : Compositions, listed : Seq(Products)])
          \subseteq Opened
    BY DEF Opened
  <2> QED BY <1>3, <2>1, WrittenAs
<1>4. CASE r \in OpenedAs({"transfer"}, [product : Products, from : Warehouses, to : Warehouses])
  <2>1. OpenedAs({"transfer"}, [product : Products, from : Warehouses, to : Warehouses])
          \subseteq Opened
    BY DEF Opened
  <2> QED BY <1>4, <2>1, WrittenAs
<1>5. CASE r \in OpenedAs({"close", "reopen"}, [lines : ReturnLines])
  <2>1. OpenedAs({"close", "reopen"}, [lines : ReturnLines]) \subseteq Opened
    BY DEF Opened
  <2> QED BY <1>5, <2>1, WrittenAs
<1> QED BY <1>1, <1>2, <1>3, <1>4, <1>5 DEF Opened

\* A slot is free or holds a record.
LEMMA BusyIs ==
  ASSUME TypeOK, NEW t \in Txs
  PROVE  /\ Busy(t) <=> tx[t] \in Opened
         /\ Free(t) <=> ~Busy(t)
         /\ tx[t] \in {Idle} \cup Opened
<1>1. tx[t] \in {Idle} \cup Opened
  BY DEF TypeOK
<1>2. tx[t] \in Opened => tx[t] # Idle
  BY RecordOf
<1> QED BY <1>1, <1>2 DEF Busy, Free

\* The first lock is the row of the return or of the order, for update.
LEMMA FirstLockIs ==
  ASSUME NEW r
  PROVE  /\ r.op \in OnReturn => FirstLock(r) = Lock("return", 1, "update")
         /\ r.op \in OnOrder => FirstLock(r) = Lock("order", r.arg.order, "update")
BY DEF FirstLock, LockReturn, LockOrder, OnReturn, OnOrder

\* Compatibility of locks is symmetric.
LEMMA CompatibleSymmetric ==
  ASSUME NEW a, NEW b, Compatible(a, b)
  PROVE  Compatible(b, a)
BY DEF Compatible

\* Two transactions never both hold the row of one order, or of the return.
LEMMA FirstLocksDiffer ==
  ASSUME TypeOK, Exclusive, NEW t \in Txs, NEW u \in Txs, t # u, Busy(t), Busy(u),
         FirstLock(tx[t]) \in tx[t].held, FirstLock(tx[u]) \in tx[u].held
  PROVE  /\ ~(tx[t].op \in OnReturn /\ tx[u].op \in OnReturn)
         /\ tx[t].op \in OnOrder /\ tx[u].op \in OnOrder => tx[t].arg.order # tx[u].arg.order
<1>1. Compatible(FirstLock(tx[t]), FirstLock(tx[u]))
  BY DEF Exclusive
<1>2. \A l : l.mode = "update" => ~Compatible(l, l)
  BY DEF Compatible
<1>3. \A k, i : Lock(k, i, "update").mode = "update"
  BY DEF Lock
<1> QED BY <1>1, <1>2, <1>3, FirstLockIs

\* The locks of a list of products, one for each.
LEMMA LockProductsIs ==
  ASSUME NEW ps \in Seq(Nat)
  PROVE  /\ LockProducts(ps) \in Seq(Locks) /\ Len(LockProducts(ps)) = Len(ps)
         /\ \A i \in 1 .. Len(ps) : LockProducts(ps)[i] = Lock("product", ps[i], "update")
<1>1. \A i \in 1 .. Len(ps) : ps[i] \in Nat /\ Lock("product", ps[i], "update") \in Locks
  BY DEF Lock, Locks
<1>2. DOMAIN ps = 1 .. Len(ps) /\ Len(ps) \in Nat
  OBVIOUS
<1> QED BY <1>1, <1>2 DEF LockProducts

\* The shared locks of a list of rows, one for each.
LEMMA ReferencesIs ==
  ASSUME NEW ids \in Seq(Nat), NEW kind \in {"product", "warehouse"}
  PROVE  /\ References(kind, ids) \in Seq(Locks) /\ Len(References(kind, ids)) = Len(ids)
         /\ \A i \in 1 .. Len(ids) : References(kind, ids)[i] = Lock(kind, ids[i], "share")
<1>1. \A i \in 1 .. Len(ids) : ids[i] \in Nat /\ Lock(kind, ids[i], "share") \in Locks
  BY DEF Lock, Locks
<1>2. DOMAIN ids = 1 .. Len(ids) /\ Len(ids) \in Nat
  OBVIOUS
<1> QED BY <1>1, <1>2 DEF References

\* A sequence over a set is one over a larger set.
LEMMA SeqSubset ==
  ASSUME NEW S, NEW T, S \in SUBSET T, NEW s \in Seq(S)
  PROVE  s \in Seq(T)
OBVIOUS

\* lock_stock_items asks for the products ascending.
LEMMA LockCellsIs ==
  ASSUME NEW S \in SUBSET Cells
  PROVE  LET ps == Ascending({c[1] : c \in S})
         IN /\ LockCells(S) = LockProducts(ps) /\ ps \in Seq(Nat)
            /\ \A i, j \in 1 .. Len(ps) : i < j => ps[i] < ps[j]
<1> DEFINE P == {c[1] : c \in S}
           ps == Ascending(P)
<1>1. P \in SUBSET Products
  BY CellFacts
<1>2. P \in SUBSET Nat /\ IsFiniteSet(P)
  BY <1>1, StockAssumption, FS_Subset
<1>3. LockCells(S) = LockProducts(ps)
  BY DEF LockCells
<1> HIDE DEF P
<1>4. /\ ps \in SetToSeqs(P)
      /\ \A i, j \in DOMAIN ps : i < j => ps[i] < ps[j]
  BY <1>2, AscendingIs
<1> HIDE DEF ps
<1>5. ps \in Seq(P) /\ DOMAIN ps = 1 .. Len(ps)
  BY <1>2, <1>4, Listing
<1>6. ps \in Seq(Nat)
  BY <1>2, <1>5, SeqSubset
<1> QED BY <1>3, <1>4, <1>5, <1>6 DEF ps, P

\* The movements ask for shared locks of warehouses only.
LEMMA MovementsIs ==
  ASSUME NEW S \in SUBSET Cells
  PROVE  /\ MovementsOf(S) \in Seq(Locks)
         /\ \A i \in 1 .. Len(MovementsOf(S)) :
              MovementsOf(S)[i].kind = "warehouse" /\ MovementsOf(S)[i].mode = "share"
<1> DEFINE cs == CellOrder(S)
           ws == [i \in DOMAIN cs |-> cs[i][2]]
<1>1. IsFiniteSet(S)
  BY CellFacts, FS_Subset
<1>2. cs \in SetToSeqs(S)
  BY <1>1, CellOrderIs
<1>3. MovementsOf(S) = References("warehouse", ws)
  BY DEF MovementsOf
<1> HIDE DEF cs
<1>4. cs \in Seq(S) /\ DOMAIN cs = 1 .. Len(cs) /\ Len(cs) \in Nat /\ \A i \in DOMAIN cs : cs[i] \in S
  BY <1>1, <1>2, Listing
<1>5. \A i \in DOMAIN cs : cs[i][2] \in Nat
  BY <1>4, CellFacts
<1>6. ws \in Seq(Nat)
  BY <1>4, <1>5
<1> HIDE DEF ws
<1>7. /\ References("warehouse", ws) \in Seq(Locks) /\ Len(References("warehouse", ws)) = Len(ws)
      /\ \A i \in 1 .. Len(ws) : References("warehouse", ws)[i] = Lock("warehouse", ws[i], "share")
  BY <1>6, ReferencesIs
<1>8. \A l : Lock("warehouse", l, "share").kind = "warehouse" /\ Lock("warehouse", l, "share").mode = "share"
  BY DEF Lock
<1>9. Len(MovementsOf(S)) = Len(ws)
  BY <1>3, <1>7
<1> QED BY <1>3, <1>7, <1>8, <1>9

-----------------------------------------------------------------------------
(* What one action does to the transactions. *)

\* The transaction of t is x now, the others are as they were.
Becomes(t, x) == tx'[t] = x /\ \A u \in Txs \ {t} : tx'[u] = tx[u]

\* A step that writes one slot leaves the others.
LEMMA TxWritten ==
  ASSUME TypeOK, NEW t \in Txs, NEW x \in {Idle} \cup Opened, tx' = [tx EXCEPT ![t] = x]
  PROVE  Becomes(t, x) /\ tx' \in [Txs -> {Idle} \cup Opened]
BY DEF Becomes, TypeOK

\* A grant moves the head of want to held.
LEMMA GrantIs ==
  ASSUME TypeOK, NEW t \in Txs, Grant(t)
  PROVE  \E x \in Opened :
           /\ Becomes(t, x) /\ tx' \in [Txs -> {Idle} \cup Opened]
           /\ tx[t] \in Opened /\ tx[t].want # <<>>
           /\ x.op = tx[t].op /\ x.arg = tx[t].arg /\ x.stage = tx[t].stage
           /\ x.want = Tail(tx[t].want) /\ x.held = tx[t].held \cup {Head(tx[t].want)}
<1> DEFINE r == tx[t]
           w == Tail(r.want)
           h == r.held \cup {Head(r.want)}
           x == Waits(r, w, h)
<1>1. r \in Opened /\ r.want # <<>> /\ tx \in [Txs -> {Idle} \cup Opened]
  BY BusyIs DEF Grant, Waiting, TypeOK
<1>2. tx' = [tx EXCEPT ![t] = x]
  BY <1>1 DEF Grant, Waits
<1>3. w \in Seq(Locks) /\ h \in SUBSET Locks
  <2>1. r.want \in Seq(Locks) /\ r.held \in SUBSET Locks
    BY <1>1, RecordOf
  <2> QED BY <1>1, <2>1
<1> HIDE DEF w, h
<1>4. Written(r, w, h)
  BY <1>1, <1>3, WrittenIs
<1>5. /\ x \in Opened /\ x.op = r.op /\ x.arg = r.arg /\ x.stage = r.stage
      /\ x.want = w /\ x.held = h
  BY <1>4 DEF Written
<1> HIDE DEF x
<1>6. Becomes(t, x) /\ tx' \in [Txs -> {Idle} \cup Opened]
  BY <1>2, <1>5, TxWritten
<1> QED BY <1>1, <1>5, <1>6 DEF w, h

\* What a check finds depends on the operation and its arguments only.
LEMMA RefusedByArg ==
  ASSUME NEW r, NEW x, x.op = r.op, x.arg = r.arg
  PROVE  (Refused(x) <=> Refused(r)) /\ FirstLock(x) = FirstLock(r) /\ FurtherLocks(x) = FurtherLocks(r)
<1>1. Refused(x) <=> Refused(r)
  BY DEF Refused, Outdated
<1>2. FirstLock(x) = FirstLock(r)
  BY DEF FirstLock
<1>3. FurtherLocks(x) = FurtherLocks(r)
  BY DEF FurtherLocks, WriteOff, Corrected
<1> QED BY <1>1, <1>2, <1>3

\* The accepted lines are products.
LEMMA AcceptedIs ==
  ASSUME TypeOK
  PROVE  AcceptedLines \in Seq(Products)
<1> DEFINE S == {i \in DOMAIN goods.lines : goods.accepted[goods.lines[i]] > 0}
           kept == Ascending(S)
<1>1. goods.lines \in Seq(Products)
  BY StockAssumption DEF TypeOK
<1>2. DOMAIN goods.lines = 1 .. Len(goods.lines) /\ Len(goods.lines) \in Nat
      /\ \A i \in DOMAIN goods.lines : goods.lines[i] \in Products
  BY <1>1
<1>3. S \in SUBSET (1 .. Len(goods.lines)) /\ IsFiniteSet(1 .. Len(goods.lines))
  BY <1>2, FS_Interval
<1>4. S \in SUBSET Nat /\ IsFiniteSet(S) /\ S \in SUBSET DOMAIN goods.lines
  BY <1>2, <1>3, FS_Subset
<1> HIDE DEF S
<1>5. kept \in SetToSeqs(S)
  BY <1>4, AscendingIs
<1> HIDE DEF kept
<1>6. DOMAIN kept = 1 .. Cardinality(S) /\ Cardinality(S) \in Nat /\ \A i \in DOMAIN kept : kept[i] \in S
  BY <1>4, <1>5, Listing
<1>7. AcceptedLines = [i \in DOMAIN kept |-> goods.lines[kept[i]]]
  BY DEF AcceptedLines, kept, S
<1>8. \A i \in DOMAIN kept : goods.lines[kept[i]] \in Products
  BY <1>2, <1>4, <1>6
<1> QED BY <1>6, <1>7, <1>8

\* The locks an operation on an order asks for after its checks.
LEMMA OrderLocks ==
  ASSUME NEW r \in Opened, r.op \in {"dispatch", "complete", "rollback"}
  PROVE  \E S \in SUBSET Cells : FurtherLocks(r) = LockCells(S) \o MovementsOf(S)
<1>1. CASE r.op = "rollback"
  <2>1. FurtherLocks(r) = LockCells(Restored(r.arg.order)) \o MovementsOf(Restored(r.arg.order))
    BY <1>1 DEF FurtherLocks
  <2>2. Restored(r.arg.order) \in SUBSET Cells
    BY DEF Restored
  <2> QED BY <2>1, <2>2
<1>2. CASE r.op \in {"dispatch", "complete"}
  <2> DEFINE S == {c \in Cells : WriteOff(r)[c] > 0}
  <2>1. FurtherLocks(r) = LockCells(S) \o MovementsOf(S)
    BY <1>2 DEF FurtherLocks
  <2>2. S \in SUBSET Cells
    OBVIOUS
  <2> QED BY <2>1, <2>2
<1> QED BY <1>1, <1>2

\* The locks of cells are locks.
LEMMA CellLocksType ==
  ASSUME NEW S \in SUBSET Cells
  PROVE  LockCells(S) \in Seq(Locks) /\ MovementsOf(S) \in Seq(Locks)
BY LockCellsIs, LockProductsIs, MovementsIs

\* The locks asked for after the checks are locks.
LEMMA FurtherLocksType ==
  ASSUME TypeOK, NEW r \in Opened
  PROVE  FurtherLocks(r) \in Seq(Locks)
<1>1. CASE r.op \in {"dispatch", "complete", "rollback"}
  <2>1. PICK S \in SUBSET Cells : FurtherLocks(r) = LockCells(S) \o MovementsOf(S)
    BY <1>1, OrderLocks
  <2>2. LockCells(S) \in Seq(Locks) /\ MovementsOf(S) \in Seq(Locks)
    BY CellLocksType
  <2> QED BY <2>1, <2>2
<1>2. CASE r.op = "edit"
  <2> DEFINE S == Corrected(r)
  <2>1. S \in SUBSET Cells
    BY DEF Corrected, Moves
  <2>2. r.arg.listed \in Seq(Nat)
    <3>1. r.arg.listed \in Seq(Products) /\ Products \in SUBSET Nat
      BY <1>2, RecordOf, StockAssumption
    <3> QED BY <3>1, SeqSubset
  <2>3. FurtherLocks(r) = LockCells(S) \o References("product", r.arg.listed) \o MovementsOf(S)
    BY <1>2 DEF FurtherLocks
  <2> HIDE DEF S
  <2>4. LockCells(S) \in Seq(Locks) /\ MovementsOf(S) \in Seq(Locks)
    BY <2>1, CellLocksType
  <2>5. References("product", r.arg.listed) \in Seq(Locks)
    BY <2>2, ReferencesIs
  <2> QED BY <2>3, <2>4, <2>5
<1>3. CASE r.op = "transfer"
  BY <1>3 DEF FurtherLocks
<1>4. CASE r.op \in OnReturn
  <2>1. FurtherLocks(r) = IF AcceptedLines = <<>> THEN <<>>
                          ELSE LockProducts(AcceptedLines) \o References("warehouse", <<Main>>)
    BY <1>4 DEF FurtherLocks, OnReturn
  <2>2. AcceptedLines \in Seq(Nat) /\ <<Main>> \in Seq(Nat)
    <3>1. Products \in SUBSET Nat /\ Main \in Nat
      BY StockAssumption
    <3>2. AcceptedLines \in Seq(Products)
      BY AcceptedIs
    <3>3. AcceptedLines \in Seq(Nat)
      BY <3>1, <3>2, SeqSubset
    <3>4. <<Main>> \in Seq(Nat)
      BY <3>1
    <3> QED BY <3>3, <3>4
  <2>3. LockProducts(AcceptedLines) \in Seq(Locks) /\ References("warehouse", <<Main>>) \in Seq(Locks)
    BY <2>2, LockProductsIs, ReferencesIs
  <2> QED BY <2>1, <2>3
<1> QED BY <1>1, <1>2, <1>3, <1>4, RecordOf DEF OnOrder

\* The fields of a lock.
LEMMA LockIs ==
  ASSUME NEW kind, NEW id, NEW mode
  PROVE  Lock(kind, id, mode).kind = kind /\ Lock(kind, id, mode).id = id
         /\ Lock(kind, id, mode).mode = mode
BY DEF Lock

\* Orders before warehouses, warehouses before products, the main warehouse before the others.
LEMMA PrecedesIs ==
  ASSUME NEW a, NEW b
  PROVE  /\ a.kind = "order" /\ b.kind \in {"warehouse", "product"} => Precedes(a, b)
         /\ a.kind = "warehouse" /\ b.kind = "product" => Precedes(a, b)
         /\ a.kind = "product" /\ b.kind = "product" /\ a.id < b.id => Precedes(a, b)
         /\ a.kind = "warehouse" /\ b.kind = "warehouse" /\ b.id # Main /\ (a.id = Main \/ a.id < b.id) =>
              Precedes(a, b)
BY DEF Precedes, Rank

\* After the row of its order a shipment locks products in ascending order;
\* what follows is shared.
LEMMA OrderLocksRise ==
  ASSUME NEW r \in Opened, r.op \in {"dispatch", "complete", "rollback"},
         NEW x, x.op = r.op, x.want = FurtherLocks(r), x.held = {FirstLock(r)}
  PROVE  Rising(x)
<1>1. PICK S \in SUBSET Cells : FurtherLocks(r) = LockCells(S) \o MovementsOf(S)
  BY OrderLocks
<1> DEFINE ps == Ascending({c[1] : c \in S})
           a == LockCells(S)
           b == MovementsOf(S)
           w == x.want
           n == Len(ps)
<1>2. /\ a = LockProducts(ps) /\ ps \in Seq(Nat)
      /\ \A i, j \in 1 .. n : i < j => ps[i] < ps[j]
  BY LockCellsIs
<1>3. /\ b \in Seq(Locks)
      /\ \A i \in 1 .. Len(b) : b[i].kind = "warehouse" /\ b[i].mode = "share"
  BY MovementsIs
<1> HIDE DEF ps, a, b
<1>4. /\ a \in Seq(Locks) /\ Len(a) = n /\ n \in Nat
      /\ \A i \in 1 .. n : a[i] = Lock("product", ps[i], "update")
  BY <1>2, LockProductsIs
<1>5. w = a \o b
  BY <1>1 DEF a, b
<1> HIDE DEF w, n
<1>6. /\ Len(b) \in Nat /\ DOMAIN w = 1 .. n + Len(b)
      /\ \A i \in 1 .. n : w[i] = a[i]
      /\ \A i \in 1 .. n + Len(b) : i > n => w[i] = b[i - n]
  BY <1>3, <1>4, <1>5
<1>7. \A i \in DOMAIN w : i > n => Calm(w[i])
  <2> SUFFICES ASSUME NEW i \in DOMAIN w, i > n PROVE Calm(w[i])
    OBVIOUS
  <2>1. w[i] = b[i - n] /\ i - n \in 1 .. Len(b)
    BY <1>4, <1>6
  <2> QED BY <1>3, <2>1 DEF Calm
<1>8. \A i \in 1 .. n : w[i] = Lock("product", ps[i], "update") /\ ps[i] \in Nat
  BY <1>2, <1>4, <1>6 DEF n
<1>9. \A i \in DOMAIN w : ~(i > n) => i \in 1 .. n
  BY <1>4, <1>6
<1> DEFINE first == FirstLock(r)
<1>10. first.kind = "order"
  <2>1. r.op \in OnOrder
    BY DEF OnOrder
  <2> QED BY <2>1, FirstLockIs DEF Lock
<1>11. \A i \in DOMAIN w : w[i].kind = "warehouse" => w[i].mode # "update"
  <2> SUFFICES ASSUME NEW i \in DOMAIN w PROVE w[i].kind = "warehouse" => w[i].mode # "update"
    OBVIOUS
  <2>1. CASE i > n
    BY <1>7, <2>1 DEF Calm
  <2>2. CASE ~(i > n)
    <3>1. w[i].kind = "product"
      BY <1>8, <1>9, <2>2, LockIs
    <3> QED BY <3>1
  <2> QED BY <2>1, <2>2
<1>12. ASSUME NEW i \in 1 .. n
       PROVE  \A l \in {first} \cup {w[j] : j \in 1 .. (i - 1)} : Precedes(l, w[i])
  <2>1. Precedes(first, w[i])
    <3>1. w[i].kind = "product"
      BY <1>8, LockIs
    <3> QED BY <1>10, <3>1, PrecedesIs
  <2>2. ASSUME NEW j \in 1 .. (i - 1)
        PROVE  Precedes(w[j], w[i])
    <3>1. j \in 1 .. n /\ j < i
      BY <1>4
    <3>2. ps[j] < ps[i]
      BY <1>2, <3>1 DEF n
    <3>3. w[j].kind = "product" /\ w[i].kind = "product" /\ w[j].id = ps[j] /\ w[i].id = ps[i]
      BY <1>8, <3>1, LockIs
    <3> QED BY <3>2, <3>3, PrecedesIs
  <2> QED BY <2>1, <2>2
<1>13. x.held = {first}
  OBVIOUS
<1> HIDE DEF first
<1>14. \A l \in x.held : l.kind = "warehouse" => l.mode # "update"
  BY <1>10, <1>13
<1>15. ASSUME NEW i \in DOMAIN w
       PROVE  Calm(w[i]) \/ \A l \in Behind(x, i) : Precedes(l, w[i])
  <2>1. Behind(x, i) = {first} \cup {w[j] : j \in 1 .. (i - 1)}
    BY <1>13 DEF Behind, w
  <2> QED BY <1>7, <1>9, <1>12, <2>1
<1> QED BY <1>11, <1>14, <1>15 DEF Rising, w

\* Every further lock is asked for in the same order as before.
LEMMA GrantRises ==
  ASSUME NEW r \in Opened, r.want # <<>>, Rising(r), NEW x, x.op = r.op,
         x.want = Tail(r.want), x.held = r.held \cup {Head(r.want)}
  PROVE  Rising(x)
<1> SUFFICES ASSUME r.op \in Sorted PROVE Rising(x)
  BY DEF Rising
<1> DEFINE v == r.want
           w == x.want
           n == Len(r.want)
<1>1. v \in Seq(Locks) /\ v # <<>>
  BY RecordOf
<1>2. /\ \A l \in r.held : l.kind = "warehouse" => l.mode # "update"
      /\ \A i \in DOMAIN v :
              /\ v[i].kind = "warehouse" => v[i].mode # "update"
              /\ Calm(v[i]) \/ v[i] \in Behind(r, i) \/ \A b \in Behind(r, i) : Precedes(b, v[i])
  BY DEF Rising
<1>3. /\ n \in Nat /\ n > 0 /\ DOMAIN v = 1 .. n /\ Head(v) = v[1]
      /\ DOMAIN w = 1 .. (n - 1) /\ \A i \in 1 .. (n - 1) : w[i] = v[i + 1]
  BY <1>1
<1> HIDE DEF v, w, n
<1>4. ASSUME NEW i \in DOMAIN w
      PROVE  Behind(x, i) = Behind(r, i + 1) /\ w[i] = v[i + 1] /\ i + 1 \in DOMAIN v
  <2>1. w[i] = v[i + 1] /\ i + 1 \in DOMAIN v /\ i \in 1 .. (n - 1)
    BY <1>3
  <2>2. Behind(x, i) = r.held \cup {v[1]} \cup {w[j] : j \in 1 .. (i - 1)}
    BY <1>3 DEF Behind, w, v
  <2>3. Behind(r, i + 1) = r.held \cup {v[j] : j \in 1 .. i}
    BY <2>1 DEF Behind, v
  <2>4. ASSUME NEW l \in {w[j] : j \in 1 .. (i - 1)}
        PROVE  l \in {v[j] : j \in 1 .. i}
    <3>1. PICK j \in 1 .. (i - 1) : l = w[j]
      OBVIOUS
    <3>2. j + 1 \in 1 .. i /\ l = v[j + 1]
      BY <1>3, <2>1, <3>1
    <3> QED BY <3>2
  <2>5. ASSUME NEW l \in {v[j] : j \in 1 .. i}
        PROVE  l = v[1] \/ l \in {w[j] : j \in 1 .. (i - 1)}
    <3>1. PICK j \in 1 .. i : l = v[j]
      OBVIOUS
    <3>2. CASE j # 1
      <4>1. j - 1 \in 1 .. (i - 1) /\ w[j - 1] = v[j]
        BY <1>3, <2>1, <3>2
      <4> QED BY <3>1, <4>1
    <3> QED BY <3>1, <3>2
  <2>6. v[1] \in {v[j] : j \in 1 .. i}
    BY <2>1
  <2>7. Behind(x, i) = Behind(r, i + 1)
    BY <2>2, <2>3, <2>4, <2>5, <2>6
  <2> QED BY <2>1, <2>7
<1>5. \A l \in x.held : l.kind = "warehouse" => l.mode # "update"
  <2>1. 1 \in DOMAIN v /\ x.held = r.held \cup {v[1]}
    BY <1>3 DEF v
  <2> QED BY <1>2, <2>1
<1>6. \A i \in DOMAIN w :
              /\ w[i].kind = "warehouse" => w[i].mode # "update"
              /\ Calm(w[i]) \/ w[i] \in Behind(x, i) \/ \A b \in Behind(x, i) : Precedes(b, w[i])
  BY <1>2, <1>4
<1> QED BY <1>5, <1>6 DEF Rising, w

-----------------------------------------------------------------------------
(* Steps that only change a transaction. *)

\* A step that writes slot t leaves slot u.
LEMMA OtherTx ==
  ASSUME NEW t \in Txs, NEW x, Becomes(t, x), NEW u \in Txs, u # t
  PROVE  tx'[u] = tx[u] /\ (Busy(u)' <=> Busy(u))
BY DEF Becomes, Busy

\* Giving up locks keeps what is held at once compatible.
LEMMA ExclusiveShrinks ==
  ASSUME TypeOK, Exclusive, NEW t \in Txs, NEW x \in {Idle} \cup Opened, Becomes(t, x),
         x = Idle \/ x.held = {} \/ (Busy(t) /\ x.held = tx[t].held)
  PROVE  Exclusive'
<1> SUFFICES ASSUME NEW u \in Txs, NEW v \in Txs, u # v, Busy(u)', Busy(v)',
                    NEW a \in tx'[u].held, NEW b \in tx'[v].held
             PROVE  Compatible(a, b)
  BY DEF Exclusive
<1>1. tx'[t] = x
  BY DEF Becomes
<1>2. ASSUME NEW w \in Txs, Busy(w)', NEW l \in tx'[w].held
      PROVE  Busy(w) /\ l \in tx[w].held
  <2>1. CASE w # t
    BY <1>2, <2>1, OtherTx
  <2>2. CASE w = t
    BY <1>1, <1>2, <2>2 DEF Busy
  <2> QED BY <2>1, <2>2
<1>3. Busy(u) /\ a \in tx[u].held /\ Busy(v) /\ b \in tx[v].held
  BY <1>2
<1> QED BY <1>3 DEF Exclusive

\* A granted lock is compatible with all that is held.
LEMMA GrantExclusive ==
  ASSUME TypeOK, Exclusive, NEW t \in Txs, Grant(t)
  PROVE  Exclusive'
<1>1. PICK x \in Opened :
           /\ Becomes(t, x) /\ tx[t] \in Opened
           /\ x.held = tx[t].held \cup {Head(tx[t].want)}
  BY GrantIs
<1>2. \A u \in Txs : ~WaitsFor(t, u)
  BY DEF Grant
<1>3. Waiting(t)
  BY DEF Grant
<1> DEFINE l == Head(tx[t].want)
<1>4. ASSUME NEW u \in Txs, u # t, Busy(u), NEW b \in tx[u].held
      PROVE  Compatible(l, b)
  BY <1>2, <1>3, <1>4 DEF WaitsFor
<1> HIDE DEF l
<1> SUFFICES ASSUME NEW u \in Txs, NEW v \in Txs, u # v, Busy(u)', Busy(v)',
                    NEW a \in tx'[u].held, NEW b \in tx'[v].held
             PROVE  Compatible(a, b)
  BY DEF Exclusive
<1>5. tx'[t] = x /\ Busy(t) /\ x.held = tx[t].held \cup {l}
  BY <1>1, BusyIs DEF Becomes, l
<1>6. ASSUME NEW w \in Txs, Busy(w)', NEW k \in tx'[w].held
      PROVE  Busy(w) /\ (k \in tx[w].held \/ (w = t /\ k = l))
  <2>1. CASE w # t
    BY <1>1, <1>6, <2>1, OtherTx
  <2>2. CASE w = t
    BY <1>5, <1>6, <2>2
  <2> QED BY <2>1, <2>2
<1>7. Busy(u) /\ Busy(v)
  BY <1>6
<1>8. CASE a \in tx[u].held /\ b \in tx[v].held
  BY <1>7, <1>8 DEF Exclusive
<1>9. CASE u = t /\ a = l
  <2>1. v # t /\ b \in tx[v].held
    BY <1>6, <1>9
  <2> QED BY <1>4, <1>7, <1>9, <2>1
<1>10. CASE v = t /\ b = l
  <2>1. u # t /\ a \in tx[u].held
    BY <1>6, <1>10
  <2> QED BY <1>4, <1>7, <1>10, <2>1, CompatibleSymmetric
<1> QED BY <1>6, <1>8, <1>9, <1>10

World == <<status, items, rows, deducted, stock, transferred, goods>>

\* The data unchanged: so is what the checks find and what the cards should hold.
LEMMA SameWorld ==
  ASSUME UNCHANGED World
  PROVE  /\ \A r : Refused(r)' <=> Refused(r)
         /\ Accounted' = Accounted
<1>1. \A o : Basis(o)' = Basis(o)
  BY DEF World, Basis
<1>2. \A o : Checked(o)' = Checked(o)
  BY <1>1 DEF World, Checked, AllFromHome, Gap
<1>3. \A o : AllocationMismatch(o)' <=> AllocationMismatch(o)
  BY <1>2 DEF AllocationMismatch
<1>4. \A r : Refused(r)' <=> Refused(r)
  BY <1>3 DEF World, Refused, Outdated, Answers
<1>5. \A o : Truth(o)' = Truth(o)
  BY <1>2 DEF World, Truth
<1>6. Accounted' = Accounted
  BY <1>5 DEF World, Accounted
<1> QED BY <1>4, <1>6

Parts == \A t \in Txs : Busy(t) => Covered(tx[t]) /\ Rising(tx[t])

\* A step that only writes one slot keeps the invariant when the new record does.
LEMMA QuietStep ==
  ASSUME IInv, NEW t \in Txs, NEW x \in {Idle} \cup Opened, Becomes(t, x), UNCHANGED World,
         tx' \in [Txs -> {Idle} \cup Opened], ops' \in 0 .. MaxOps, Exclusive',
         x # Idle => Covered(x) /\ Rising(x)
  PROVE  IInv'
<1>1. TypeOK'
  BY DEF IInv, TypeOK, World
<1>2. CellsExplained'
  BY SameWorld DEF IInv, CellsExplained, World
<1>3. \A r : Covered(r)' <=> Covered(r)
  BY SameWorld DEF Covered
<1>4. ASSUME NEW u \in Txs, Busy(u)'
      PROVE  Covered(tx[u])' /\ Rising(tx[u])'
  <2>1. Covered(tx'[u]) /\ Rising(tx'[u])
    <3>1. CASE u # t
      BY <1>4, <3>1, OtherTx DEF IInv
    <3>2. CASE u = t
      BY <1>4, <3>2 DEF Becomes, Busy
    <3> QED BY <3>1, <3>2
  <2>2. Rising(tx[u])'
    BY <2>1 DEF Rising, Behind, Calm, Precedes, Rank
  <2>3. \A r : r = tx'[u] => Covered(r)'
    BY <1>3, <2>1
  <2>4. Covered(tx[u])'
    BY <2>1, SameWorld DEF Covered
  <2> QED BY <2>2, <2>4
<1> QED BY <1>1, <1>2, <1>4 DEF IInv

\* A grant keeps the invariant.
LEMMA GrantKeeps ==
  ASSUME IInv, NEW t \in Txs, Grant(t)
  PROVE  IInv'
<1>1. TypeOK /\ Exclusive
  BY DEF IInv
<1>2. PICK x \in Opened :
           /\ Becomes(t, x) /\ tx' \in [Txs -> {Idle} \cup Opened]
           /\ tx[t] \in Opened /\ tx[t].want # <<>>
           /\ x.op = tx[t].op /\ x.arg = tx[t].arg /\ x.stage = tx[t].stage
           /\ x.want = Tail(tx[t].want) /\ x.held = tx[t].held \cup {Head(tx[t].want)}
  BY <1>1, GrantIs
<1> DEFINE r == tx[t]
<1>3. Covered(r) /\ Rising(r)
  BY <1>1, <1>2, BusyIs DEF IInv
<1> HIDE DEF r
<1>4. UNCHANGED World /\ ops' = ops
  BY DEF Grant, World
<1>5. Exclusive'
  BY <1>1, GrantExclusive
<1>6. Rising(x)
  BY <1>2, <1>3, GrantRises DEF r
<1>7. Covered(x)
  <2>1. (Refused(x) <=> Refused(r)) /\ FirstLock(x) = FirstLock(r)
    BY <1>2, RefusedByArg DEF r
  <2>2. \A l : r.want = <<l>> => Head(r.want) = l /\ Tail(r.want) = <<>>
    OBVIOUS
  <2> SUFFICES ASSUME x.op # "transfer" PROVE Covered(x)
    BY DEF Covered
  <2>3. CASE r.stage = "check"
    <3>1. r.want = <<FirstLock(r)>> /\ r.held = {}
      BY <1>2, <1>3, <2>3 DEF Covered, r
    <3>2. x.want = <<>> /\ x.held = {FirstLock(x)}
      BY <1>2, <2>1, <2>2, <3>1 DEF r
    <3> QED BY <1>2, <2>3, <3>2 DEF Covered, r
  <2>4. CASE r.stage # "check"
    <3>1. r.stage = "commit"
      BY <1>2, <2>4, RecordOf DEF r
    <3> QED BY <1>2, <1>3, <2>1, <3>1 DEF Covered, r
  <2> QED BY <2>3, <2>4
<1>8. ops' \in 0 .. MaxOps
  BY <1>1, <1>4 DEF TypeOK
<1> QED BY <1>2, <1>4, <1>5, <1>6, <1>7, <1>8, QuietStep

\* The database's rollback keeps the invariant.
LEMMA AbortKeeps ==
  ASSUME IInv, NEW t \in Txs, DeadlockAbort(t)
  PROVE  IInv'
<1>1. TypeOK /\ Exclusive
  BY DEF IInv
<1>2. tx' = [tx EXCEPT ![t] = Idle] /\ UNCHANGED World /\ ops' = ops
  BY DEF DeadlockAbort, World
<1>3. Becomes(t, Idle) /\ tx' \in [Txs -> {Idle} \cup Opened]
  BY <1>1, <1>2, TxWritten
<1>4. Exclusive'
  BY <1>1, <1>3, ExclusiveShrinks
<1>5. ops' \in 0 .. MaxOps
  BY <1>1, <1>2 DEF TypeOK
<1> QED BY <1>2, <1>3, <1>4, <1>5, QuietStep

\* The checks keep the invariant: what they found is true under the first lock.
LEMMA ChecksKeep ==
  ASSUME IInv, NEW t \in Txs, Checks(t)
  PROVE  IInv'
<1>1. TypeOK /\ Exclusive
  BY DEF IInv
<1> DEFINE r == tx[t]
           w == FurtherLocks(r)
           x == IF Refused(r) THEN Idle ELSE Goes(r, w)
<1>2. r \in Opened /\ Busy(t) /\ Covered(r) /\ Rising(r) /\ r.stage = "check" /\ r.want = <<>>
  BY <1>1, BusyIs DEF IInv, Checks
<1>3. tx' = [tx EXCEPT ![t] = x] /\ UNCHANGED World /\ ops' = ops
  BY DEF Checks, World, Goes
<1> HIDE DEF r
<1>4. w \in Seq(Locks)
  BY <1>1, <1>2, FurtherLocksType
<1>5. /\ Goes(r, w) \in Opened /\ Goes(r, w).op = r.op /\ Goes(r, w).arg = r.arg
      /\ Goes(r, w).stage = "commit" /\ Goes(r, w).want = w /\ Goes(r, w).held = r.held
  <2>1. r.held \in SUBSET Locks
    BY <1>2, RecordOf
  <2>2. Written(r, w, r.held)
    BY <1>2, <1>4, <2>1, WrittenIs
  <2> QED BY <2>2 DEF Written
<1>6. x \in {Idle} \cup Opened
  BY <1>5
<1>7. Becomes(t, x) /\ tx' \in [Txs -> {Idle} \cup Opened]
  BY <1>1, <1>3, <1>6, TxWritten
<1>8. Exclusive'
  <2>1. x = Idle \/ x.held = tx[t].held
    BY <1>5 DEF r
  <2> HIDE DEF x
  <2> QED BY <1>1, <1>2, <1>6, <1>7, <2>1, ExclusiveShrinks
<1>9. ASSUME x # Idle
      PROVE  Covered(x) /\ Rising(x)
  <2> DEFINE y == Goes(r, w)
  <2>1. x = y /\ ~Refused(r)
    BY <1>9
  <2>2. /\ y.op = r.op /\ y.arg = r.arg /\ y.stage = "commit" /\ y.want = w /\ y.held = r.held
    BY <1>5
  <2> HIDE DEF y
  <2>3. (Refused(y) <=> Refused(r)) /\ FirstLock(y) = FirstLock(r)
    BY <2>2, RefusedByArg
  <2>4. r.op # "transfer" => r.held = {FirstLock(r)}
    <3>1. r.want # <<FirstLock(r)>>
      BY <1>2
    <3> QED BY <1>2, <3>1 DEF Covered
  <2>5. Covered(y)
    BY <2>1, <2>2, <2>3, <2>4 DEF Covered
  <2>6. Rising(y)
    <3>1. CASE r.op \in {"dispatch", "complete", "rollback"}
      <4>1. y.held = {FirstLock(r)}
        BY <2>2, <2>4, <3>1
      <4> QED BY <1>2, <2>2, <3>1, <4>1, OrderLocksRise
    <3>2. CASE r.op = "transfer"
      <4>1. y.want = <<>>
        BY <2>2, <3>2 DEF FurtherLocks
      <4>2. r.op \in Sorted
        BY <3>2 DEF Sorted
      <4>3. \A l \in y.held : l.kind = "warehouse" => l.mode # "update"
        BY <1>2, <2>2, <4>2 DEF Rising
      <4> QED BY <4>1, <4>3 DEF Rising
    <3>3. CASE r.op \notin Sorted
      BY <2>2, <3>3 DEF Rising
    <3> QED BY <3>1, <3>2, <3>3 DEF Sorted
  <2> QED BY <2>1, <2>5, <2>6
<1>10. ops' \in 0 .. MaxOps
  BY <1>1, <1>3 DEF TypeOK
<1> HIDE DEF x
<1> QED BY <1>3, <1>6, <1>7, <1>8, <1>9, <1>10, QuietStep

\* A new transaction: x is its record, with no lock yet.
LEMMA StartKeeps ==
  ASSUME IInv, NEW t \in Txs, NEW op, NEW arg, NEW want, Start(t, op, arg, want), Free(t),
         NEW x \in Opened, x = [op |-> op, arg |-> arg, stage |-> "check", want |-> want, held |-> {}],
         Covered(x), Rising(x)
  PROVE  IInv'
<1>1. TypeOK /\ Exclusive
  BY DEF IInv
<1>2. tx' = [tx EXCEPT ![t] = x] /\ UNCHANGED World /\ ops' = ops + 1 /\ ops < MaxOps
  BY DEF Start, World
<1>3. Becomes(t, x) /\ tx' \in [Txs -> {Idle} \cup Opened]
  BY <1>1, <1>2, TxWritten
<1>4. Exclusive'
  <2>1. x.held = {}
    OBVIOUS
  <2> QED BY <1>1, <1>3, <2>1, ExclusiveShrinks
<1>5. ops' \in 0 .. MaxOps
  BY <1>1, <1>2, StockAssumption DEF TypeOK
<1> QED BY <1>2, <1>3, <1>4, <1>5, QuietStep

\* A request about an order, or about the return, wants its first lock first.
LEMMA FirstRequest ==
  ASSUME NEW x, x.stage = "check", x.want = <<FirstLock(x)>>, x.held = {},
         x.op \in OnOrder \cup OnReturn
  PROVE  Covered(x) /\ Rising(x)
<1>1. Covered(x)
  BY DEF Covered
<1>2. ASSUME x.op \in Sorted
      PROVE  FirstLock(x).kind = "order"
  <2>1. x.op \in OnOrder
    BY <1>2 DEF Sorted, OnReturn
  <2> QED BY <2>1, FirstLockIs, LockIs
<1>3. \A i \in DOMAIN x.want : x.want[i] = FirstLock(x) /\ Behind(x, i) = {}
  <2>1. ASSUME NEW i \in DOMAIN x.want
        PROVE  x.want[i] = FirstLock(x) /\ Behind(x, i) = {}
    <3>1. i = 1 /\ x.want[1] = FirstLock(x)
      OBVIOUS
    <3>2. 1 .. (i - 1) = {}
      BY <3>1
    <3>3. Behind(x, i) = {}
      BY <3>2 DEF Behind
    <3> QED BY <3>1, <3>3
  <2> QED BY <2>1
<1>4. Rising(x)
  BY <1>2, <1>3 DEF Rising
<1> QED BY <1>1, <1>4

\* The record of a new request.
LEMMA NewRecord ==
  ASSUME NEW names, NEW args, NEW op \in names, NEW arg \in args, NEW want \in Seq(Locks),
         OpenedAs(names, args) \subseteq Opened
  PROVE  LET x == [op |-> op, arg |-> arg, stage |-> "check", want |-> want, held |-> {}]
         IN /\ x \in Opened
            /\ x.op = op /\ x.arg = arg /\ x.stage = "check" /\ x.want = want /\ x.held = {}
<1> DEFINE x == [op |-> op, arg |-> arg, stage |-> "check", want |-> want, held |-> {}]
<1>1. x \in OpenedAs(names, args)
  BY DEF OpenedAs
<1>2. x.op = op /\ x.arg = arg /\ x.stage = "check" /\ x.want = want /\ x.held = {}
  OBVIOUS
<1> HIDE DEF x
<1> QED BY <1>1, <1>2 DEF x

\* A request about an order keeps the invariant: it asks for the order's row first.
LEMMA OrderRequest ==
  ASSUME IInv, NEW t \in Txs, Free(t), NEW o \in Orders, NEW names, NEW args, NEW op \in names,
         NEW arg \in args, arg.order = o, op \in OnOrder, OpenedAs(names, args) \subseteq Opened,
         Start(t, op, arg, LockOrder(o))
  PROVE  IInv'
<1> DEFINE x == [op |-> op, arg |-> arg, stage |-> "check", want |-> LockOrder(o), held |-> {}]
<1>1. LockOrder(o) \in Seq(Locks)
  BY StockAssumption DEF LockOrder, Lock, Locks
<1>2. /\ x \in Opened
      /\ x.op = op /\ x.arg = arg /\ x.stage = "check" /\ x.want = LockOrder(o) /\ x.held = {}
  BY <1>1, NewRecord
<1>3. x = [op |-> op, arg |-> arg, stage |-> "check", want |-> LockOrder(o), held |-> {}]
  OBVIOUS
<1> HIDE DEF x
<1>4. FirstLock(x) = Lock("order", o, "update")
  BY <1>2, FirstLockIs
<1>5. x.want = <<FirstLock(x)>>
  BY <1>2, <1>4 DEF LockOrder
<1>6. Covered(x) /\ Rising(x)
  BY <1>2, <1>5, FirstRequest
<1> QED BY <1>2, <1>3, <1>6, StartKeeps

\* A loader's answer is bags of each cell.
LEMMA PlansType ==
  ASSUME TypeOK, NEW o \in Orders
  PROVE  Plans(o) \subseteq [Cells -> Nat]
<1> SUFFICES ASSUME NEW f \in Plans(o), NEW c \in Cells
             PROVE  f \in [Cells -> Nat]
  <2>1. CASE Cells = {}
    BY <2>1 DEF Plans
  <2> QED BY <2>1
<1> DEFINE m == Max({items[o][p] : p \in Products})
<1>1. f \in [Cells -> 0 .. m]
  BY DEF Plans
<1> HIDE DEF m
<1>2. \A i \in 0 .. m : i \in Nat
  OBVIOUS
<1> QED BY <1>1, <1>2

\* A loader's answer keeps the invariant.
LEMMA DispatchKeeps ==
  ASSUME IInv, NEW t \in Txs, Free(t), NEW o \in Orders, NEW plan \in Plans(o), AskDispatch(t, o, plan)
  PROVE  IInv'
<1> DEFINE args == [order : Orders, plan : [Cells -> Nat]]
           arg == [order |-> o, plan |-> plan]
<1>1. plan \in [Cells -> Nat]
  BY PlansType DEF IInv
<1>2. arg \in args /\ arg.order = o
  BY <1>1
<1>3. "dispatch" \in {"dispatch"} /\ "dispatch" \in OnOrder
  BY DEF OnOrder
<1>4. OpenedAs({"dispatch"}, args) \subseteq Opened
  BY DEF Opened
<1>5. Start(t, "dispatch", arg, LockOrder(o))
  BY DEF AskDispatch
<1> HIDE DEF args, arg
<1> QED BY <1>2, <1>3, <1>4, <1>5, OrderRequest

\* Completing without an answer, and asking for a rollback, keep the invariant.
LEMMA CompleteKeeps ==
  ASSUME IInv, NEW t \in Txs, Free(t), NEW o \in Orders, AskComplete(t, o) \/ AskRollback(t, o)
  PROVE  IInv'
<1> DEFINE args == [order : Orders]
           arg == [order |-> o]
           names == {"complete", "rollback"}
<1>1. arg \in args /\ arg.order = o
  OBVIOUS
<1>2. /\ "complete" \in names /\ "complete" \in OnOrder
      /\ "rollback" \in names /\ "rollback" \in OnOrder
  BY DEF OnOrder
<1>3. OpenedAs(names, args) \subseteq Opened
  BY DEF Opened
<1>4. Start(t, "complete", arg, LockOrder(o)) \/ Start(t, "rollback", arg, LockOrder(o))
  BY DEF AskComplete, AskRollback
<1> HIDE DEF args, arg, names
<1> QED BY <1>1, <1>2, <1>3, <1>4, OrderRequest

\* Asking for an edit keeps the invariant.
LEMMA EditKeeps ==
  ASSUME IInv, NEW t \in Txs, Free(t), NEW o \in Orders, NEW new \in Compositions,
         NEW s \in Listings(new), AskEdit(t, o, new, s)
  PROVE  IInv'
<1> DEFINE args == [order : Orders, new : Compositions, listed : Seq(Products)]
           arg == [order |-> o, new |-> new, listed |-> s]
           P == {p \in Products : new[p] > 0}
<1>1. s \in Seq(Products)
  <2>1. P \in SUBSET Products /\ IsFiniteSet(P) /\ s \in SetToSeqs(P)
    BY StockAssumption, FS_Subset DEF Listings
  <2> HIDE DEF P
  <2>2. s \in Seq(P)
    BY <2>1, Listing
  <2> QED BY <2>1, <2>2, SeqSubset
<1>2. arg \in args /\ arg.order = o
  BY <1>1
<1>3. "edit" \in {"edit"} /\ "edit" \in OnOrder
  BY DEF OnOrder
<1>4. OpenedAs({"edit"}, args) \subseteq Opened
  BY DEF Opened
<1>5. Start(t, "edit", arg, LockOrder(o))
  BY DEF AskEdit
<1> HIDE DEF args, arg
<1> QED BY <1>2, <1>3, <1>4, <1>5, OrderRequest

\* Closing or reopening the return keeps the invariant.
LEMMA ReturnKeeps ==
  ASSUME IInv, NEW t \in Txs, Free(t), NEW op \in {"close", "reopen"}, AskReturn(t, op)
  PROVE  IInv'
<1> DEFINE args == [lines : ReturnLines]
           arg == [lines |-> goods.lines]
           names == {"close", "reopen"}
           x == [op |-> op, arg |-> arg, stage |-> "check", want |-> LockReturn, held |-> {}]
<1>1. arg \in args
  BY DEF IInv, TypeOK
<1>2. LockReturn \in Seq(Locks)
  BY DEF LockReturn, Lock, Locks
<1>3. OpenedAs(names, args) \subseteq Opened
  BY DEF Opened
<1>4. op \in names /\ op \in OnReturn
  BY DEF OnReturn
<1>5. Start(t, op, arg, LockReturn)
  BY DEF AskReturn
<1> HIDE DEF args, arg, names
<1>6. /\ x \in Opened
      /\ x.op = op /\ x.arg = arg /\ x.stage = "check" /\ x.want = LockReturn /\ x.held = {}
  BY <1>1, <1>2, <1>3, <1>4, NewRecord
<1>7. x = [op |-> op, arg |-> arg, stage |-> "check", want |-> LockReturn, held |-> {}]
  OBVIOUS
<1> HIDE DEF x
<1>8. x.want = <<FirstLock(x)>>
  <2>1. FirstLock(x) = Lock("return", 1, "update")
    BY <1>4, <1>6, FirstLockIs
  <2> QED BY <1>6, <2>1 DEF LockReturn
<1>9. Covered(x) /\ Rising(x)
  BY <1>4, <1>6, <1>8, FirstRequest
<1> QED BY <1>5, <1>6, <1>7, <1>9, StartKeeps

\* A transfer locks the main warehouse, then the two by number, then the product.
LEMMA TransferRises ==
  ASSUME NEW p \in Products, NEW from \in Warehouses, NEW to \in Warehouses, from # to, NEW x,
         x.want = <<Lock("warehouse", Main, "nokey"),
                    Lock("warehouse", Ascending({from, to})[1], "nokey"),
                    Lock("warehouse", Ascending({from, to})[2], "nokey")>> \o LockProducts(<<p>>),
         x.held = {}
  PROVE  Rising(x) /\ x.want \in Seq(Locks)
<1> DEFINE both == Ascending({from, to})
           a == Lock("warehouse", Main, "nokey")
           b == Lock("warehouse", both[1], "nokey")
           c == Lock("warehouse", both[2], "nokey")
           d == Lock("product", p, "update")
           w == x.want
<1>1. /\ from \in Nat /\ to \in Nat /\ Main \in Nat /\ p \in Nat
      /\ IsFiniteSet({from, to}) /\ Cardinality({from, to}) = 2
  <2>1. from \in Nat /\ to \in Nat /\ Main \in Nat /\ p \in Nat
    BY StockAssumption
  <2>2. IsFiniteSet({to}) /\ Cardinality({to}) = 1
    BY FS_Singleton
  <2>3. IsFiniteSet({to} \cup {from}) /\ Cardinality({to} \cup {from}) = 2
    <3> DEFINE T == {to}
    <3>1. IsFiniteSet(T) /\ from \notin T /\ Cardinality(T) = 1
      BY <2>2
    <3> HIDE DEF T
    <3>2. IsFiniteSet(T \cup {from}) /\ Cardinality(T \cup {from}) = Cardinality(T) + 1
      BY <3>1, FS_AddElement
    <3>3. IsFiniteSet(T \cup {from}) /\ Cardinality(T \cup {from}) = 2
      BY <3>1, <3>2
    <3> QED BY <3>3 DEF T
  <2>4. {to} \cup {from} = {from, to}
    OBVIOUS
  <2> QED BY <2>1, <2>3, <2>4
<1>2. /\ both \in SetToSeqs({from, to})
      /\ \A i, j \in DOMAIN both : i < j => both[i] < both[j]
  BY <1>1, AscendingIs
<1> HIDE DEF both
<1>3. DOMAIN both = 1 .. 2 /\ \A i \in 1 .. 2 : both[i] \in {from, to}
  <2> DEFINE S == {from, to}
  <2>1. IsFiniteSet(S) /\ Cardinality(S) = 2 /\ both \in SetToSeqs(S)
    BY <1>1, <1>2
  <2> HIDE DEF S
  <2>2. DOMAIN both = 1 .. 2 /\ \A i \in DOMAIN both : both[i] \in S
    BY <2>1, Listing
  <2> QED BY <2>2 DEF S
<1>4. both[1] \in Nat /\ both[2] \in Nat /\ both[1] < both[2]
  BY <1>1, <1>2, <1>3
<1>5. LockProducts(<<p>>) = <<d>>
  <2> DEFINE ps == <<p>>
  <2>1. ps \in Seq(Nat) /\ Len(ps) = 1 /\ ps[1] = p /\ 1 \in 1 .. Len(ps)
    BY <1>1
  <2> HIDE DEF ps
  <2> DEFINE s == LockProducts(ps)
  <2>2. s \in Seq(Locks) /\ Len(s) = 1 /\ s[1] = d
    BY <2>1, LockProductsIs
  <2> HIDE DEF s, d
  <2>3. s = <<d>>
    BY <2>2
  <2> QED BY <2>3 DEF s, ps
<1>7. /\ a.kind = "warehouse" /\ b.kind = "warehouse" /\ c.kind = "warehouse" /\ d.kind = "product"
      /\ a.mode = "nokey" /\ b.mode = "nokey" /\ c.mode = "nokey"
      /\ a.id = Main /\ b.id = both[1] /\ c.id = both[2]
      /\ a \in Locks /\ b \in Locks /\ c \in Locks /\ d \in Locks
  BY <1>1, <1>4 DEF Lock, Locks
<1>8. /\ b = a \/ Precedes(a, b)
      /\ c = a \/ (Precedes(a, c) /\ Precedes(b, c))
      /\ Precedes(a, d) /\ Precedes(b, d) /\ Precedes(c, d)
  <2>1. b = a \/ b.id # Main
    BY <1>7
  <2>2. c = a \/ c.id # Main
    BY <1>7
  <2> HIDE DEF a, b, c, d
  <2> QED BY <1>4, <1>7, <2>1, <2>2, PrecedesIs
<1>6. w \in Seq(Locks) /\ DOMAIN w = 1 .. 4 /\ w[1] = a /\ w[2] = b /\ w[3] = c /\ w[4] = d
  <2> DEFINE u == <<a, b, c>>
             v == <<d>>
  <2>1. w = u \o v
    BY <1>5 DEF both
  <2> HIDE DEF a, b, c, d, w
  <2>2. /\ u \in Seq(Locks) /\ Len(u) = 3 /\ u[1] = a /\ u[2] = b /\ u[3] = c
        /\ v \in Seq(Locks) /\ Len(v) = 1 /\ v[1] = d
    BY <1>7
  <2> HIDE DEF u, v
  <2>8. u \in Seq(Locks) /\ v \in Seq(Locks) /\ Len(u) \in Nat /\ Len(v) \in Nat
    BY <2>2
  <2>9. w \in Seq(Locks)
    BY <2>1, <2>8
  <2>10. Len(w) = Len(u) + Len(v) /\ DOMAIN w = 1 .. Len(u) + Len(v)
    BY <2>1, <2>8
  <2>11. \A i \in 1 .. Len(u) : w[i] = u[i]
    BY <2>1, <2>8
  <2>12. \A i \in 1 .. Len(u) + Len(v) : i > Len(u) => w[i] = v[i - Len(u)]
    BY <2>1, <2>8
  <2>3. /\ w \in Seq(Locks) /\ Len(w) = Len(u) + Len(v) /\ DOMAIN w = 1 .. Len(u) + Len(v)
        /\ \A i \in 1 .. Len(u) : w[i] = u[i]
        /\ \A i \in 1 .. Len(u) + Len(v) : i > Len(u) => w[i] = v[i - Len(u)]
    BY <2>9, <2>10, <2>11, <2>12
  <2> HIDE DEF u, v
  <2>4. DOMAIN w = 1 .. 4
    BY <2>2, <2>3
  <2>5. 4 \in 1 .. Len(u) + Len(v) /\ 4 > Len(u) /\ 4 - Len(u) = 1
    BY <2>2
  <2>6. w[4] = d
    BY <2>2, <2>3, <2>5
  <2>7. w[1] = a /\ w[2] = b /\ w[3] = c
    BY <2>2, <2>3
  <2> QED BY <2>3, <2>4, <2>6, <2>7
<1> HIDE DEF a, b, c, d, w
<1>9. /\ Behind(x, 1) = {} /\ Behind(x, 2) = {a} /\ Behind(x, 3) = {a, b}
      /\ Behind(x, 4) = {a, b, c}
  <2>1. /\ 1 .. (1 - 1) = {} /\ 1 .. (2 - 1) = {1} /\ 1 .. (3 - 1) = {1, 2}
        /\ 1 .. (4 - 1) = {1, 2, 3}
    OBVIOUS
  <2>2. w[1] = a /\ w[2] = b /\ w[3] = c
    BY <1>6
  <2> QED BY <2>1, <2>2 DEF Behind, w
<1>12. ASSUME NEW i \in 1 .. 4
       PROVE  /\ w[i].kind = "warehouse" => w[i].mode # "update"
              /\ Calm(w[i]) \/ w[i] \in Behind(x, i) \/ \A l \in Behind(x, i) : Precedes(l, w[i])
  <2>1. i = 1 \/ i = 2 \/ i = 3 \/ i = 4
    OBVIOUS
  <2>2. CASE i = 1
    BY <1>7, <1>6, <1>9, <2>2
  <2>3. CASE i = 2
    BY <1>7, <1>8, <1>6, <1>9, <2>3
  <2>4. CASE i = 3
    BY <1>7, <1>8, <1>6, <1>9, <2>4
  <2>5. CASE i = 4
    BY <1>7, <1>8, <1>6, <1>9, <2>5
  <2> QED BY <2>1, <2>2, <2>3, <2>4, <2>5
<1>13. Rising(x)
  BY <1>6, <1>12 DEF Rising, w
<1> QED BY <1>6, <1>13 DEF w

\* Asking for a transfer keeps the invariant.
LEMMA TransferKeeps ==
  ASSUME IInv, NEW t \in Txs, Free(t), NEW p \in Products, NEW from \in Warehouses,
         NEW to \in Warehouses, AskTransfer(t, p, from, to)
  PROVE  IInv'
<1> DEFINE args == [product : Products, from : Warehouses, to : Warehouses]
           arg == [product |-> p, from |-> from, to |-> to]
           names == {"transfer"}
           want == <<Lock("warehouse", Main, "nokey"),
                     Lock("warehouse", Ascending({from, to})[1], "nokey"),
                     Lock("warehouse", Ascending({from, to})[2], "nokey")>> \o LockProducts(<<p>>)
           x == [op |-> "transfer", arg |-> arg, stage |-> "check", want |-> want, held |-> {}]
<1>1. from # to /\ Start(t, "transfer", arg, want)
  BY DEF AskTransfer, WarehouseMode
<1>2. arg \in args /\ "transfer" \in names
  OBVIOUS
<1>3. OpenedAs(names, args) \subseteq Opened
  BY DEF Opened
<1>4. x = [op |-> "transfer", arg |-> arg, stage |-> "check", want |-> want, held |-> {}]
      /\ x.op = "transfer" /\ x.want = want /\ x.held = {}
  OBVIOUS
<1> HIDE DEF args, arg, names, x
<1>5. Rising(x) /\ x.want \in Seq(Locks)
  BY <1>1, <1>4, TransferRises
<1>6. want \in Seq(Locks)
  BY <1>4, <1>5
<1> HIDE DEF want
<1>7. x \in Opened
  BY <1>2, <1>3, <1>4, <1>6, NewRecord
<1>8. Covered(x)
  BY <1>4 DEF Covered
<1> QED BY <1>1, <1>4, <1>5, <1>7, <1>8, StartKeeps

-----------------------------------------------------------------------------
(* Commits: an order that is not written looks as before. *)

SameFields(o) ==
  status'[o] = status[o] /\ items'[o] = items[o] /\ rows'[o] = rows[o] /\ deducted'[o] = deducted[o]

\* An order whose fields are not written looks as before.
LEMMA SameOrder ==
  ASSUME NEW o, SameFields(o)
  PROVE  /\ Basis(o)' = Basis(o) /\ Checked(o)' = Checked(o)
         /\ AllocationMismatch(o)' <=> AllocationMismatch(o)
         /\ Truth(o)' = Truth(o)
<1>1. Basis(o)' = Basis(o)
  BY DEF SameFields, Basis
<1>2. Checked(o)' = Checked(o)
  BY <1>1 DEF SameFields, Checked, AllFromHome, Gap
<1>3. AllocationMismatch(o)' <=> AllocationMismatch(o)
  BY <1>2 DEF AllocationMismatch
<1>4. Truth(o)' = Truth(o)
  BY <1>2 DEF SameFields, Truth
<1> QED BY <1>1, <1>2, <1>3, <1>4

\* What a check found holds as long as its order, or the return's status, is not written.
LEMMA SameRefusal ==
  ASSUME NEW r, \/ r.op \in OnOrder /\ SameFields(r.arg.order)
                \/ r.op \in OnReturn /\ goods'.status = goods.status
  PROVE  Refused(r)' <=> Refused(r)
<1>1. CASE r.op \in OnOrder /\ SameFields(r.arg.order)
  <2>1. AllocationMismatch(r.arg.order)' <=> AllocationMismatch(r.arg.order)
    BY <1>1, SameOrder
  <2>2. Outdated(r)' <=> Outdated(r)
    BY <1>1 DEF SameFields, Outdated, Answers
  <2> QED BY <1>1, <2>1, <2>2 DEF SameFields, OnOrder, Refused
<1>2. CASE r.op \in OnReturn /\ goods'.status = goods.status
  BY <1>2 DEF OnReturn, Refused
<1> QED BY <1>1, <1>2

\* A record stays covered while what its check found does.
LEMMA StaysCovered ==
  ASSUME NEW r, Covered(r), r.stage = "commit" /\ r.op # "transfer" => (Refused(r)' <=> Refused(r))
  PROVE  Covered(r)'
BY DEF Covered

\* Whatever a transaction writes, the others stay covered: they hold other rows.
LEMMA OthersKeep ==
  ASSUME IInv, NEW t \in Txs, Busy(t), Becomes(t, Idle),
         tx[t].op # "transfer" => FirstLock(tx[t]) \in tx[t].held,
         \A o \in Orders : (tx[t].op \in OnOrder /\ o = tx[t].arg.order) \/ SameFields(o),
         tx[t].op \notin OnReturn => goods'.status = goods.status
  PROVE  Parts'
<1> SUFFICES ASSUME NEW u \in Txs, Busy(u)'
             PROVE  Covered(tx[u])' /\ Rising(tx[u])'
  BY DEF Parts
<1>1. TypeOK /\ Exclusive
  BY DEF IInv
<1>2. u # t /\ tx'[u] = tx[u]
  BY DEF Becomes, Busy
<1>3. Busy(u) /\ tx[u] \in Opened /\ Covered(tx[u]) /\ Rising(tx[u])
  <2>1. Busy(u)
    BY <1>2 DEF Busy
  <2> QED BY <1>1, <2>1, BusyIs DEF IInv
<1>4. tx[t].op \in OnOrder \cup OnReturn \cup {"transfer"}
  BY <1>1, BusyIs, RecordOf
<1>5. ASSUME NEW r, r = tx[u], r.stage = "commit", r.op # "transfer"
      PROVE  Refused(r)' <=> Refused(r)
  <2>1. r.op \in OnOrder \cup OnReturn /\ (r.op \in OnOrder => r.arg.order \in Orders)
    BY <1>3, <1>5, RecordOf
  <2>2. FirstLock(r) \in r.held
    BY <1>3, <1>5 DEF Covered
  <2>3. tx[t].op # "transfer" =>
          /\ ~(tx[t].op \in OnReturn /\ r.op \in OnReturn)
          /\ tx[t].op \in OnOrder /\ r.op \in OnOrder => tx[t].arg.order # r.arg.order
    BY <1>1, <1>2, <1>3, <1>5, <2>2, FirstLocksDiffer
  <2>4. "transfer" \notin OnOrder \cup OnReturn
    BY DEF OnOrder, OnReturn
  <2>5. \/ r.op \in OnOrder /\ SameFields(r.arg.order)
        \/ r.op \in OnReturn /\ goods'.status = goods.status
    BY <2>1, <2>3, <2>4
  <2> QED BY <2>5, SameRefusal
<1>6. ASSUME NEW r, r = tx[u]
      PROVE  Covered(r)'
  BY <1>3, <1>5, <1>6, StaysCovered
<1>7. Covered(tx[u])'
  BY <1>2, <1>6
<1>8. Rising(tx[u])'
  <2>1. Rising(tx'[u])
    BY <1>2, <1>3
  <2> QED BY <2>1 DEF Rising, Behind, Calm, Precedes, Rank
<1> QED BY <1>7, <1>8

-----------------------------------------------------------------------------
(* The balance of the stock cards, as a sum over the orders. *)

Back(g, c) == IF g.status = "closed" /\ c \in ReturnCells THEN g.accepted[c[1]] ELSE 0
TakenAt(truth, c) == SumOver([o \in Orders |-> truth[o][c]], Orders)
Balance(truth, brought, g) == [c \in Cells |-> brought[c] - TakenAt(truth, c) + Back(g, c)]

\* What the cards should hold, before and after the step, as the balance.
LEMMA AccountedIs ==
  /\ Accounted = Balance([o \in Orders |-> Truth(o)], transferred, goods)
  /\ Accounted' = Balance([o \in Orders |-> Truth(o)'], transferred', goods')
<1> DEFINE before == [o \in Orders |-> Truth(o)]
           after == [o \in Orders |-> Truth(o)']
<1>1. \A truth, c : Total([o \in Orders |-> truth[o][c]], Orders) = TakenAt(truth, c)
  BY TotalIsSum DEF TakenAt
<1>2. \A c : Total([o \in Orders |-> before[o][c]], Orders) = TakenAt(before, c)
  BY <1>1
<1>3. \A c : Total([o \in Orders |-> after[o][c]], Orders) = TakenAt(after, c)
  BY <1>1
<1>4. Accounted = Balance(before, transferred, goods)
  BY <1>2 DEF Accounted, Balance, Back
<1>5. Accounted' = Balance(after, transferred', goods')
  BY <1>3 DEF Accounted, Balance, Back, ReturnCells
<1> QED BY <1>4, <1>5

\* Only the order that moves counts.
LEMMA BalanceMoves ==
  ASSUME NEW a \in [Orders -> [Cells -> Int]], NEW b \in [Orders -> [Cells -> Int]],
         NEW o \in Orders, \A x \in Orders \ {o} : b[x] = a[x], NEW c \in Cells
  PROVE  /\ TakenAt(a, c) \in Int /\ TakenAt(b, c) \in Int
         /\ TakenAt(b, c) = TakenAt(a, c) - a[o][c] + b[o][c]
<1> DEFINE f == [x \in Orders |-> a[x][c]]
           g == [x \in Orders |-> b[x][c]]
<1>1. /\ \A x \in Orders : f[x] \in Int /\ g[x] \in Int
      /\ \A x \in Orders \ {o} : g[x] = f[x]
      /\ f[o] = a[o][c] /\ g[o] = b[o][c]
  OBVIOUS
<1>2. IsFiniteSet(Orders)
  BY StockAssumption
<1>3. TakenAt(a, c) = SumOver(f, Orders) /\ TakenAt(b, c) = SumOver(g, Orders)
  BY DEF TakenAt
<1> HIDE DEF f, g
<1>4. SumOver(f, Orders) \in Int /\ SumOver(g, Orders) \in Int
  BY <1>1, <1>2, SumInt
<1>5. SumOver(g, Orders) = SumOver(f, Orders) - f[o] + g[o]
  BY <1>1, <1>2, SumChange
<1> QED BY <1>1, <1>3, <1>4, <1>5

\* What the orders took from a cell is a number.
LEMMA TakenType ==
  ASSUME NEW a \in [Orders -> [Cells -> Int]], NEW c \in Cells
  PROVE  TakenAt(a, c) \in Int
<1> DEFINE f == [x \in Orders |-> a[x][c]]
<1>1. \A x \in Orders : f[x] \in Int
  OBVIOUS
<1>2. TakenAt(a, c) = SumOver(f, Orders)
  BY DEF TakenAt
<1>3. IsFiniteSet(Orders)
  BY StockAssumption
<1> HIDE DEF f
<1>4. SumOver(f, Orders) \in Int
  BY <1>1, <1>3, SumInt
<1> QED BY <1>2, <1>4

\* What an order took is a number for each cell.
LEMMA TruthType ==
  ASSUME TypeOK, NEW o \in Orders
  PROVE  Truth(o) \in [Cells -> Int]
<1>1. NoRows \in [Cells -> Int]
  BY DEF NoRows
<1>2. CASE Basis(o) = "not_deducted"
  BY <1>1, <1>2 DEF Truth, Checked
<1>3. CASE Basis(o) # "not_deducted"
  BY <1>1, <1>3, CheckedTotal DEF Truth
<1> QED BY <1>2, <1>3

\* The orders that are not written took what they took before.
LEMMA OneOrderMoves ==
  ASSUME TypeOK, CellsExplained, NEW o \in Orders, \A x \in Orders \ {o} : SameFields(x),
         UNCHANGED <<transferred, goods>>, Truth(o)' \in [Cells -> Int],
         stock' = [c \in Cells |-> stock[c] + Truth(o)[c] - Truth(o)'[c]]
  PROVE  CellsExplained'
<1> DEFINE a == [x \in Orders |-> Truth(x)]
           b == [x \in Orders |-> Truth(x)']
<1>1. \A x \in Orders \ {o} : Truth(x)' = Truth(x)
  BY SameOrder
<1>2. /\ a \in [Orders -> [Cells -> Int]] /\ b \in [Orders -> [Cells -> Int]]
      /\ \A x \in Orders \ {o} : b[x] = a[x]
  BY <1>1, TruthType
<1>3. a[o] = Truth(o) /\ b[o] = Truth(o)'
  OBVIOUS
<1>4. stock = Balance(a, transferred, goods) /\ Accounted' = Balance(b, transferred, goods)
  BY AccountedIs DEF CellsExplained
<1> HIDE DEF a, b
<1>5. ASSUME NEW c \in Cells
      PROVE  stock'[c] = Balance(b, transferred, goods)[c]
  <2>1. /\ TakenAt(a, c) \in Int /\ TakenAt(b, c) \in Int
        /\ TakenAt(b, c) = TakenAt(a, c) - a[o][c] + b[o][c]
    BY <1>2, BalanceMoves
  <2>2. transferred[c] \in Int /\ Back(goods, c) \in Int
    <3>1. goods.accepted \in [Products -> Nat] /\ c[1] \in Products
      BY CellFacts DEF TypeOK
    <3> QED BY <3>1 DEF TypeOK, Back
  <2>3. a[o][c] \in Int /\ b[o][c] \in Int
    BY <1>2
  <2>4. stock[c] = transferred[c] - TakenAt(a, c) + Back(goods, c)
    BY <1>4 DEF Balance
  <2>5. Balance(b, transferred, goods)[c] = transferred[c] - TakenAt(b, c) + Back(goods, c)
    BY DEF Balance
  <2>6. stock'[c] = stock[c] + a[o][c] - b[o][c]
    BY <1>3
  <2> QED BY <2>1, <2>2, <2>3, <2>4, <2>5, <2>6
<1>6. stock' = Balance(b, transferred, goods)
  BY <1>5 DEF Balance
<1> QED BY <1>4, <1>6 DEF CellsExplained

\* What every commit brings along.
LEMMA CommitFacts ==
  ASSUME IInv, NEW t \in Txs, NEW op, Ready(t, op), End(t)
  PROVE  /\ TypeOK /\ CellsExplained /\ Exclusive
         /\ Busy(t) /\ tx[t] \in Opened /\ tx[t].op = op
         /\ Becomes(t, Idle) /\ tx' \in [Txs -> {Idle} \cup Opened] /\ ops' \in 0 .. MaxOps
         /\ Exclusive'
         /\ op # "transfer" => FirstLock(tx[t]) \in tx[t].held /\ ~Refused(tx[t])
<1>1. TypeOK /\ CellsExplained /\ Exclusive
  BY DEF IInv
<1>2. Busy(t) /\ tx[t] \in Opened /\ tx[t].op = op /\ tx[t].stage = "commit" /\ Covered(tx[t])
  BY <1>1, BusyIs DEF IInv, Ready
<1>3. Becomes(t, Idle) /\ tx' \in [Txs -> {Idle} \cup Opened]
  BY <1>1, TxWritten DEF End
<1>4. Exclusive'
  BY <1>1, <1>3, ExclusiveShrinks
<1>5. ops' \in 0 .. MaxOps
  BY <1>1 DEF TypeOK, End
<1>6. op # "transfer" => FirstLock(tx[t]) \in tx[t].held /\ ~Refused(tx[t])
  BY <1>2 DEF Covered
<1> QED BY <1>1, <1>2, <1>3, <1>4, <1>5, <1>6

\* A commit about one order: the stock moves by what the order took before and takes now.
LEMMA OrderCommit ==
  ASSUME IInv, NEW t \in Txs, NEW op \in OnOrder, Ready(t, op), End(t),
         NEW o \in Orders, o = tx[t].arg.order, \A x \in Orders \ {o} : SameFields(x),
         UNCHANGED <<transferred, goods>>,
         status' \in [Orders -> {"confirmed", "shipped"}], items' \in [Orders -> Compositions],
         rows' \in [Orders -> [Cells -> Nat]], deducted' \in [Orders -> BOOLEAN],
         Truth(o)' \in [Cells -> Int],
         stock' = [c \in Cells |-> stock[c] + Truth(o)[c] - Truth(o)'[c]]
  PROVE  IInv'
<1>1. /\ TypeOK /\ CellsExplained /\ Busy(t) /\ tx[t].op = op
      /\ Becomes(t, Idle) /\ tx' \in [Txs -> {Idle} \cup Opened] /\ ops' \in 0 .. MaxOps
      /\ Exclusive'
      /\ op # "transfer" => FirstLock(tx[t]) \in tx[t].held
  BY CommitFacts
<1>2. stock' \in [Cells -> Int]
  <2>1. Truth(o) \in [Cells -> Int] /\ stock \in [Cells -> Int]
    BY <1>1, TruthType DEF TypeOK
  <2> QED BY <2>1
<1>3. TypeOK'
  BY <1>1, <1>2 DEF TypeOK
<1>4. CellsExplained'
  BY <1>1, OneOrderMoves
<1>5. Parts'
  <2>1. op # "transfer" /\ op \notin OnReturn
    BY DEF OnOrder, OnReturn
  <2>2. \A x \in Orders : (tx[t].op \in OnOrder /\ x = tx[t].arg.order) \/ SameFields(x)
    BY <1>1
  <2> QED BY <1>1, <2>1, <2>2, OthersKeep
<1> QED BY <1>1, <1>3, <1>4, <1>5 DEF IInv, Parts

\* A shipment whose rows add up to the items took what the rows say.
LEMMA RecordedTruth ==
  ASSUME NEW o \in Orders, NEW w \in [Cells -> Nat], NEW q \in Compositions,
         status'[o] = "shipped", deducted'[o] = TRUE, rows'[o] = w, items'[o] = q,
         \A p \in Products : SumOver(w, CellsOf(p)) = q[p]
  PROVE  Truth(o)' = w /\ \A p \in Products : Gap(o, p)' = 0
<1>1. w # NoRows
  BY TakesSomething
<1>2. Basis(o)' = "recorded"
  BY <1>1 DEF Basis, NoRows, Cells
<1>3. ASSUME NEW p \in Products
      PROVE  Gap(o, p)' = 0
  <2>1. Gap(o, p)' = q[p] - Total(w, CellsOf(p))
    BY DEF Gap, CellsOf
  <2>2. q[p] \in Nat /\ Total(w, CellsOf(p)) = q[p]
    BY CompositionIs, TotalIsSum
  <2> QED BY <2>1, <2>2
<1>4. Checked(o)' = [c \in Cells |-> IF c[2] = Home[o] THEN w[c] + Gap(o, c[1])' ELSE w[c]]
  BY <1>2 DEF Checked, Cells
<1>5. \A c \in Cells : w[c] \in Nat /\ Gap(o, c[1])' = 0
  BY <1>3, CellFacts
<1>6. Checked(o)' = w
  BY <1>4, <1>5
<1> QED BY <1>3, <1>6 DEF Truth

\* A commit about an order has one.
LEMMA OrderIn ==
  ASSUME IInv, NEW t \in Txs, NEW op \in OnOrder, Ready(t, op), End(t)
  PROVE  \E o \in Orders : o = tx[t].arg.order
<1>1. tx[t] \in Opened /\ tx[t].op = op
  BY CommitFacts
<1> QED BY <1>1, RecordOf

\* The step lets no recorded order come to disagree with its items.
RowsKept == \A x \in Orders : RowsAgree(x) => RowsAgree(x)'

\* An order that is not written keeps its rows in agreement.
LEMMA SameRows ==
  ASSUME NEW x, SameFields(x)
  PROVE  RowsAgree(x) => RowsAgree(x)'
<1>1. Basis(x)' = Basis(x)
  BY SameOrder
<1>2. \A p : Gap(x, p)' = Gap(x, p)
  BY DEF SameFields, Gap, CellsOf
<1> QED BY <1>1, <1>2 DEF RowsAgree, SameFields

\* When one order is written, its agreement is all there is to show.
LEMMA OtherRows ==
  ASSUME NEW o \in Orders, \A x \in Orders \ {o} : SameFields(x), RowsAgree(o) => RowsAgree(o)'
  PROVE  RowsKept
BY SameRows DEF RowsKept

\* A shipment writes off the loader's answer, or all from the order's warehouse.
LEMMA ShipCommits ==
  ASSUME IInv, NEW t \in Txs, CommitShip(t)
  PROVE  IInv' /\ RowsKept
<1>1. PICK op \in {"dispatch", "complete"} :
        LET o == tx[t].arg.order
        IN  /\ Ready(t, op) /\ End(t)
            /\ status' = [status EXCEPT ![o] = "shipped"]
            /\ rows' = [rows EXCEPT ![o] = WriteOff(tx[t])]
            /\ deducted' = [deducted EXCEPT ![o] = TRUE]
            /\ stock' = [c \in Cells |-> stock[c] - WriteOff(tx[t])[c]]
            /\ UNCHANGED <<items, transferred, goods>>
  BY DEF CommitShip
<1>2. op \in OnOrder /\ op # "transfer"
  BY DEF OnOrder
<1>3. TypeOK /\ tx[t] \in Opened /\ tx[t].op = op /\ ~Refused(tx[t])
  BY <1>1, <1>2, CommitFacts
<1>4. PICK o \in Orders : o = tx[t].arg.order
  BY <1>1, <1>2, OrderIn
<1>5. PICK w : w = WriteOff(tx[t])
  OBVIOUS
<1>6. PICK q : q = items[o]
  OBVIOUS
<1>7. q \in Compositions /\ q \in [Products -> Nat]
  BY <1>3, <1>6, CompositionIs DEF TypeOK
<1>8. w \in [Cells -> Nat] /\ \A p \in Products : SumOver(w, CellsOf(p)) = q[p]
  <2>1. CASE op = "dispatch"
    <3>1. w = tx[t].arg.plan /\ w \in [Cells -> Nat]
      BY <1>3, <1>5, <2>1, RecordOf DEF WriteOff
    <3>2. Answers(o, w)
      BY <1>3, <1>4, <2>1, <3>1 DEF Refused, Outdated
    <3> QED BY <1>6, <3>1, <3>2, TotalIsSum DEF Answers
  <2>2. CASE op = "complete"
    <3>1. w = AllAt(q, Home[o])
      BY <1>3, <1>4, <1>5, <1>6, <2>2 DEF WriteOff, AllFromHome, AllAt
    <3> QED BY <1>7, <3>1, AllAtTotal, HomeIs
  <2> QED BY <2>1, <2>2
<1>9. status[o] = "confirmed"
  BY <1>3, <1>4, <1>1 DEF Refused
<1>10. Truth(o) = NoRows
  BY <1>9 DEF Truth
<1>11. /\ status' = [status EXCEPT ![o] = "shipped"] /\ rows' = [rows EXCEPT ![o] = w]
       /\ deducted' = [deducted EXCEPT ![o] = TRUE] /\ items' = items
       /\ stock' = [c \in Cells |-> stock[c] - w[c]] /\ UNCHANGED <<transferred, goods>>
  BY <1>1, <1>4, <1>5
<1>12. /\ status \in [Orders -> {"confirmed", "shipped"}] /\ items \in [Orders -> Compositions]
       /\ rows \in [Orders -> [Cells -> Nat]] /\ deducted \in [Orders -> BOOLEAN]
       /\ stock \in [Cells -> Int]
  BY <1>3 DEF TypeOK
<1>13. /\ status' \in [Orders -> {"confirmed", "shipped"}] /\ items' \in [Orders -> Compositions]
       /\ rows' \in [Orders -> [Cells -> Nat]] /\ deducted' \in [Orders -> BOOLEAN]
       /\ \A x \in Orders \ {o} : SameFields(x)
       /\ status'[o] = "shipped" /\ deducted'[o] = TRUE /\ rows'[o] = w /\ items'[o] = q
  BY <1>6, <1>8, <1>11, <1>12 DEF SameFields
<1>14. Truth(o)' = w /\ \A p \in Products : Gap(o, p)' = 0
  BY <1>7, <1>8, <1>13, RecordedTruth
<1>15. stock' = [c \in Cells |-> stock[c] + Truth(o)[c] - Truth(o)'[c]]
  <2>1. \A c \in Cells : Truth(o)[c] = 0 /\ stock[c] \in Int /\ w[c] \in Int
    BY <1>8, <1>10, <1>12 DEF NoRows
  <2> QED BY <1>11, <1>14, <2>1
<1>16. Truth(o)' \in [Cells -> Int]
  BY <1>8, <1>14
<1>17. RowsKept
  BY <1>13, <1>14, OtherRows DEF RowsAgree
<1> QED BY <1>1, <1>2, <1>4, <1>11, <1>13, <1>15, <1>16, <1>17, OrderCommit

\* A rollback gives back what the order took.
LEMMA RollbackCommits ==
  ASSUME IInv, NEW t \in Txs, CommitRollback(t)
  PROVE  IInv' /\ RowsKept
<1>1. Ready(t, "rollback") /\ End(t) /\ "rollback" \in OnOrder
  BY DEF CommitRollback, OnOrder
<1>2. TypeOK /\ tx[t] \in Opened /\ tx[t].op = "rollback" /\ ~Refused(tx[t])
  BY <1>1, CommitFacts
<1>3. PICK o \in Orders : o = tx[t].arg.order
  BY <1>1, OrderIn
<1>4. /\ status' = [status EXCEPT ![o] = "confirmed"] /\ rows' = [rows EXCEPT ![o] = NoRows]
      /\ deducted' = [deducted EXCEPT ![o] = TRUE] /\ items' = items
      /\ stock' = [c \in Cells |-> stock[c] + Checked(o)[c]] /\ UNCHANGED <<transferred, goods>>
  BY <1>3 DEF CommitRollback, GivenBack
<1>5. /\ status \in [Orders -> {"confirmed", "shipped"}] /\ items \in [Orders -> Compositions]
      /\ rows \in [Orders -> [Cells -> Nat]] /\ deducted \in [Orders -> BOOLEAN]
      /\ stock \in [Cells -> Int]
  BY <1>2 DEF TypeOK
<1>6. NoRows \in [Cells -> Nat] /\ NoRows \in [Cells -> Int] /\ \A c \in Cells : NoRows[c] = 0
  BY DEF NoRows
<1> DEFINE n == NoRows
<1>7. /\ status' \in [Orders -> {"confirmed", "shipped"}] /\ items' \in [Orders -> Compositions]
      /\ rows' \in [Orders -> [Cells -> Nat]] /\ deducted' \in [Orders -> BOOLEAN]
      /\ \A x \in Orders \ {o} : SameFields(x)
      /\ status'[o] = "confirmed"
  BY <1>4, <1>5, <1>6 DEF SameFields
<1>8. Truth(o) = Checked(o)
  BY <1>2, <1>3 DEF Truth, Refused
<1>9. Truth(o)' = NoRows
  BY <1>7 DEF Truth, NoRows, Cells
<1>10. stock' = [c \in Cells |-> stock[c] + Truth(o)[c] - Truth(o)'[c]]
  <2>1. Truth(o) \in [Cells -> Int]
    BY <1>2, TruthType
  <2>2. \A c \in Cells : Truth(o)'[c] = 0 /\ Truth(o)[c] \in Int /\ stock[c] \in Int
    BY <1>5, <1>6, <1>9, <2>1
  <2> QED BY <1>4, <1>8, <2>2
<1>11. Truth(o)' \in [Cells -> Int]
  BY <1>6, <1>9
<1>12. RowsKept
  <2>1. RowsAgree(o)'
    BY <1>7 DEF RowsAgree
  <2> QED BY <1>7, <2>1, OtherRows
<1> QED BY <1>1, <1>3, <1>4, <1>7, <1>10, <1>11, <1>12, OrderCommit

\* An edit moves the stock from what the order took before to what it takes now.
LEMMA EditCommits ==
  ASSUME IInv, NEW t \in Txs, CommitEdit(t)
  PROVE  IInv' /\ RowsKept
<1>1. Ready(t, "edit") /\ End(t) /\ "edit" \in OnOrder
  BY DEF CommitEdit, OnOrder
<1>2. TypeOK /\ tx[t] \in Opened /\ tx[t].op = "edit" /\ ~Refused(tx[t])
  BY <1>1, CommitFacts
<1>3. PICK o \in Orders : o = tx[t].arg.order
  BY <1>1, OrderIn
<1>4. PICK q \in Compositions : q = tx[t].arg.new
  BY <1>2, RecordOf
<1>5. PICK w : w = Reconciled(o, q)
  OBVIOUS
<1> DEFINE kept == status[o] = "confirmed" \/ Basis(o) = "not_deducted"
           recorded == status[o] = "shipped" /\ Basis(o) = "recorded"
<1>6. /\ items' = [items EXCEPT ![o] = q] /\ UNCHANGED <<status, deducted, transferred, goods>>
      /\ recorded => rows' = [rows EXCEPT ![o] = w]
      /\ ~recorded => rows' = rows
      /\ Corrected(tx[t]) = {} => stock' = stock
      /\ Corrected(tx[t]) # {} => stock' = [c \in Cells |-> stock[c] + Checked(o)[c] - w[c]]
  BY <1>3, <1>4, <1>5 DEF CommitEdit
<1>7. /\ status \in [Orders -> {"confirmed", "shipped"}] /\ items \in [Orders -> Compositions]
      /\ rows \in [Orders -> [Cells -> Nat]] /\ deducted \in [Orders -> BOOLEAN]
      /\ stock \in [Cells -> Int]
  BY <1>2 DEF TypeOK
<1>8. Corrected(tx[t]) = IF kept THEN {} ELSE Moves(Checked(o), w)
  BY <1>3, <1>4, <1>5 DEF Corrected
<1>9. \/ kept \/ recorded \/ (status[o] = "shipped" /\ Basis(o) = "legacy")
  BY <1>7 DEF Basis
<1>10. ~kept => /\ status[o] = "shipped" /\ Basis(o) # "not_deducted"
                /\ w \in [Cells -> Nat] /\ \A p \in Products : SumOver(w, CellsOf(p)) = q[p]
  <2> SUFFICES ASSUME ~kept PROVE /\ status[o] = "shipped" /\ Basis(o) # "not_deducted"
                /\ w \in [Cells -> Nat] /\ \A p \in Products : SumOver(w, CellsOf(p)) = q[p]
    OBVIOUS
  <2>1. status[o] = "shipped" /\ Basis(o) # "not_deducted"
    BY <1>7
  <2>2. ~AllocationMismatch(o)
    BY <1>2, <1>3, <2>1 DEF Refused
  <2> QED BY <1>2, <1>5, <2>1, <2>2, ReconciledTotal
<1>11. items' \in [Orders -> Compositions] /\ items'[o] = q /\ \A x \in Orders \ {o} : items'[x] = items[x]
  BY <1>6, <1>7
<1>12. rows' \in [Orders -> [Cells -> Nat]] /\ \A x \in Orders \ {o} : rows'[x] = rows[x]
  <2>1. CASE recorded
    BY <1>6, <1>7, <1>10, <2>1
  <2>2. CASE ~recorded
    BY <1>6, <1>7, <2>2
  <2> QED BY <2>1, <2>2
<1>13. \A x \in Orders \ {o} : SameFields(x)
  BY <1>6, <1>11, <1>12 DEF SameFields
<1>14. Truth(o) \in [Cells -> Int]
  BY <1>2, TruthType
<1>15. /\ Truth(o)' \in [Cells -> Int]
       /\ stock' = [c \in Cells |-> stock[c] + Truth(o)[c] - Truth(o)'[c]]
  <2>1. CASE kept
    <3>1. ~recorded /\ stock' = stock
      BY <1>6, <1>8, <2>1
    <3>2. Truth(o) = NoRows
      BY <2>1 DEF Truth, Checked
    <3>3. Truth(o)' = NoRows
      <4>1. status[o] = "confirmed" => Truth(o)' = NoRows
        BY <1>6 DEF Truth, NoRows, Cells
      <4>2. ASSUME Basis(o) = "not_deducted"
            PROVE  Truth(o)' = NoRows
        <5>1. ~deducted[o]
          BY <4>2 DEF Basis
        <5>2. Basis(o)' = "not_deducted"
          BY <1>6, <5>1 DEF Basis
        <5>3. Checked(o)' = NoRows
          BY <5>2 DEF Checked, NoRows, Cells
        <5> QED BY <5>3 DEF Truth, NoRows, Cells
      <4> QED BY <2>1, <4>1, <4>2
    <3>4. NoRows \in [Cells -> Int] /\ \A c \in Cells : NoRows[c] = 0
      BY DEF NoRows
    <3>5. \A c \in Cells : stock[c] + Truth(o)[c] - Truth(o)'[c] = stock[c]
      BY <1>7, <3>2, <3>3, <3>4
    <3> QED BY <1>7, <3>1, <3>3, <3>4, <3>5
  <2>2. CASE ~kept
    <3>1. Truth(o) = Checked(o) /\ w \in [Cells -> Nat]
      BY <1>10, <2>2 DEF Truth
    <3>2. Truth(o)' = w
      <4>1. CASE recorded
        <5>1. status'[o] = "shipped" /\ rows'[o] = w
          BY <1>6, <1>7, <4>1
        <5>2. deducted'[o] = TRUE
          BY <1>6, <1>7, <4>1 DEF Basis
        <5> QED BY <1>10, <1>11, <2>2, <3>1, <5>1, <5>2, RecordedTruth
      <4>2. CASE status[o] = "shipped" /\ Basis(o) = "legacy"
        <5>1. w = AllAt(q, Home[o])
          BY <1>2, <1>5, <4>2, LegacyFollows
        <5>2. Basis(o)' = "legacy"
          <6>1. deducted[o] /\ rows[o] = NoRows
            BY <4>2 DEF Basis
          <6>2. deducted'[o] /\ rows'[o] = NoRows
            BY <1>6, <4>2, <6>1
          <6> QED BY <6>2 DEF Basis, NoRows, Cells
        <5>3. Checked(o)' = AllAt(items'[o], Home[o])
          BY <5>2 DEF Checked, AllFromHome, AllAt, Cells
        <5>4. status'[o] = "shipped"
          BY <1>6, <4>2
        <5> QED BY <1>11, <5>1, <5>3, <5>4 DEF Truth
      <4> QED BY <1>9, <2>2, <4>1, <4>2
    <3>3. stock' = [c \in Cells |-> stock[c] + Checked(o)[c] - w[c]]
      <4>1. CASE Corrected(tx[t]) # {}
        BY <1>6, <4>1
      <4>2. CASE Corrected(tx[t]) = {}
        <5>1. \A c \in Cells : Checked(o)[c] = w[c]
          BY <1>8, <2>2, <4>2 DEF Moves
        <5>2. \A c \in Cells : stock[c] = stock[c] + Checked(o)[c] - w[c]
          BY <1>7, <3>1, <5>1
        <5> QED BY <1>6, <1>7, <4>2, <5>2
      <4> QED BY <4>1, <4>2
    <3>4. w \in [Cells -> Int]
      BY <3>1
    <3> QED BY <3>1, <3>2, <3>3, <3>4
  <2> QED BY <2>1, <2>2
<1>16. status' \in [Orders -> {"confirmed", "shipped"}] /\ deducted' \in [Orders -> BOOLEAN]
  BY <1>6, <1>7
<1>17. UNCHANGED <<transferred, goods>>
  BY <1>6
<1>18. RowsKept
  <2>1. CASE recorded
    <3>1. /\ w \in [Cells -> Nat] /\ \A p \in Products : SumOver(w, CellsOf(p)) = q[p]
          /\ status'[o] = "shipped" /\ rows'[o] = w /\ deducted'[o] = TRUE
      BY <1>6, <1>7, <1>10, <2>1 DEF Basis
    <3>2. \A p \in Products : Gap(o, p)' = 0
      BY <1>11, <3>1, RecordedTruth
    <3> QED BY <1>13, <3>2, OtherRows DEF RowsAgree
  <2>2. CASE ~recorded
    <3>1. status'[o] = status[o] /\ rows'[o] = rows[o] /\ deducted'[o] = deducted[o]
      BY <1>6, <2>2
    <3>2. Basis(o)' = Basis(o)
      BY <3>1 DEF Basis, NoRows, Cells
    <3>3. RowsAgree(o)'
      BY <2>2, <3>1, <3>2 DEF RowsAgree
    <3> QED BY <1>13, <3>3, OtherRows
  <2> QED BY <2>1, <2>2
<1> HIDE DEF kept, recorded
<1> QED BY <1>1, <1>3, <1>11, <1>12, <1>13, <1>15, <1>16, <1>17, <1>18, OrderCommit

\* A transfer moves a bag on the cards and in what transfers brought.
LEMMA TransferCommits ==
  ASSUME IInv, NEW t \in Txs, CommitTransfer(t)
  PROVE  IInv'
<1>1. Ready(t, "transfer") /\ End(t)
  BY DEF CommitTransfer
<1>2. /\ TypeOK /\ CellsExplained /\ Busy(t) /\ tx[t] \in Opened /\ tx[t].op = "transfer"
      /\ Becomes(t, Idle) /\ tx' \in [Txs -> {Idle} \cup Opened] /\ ops' \in 0 .. MaxOps
      /\ Exclusive'
  BY <1>1, CommitFacts
<1>3. PICK from : from = <<tx[t].arg.product, tx[t].arg.from>>
  OBVIOUS
<1>4. PICK to : to = <<tx[t].arg.product, tx[t].arg.to>>
  OBVIOUS
<1>5. from \in Cells /\ to \in Cells
  BY <1>2, <1>3, <1>4, RecordOf, CellFacts
<1>6. /\ stock' = [stock EXCEPT ![from] = @ - 1, ![to] = @ + 1]
      /\ transferred' = [transferred EXCEPT ![from] = @ - 1, ![to] = @ + 1]
      /\ UNCHANGED <<status, items, rows, deducted, goods>>
  BY <1>3, <1>4 DEF CommitTransfer
<1>7. stock \in [Cells -> Int] /\ transferred \in [Cells -> Int]
  BY <1>2 DEF TypeOK
<1>8. /\ stock' \in [Cells -> Int] /\ transferred' \in [Cells -> Int]
      /\ \A c \in Cells : stock'[c] - stock[c] = transferred'[c] - transferred[c]
  BY <1>5, <1>6, <1>7
<1>9. TypeOK'
  BY <1>2, <1>6, <1>8 DEF TypeOK
<1>10. \A x \in Orders : SameFields(x)
  BY <1>6 DEF SameFields
<1> DEFINE a == [x \in Orders |-> Truth(x)]
           b == [x \in Orders |-> Truth(x)']
<1>11. a = b /\ a \in [Orders -> [Cells -> Int]]
  BY <1>2, <1>10, SameOrder, TruthType
<1>12. stock = Balance(a, transferred, goods) /\ Accounted' = Balance(a, transferred', goods)
  BY <1>2, <1>6, <1>11, AccountedIs DEF CellsExplained
<1> HIDE DEF a, b
<1>13. ASSUME NEW c \in Cells
       PROVE  stock'[c] = Balance(a, transferred', goods)[c]
  <2>1. TakenAt(a, c) \in Int
    BY <1>11, TakenType
  <2>2. Back(goods, c) \in Int
    <3>1. goods.accepted \in [Products -> Nat] /\ c[1] \in Products
      BY <1>2, CellFacts DEF TypeOK
    <3> QED BY <3>1 DEF Back
  <2>3. /\ stock[c] = transferred[c] - TakenAt(a, c) + Back(goods, c)
        /\ Balance(a, transferred', goods)[c] = transferred'[c] - TakenAt(a, c) + Back(goods, c)
    BY <1>12 DEF Balance
  <2>4. /\ stock[c] \in Int /\ transferred[c] \in Int /\ stock'[c] \in Int /\ transferred'[c] \in Int
        /\ stock'[c] - stock[c] = transferred'[c] - transferred[c]
    BY <1>7, <1>8
  <2> QED BY <2>1, <2>2, <2>3, <2>4
<1>14. stock' = Balance(a, transferred', goods)
  BY <1>8, <1>13 DEF Balance
<1>15. Parts'
  <2>1. "transfer" \notin OnReturn
    BY DEF OnReturn
  <2> QED BY <1>2, <1>6, <1>10, <2>1, OthersKeep
<1> QED BY <1>2, <1>9, <1>12, <1>14, <1>15 DEF IInv, Parts, CellsExplained

\* The orders as they are, the return's bags on the cards or off them.
LEMMA GoodsMove ==
  ASSUME TypeOK, CellsExplained, \A x \in Orders : SameFields(x), UNCHANGED transferred,
         stock' \in [Cells -> Int],
         \A c \in Cells : Back(goods', c) \in Int /\ stock'[c] = stock[c] + Back(goods', c) - Back(goods, c)
  PROVE  CellsExplained'
<1> DEFINE a == [x \in Orders |-> Truth(x)]
           b == [x \in Orders |-> Truth(x)']
<1>1. a = b /\ a \in [Orders -> [Cells -> Int]]
  BY SameOrder, TruthType
<1>2. stock = Balance(a, transferred, goods) /\ Accounted' = Balance(a, transferred, goods')
  BY <1>1, AccountedIs DEF CellsExplained
<1> HIDE DEF a, b
<1>3. ASSUME NEW c \in Cells
      PROVE  stock'[c] = Balance(a, transferred, goods')[c]
  <2>1. TakenAt(a, c) \in Int
    BY <1>1, TakenType
  <2>2. Back(goods, c) \in Int
    <3>1. goods.accepted \in [Products -> Nat] /\ c[1] \in Products
      BY CellFacts DEF TypeOK
    <3> QED BY <3>1 DEF Back
  <2>3. /\ stock[c] = transferred[c] - TakenAt(a, c) + Back(goods, c)
        /\ Balance(a, transferred, goods')[c] = transferred[c] - TakenAt(a, c) + Back(goods', c)
    BY <1>2 DEF Balance
  <2>4. transferred[c] \in Int
    BY DEF TypeOK
  <2> QED BY <2>1, <2>2, <2>3, <2>4
<1>4. stock' = Balance(a, transferred, goods')
  BY <1>3 DEF Balance
<1> QED BY <1>2, <1>4 DEF CellsExplained

GoodsType ==
  [lines : ReturnLines, accepted : [Products -> Nat], status : {"pending", "closed"}]

\* Closing the return brings its accepted bags, reopening takes them off again.
LEMMA ReturnCommits ==
  ASSUME IInv, NEW t \in Txs, CommitClose(t) \/ CommitReopen(t)
  PROVE  IInv'
<1>1. PICK op \in {"close", "reopen"} :
        /\ Ready(t, op) /\ End(t) /\ UNCHANGED <<status, items, rows, deducted, transferred>>
        /\ op = "close" => goods' = [goods EXCEPT !.status = "closed"] /\ stock' = Returned(1)
        /\ op = "reopen" => goods' = [goods EXCEPT !.status = "pending"] /\ stock' = Returned(-1)
  <2>1. CASE CommitClose(t)
    BY <2>1 DEF CommitClose
  <2>2. CASE CommitReopen(t)
    BY <2>2 DEF CommitReopen
  <2> QED BY <2>1, <2>2
<1>2. op # "transfer" /\ op \in OnReturn /\ op \notin OnOrder
  BY DEF OnReturn, OnOrder
<1>3. /\ TypeOK /\ CellsExplained /\ Busy(t) /\ tx[t] \in Opened /\ tx[t].op = op
      /\ Becomes(t, Idle) /\ tx' \in [Txs -> {Idle} \cup Opened] /\ ops' \in 0 .. MaxOps
      /\ Exclusive' /\ FirstLock(tx[t]) \in tx[t].held /\ ~Refused(tx[t])
  BY <1>1, <1>2, CommitFacts
<1>4. /\ goods \in GoodsType /\ stock \in [Cells -> Int]
      /\ \A c \in Cells : c[1] \in Products /\ goods.accepted[c[1]] \in Nat
  <2>1. goods \in GoodsType /\ stock \in [Cells -> Int]
    BY <1>3 DEF TypeOK, GoodsType
  <2>2. goods.accepted \in [Products -> Nat]
    BY <2>1 DEF GoodsType
  <2> QED BY <2>1, <2>2, CellFacts
<1>5. /\ op = "close" => goods.status = "pending"
      /\ op = "reopen" => goods.status = "closed"
  BY <1>3 DEF Refused
<1>6. /\ goods' \in GoodsType /\ goods'.accepted = goods.accepted
      /\ op = "close" => goods'.status = "closed"
      /\ op = "reopen" => goods'.status = "pending"
  BY <1>1, <1>4 DEF GoodsType
<1>7. ASSUME NEW c \in Cells
      PROVE  /\ Back(goods', c) \in Int /\ stock'[c] \in Int
             /\ stock'[c] = stock[c] + Back(goods', c) - Back(goods, c)
  <2> DEFINE k == goods.accepted[c[1]]
             in == c \in ReturnCells
  <2>1. k \in Nat /\ stock[c] \in Int
    BY <1>4
  <2>2. /\ op = "close" => stock'[c] = IF in THEN stock[c] + 1 * k ELSE stock[c]
        /\ op = "reopen" => stock'[c] = IF in THEN stock[c] + (-1) * k ELSE stock[c]
    BY <1>1 DEF Returned
  <2>3. /\ op = "close" => Back(goods, c) = 0 /\ Back(goods', c) = IF in THEN k ELSE 0
        /\ op = "reopen" => Back(goods', c) = 0 /\ Back(goods, c) = IF in THEN k ELSE 0
    BY <1>5, <1>6 DEF Back, ReturnCells
  <2> HIDE DEF k, in
  <2> QED BY <2>1, <2>2, <2>3
<1>8. stock' \in [Cells -> Int]
  <2>1. DOMAIN stock' = Cells /\ stock' = [c \in Cells |-> stock'[c]]
    BY <1>1 DEF Returned
  <2> QED BY <1>7, <2>1
<1>9. TypeOK'
  BY <1>1, <1>3, <1>6, <1>8 DEF TypeOK, GoodsType
<1>10. \A x \in Orders : SameFields(x)
  BY <1>1 DEF SameFields
<1>11. CellsExplained'
  BY <1>1, <1>3, <1>7, <1>8, <1>10, GoodsMove
<1>12. Parts'
  BY <1>2, <1>3, <1>10, OthersKeep
<1> QED BY <1>3, <1>9, <1>11, <1>12 DEF IInv, Parts

\* A line is accepted while the return is pending: its bags are not on the cards yet.
LEMMA AcceptKeeps ==
  ASSUME IInv, NEW p \in Products, NEW bags \in 0 .. 1, AcceptLine(p, bags)
  PROVE  IInv'
<1>1. TypeOK /\ CellsExplained /\ Exclusive
  BY DEF IInv
<1>2. /\ goods.status = "pending" /\ ops < MaxOps /\ ops' = ops + 1
      /\ goods' = [goods EXCEPT !.accepted[p] = bags]
      /\ UNCHANGED <<status, items, rows, deducted, stock, transferred, tx>>
  BY DEF AcceptLine
<1>3. goods \in GoodsType
  BY <1>1 DEF TypeOK, GoodsType
<1>4. goods' \in GoodsType /\ goods'.status = "pending"
  BY <1>2, <1>3 DEF GoodsType
<1>5. ops' \in 0 .. MaxOps
  BY <1>1, <1>2, StockAssumption DEF TypeOK
<1>6. TypeOK'
  BY <1>1, <1>2, <1>4, <1>5 DEF TypeOK, GoodsType
<1>7. \A x : SameFields(x)
  BY <1>2 DEF SameFields
<1>8. CellsExplained'
  <2>1. \A c \in Cells : Back(goods, c) = 0 /\ Back(goods', c) = 0
    BY <1>2, <1>4 DEF Back
  <2>2. stock' \in [Cells -> Int] /\ stock' = stock
    BY <1>1, <1>2 DEF TypeOK
  <2>3. \A c \in Cells : Back(goods', c) \in Int /\ stock'[c] = stock[c] + Back(goods', c) - Back(goods, c)
    BY <2>1, <2>2
  <2> QED BY <1>1, <1>2, <1>7, <2>2, <2>3, GoodsMove
<1>9. Exclusive'
  BY <1>1, <1>2 DEF Exclusive, Busy
<1>10. ASSUME NEW u \in Txs, Busy(u)'
       PROVE  Covered(tx[u])' /\ Rising(tx[u])'
  <2>1. Busy(u) /\ Covered(tx[u]) /\ Rising(tx[u]) /\ tx' = tx /\ tx[u] \in Opened
    <3>1. Busy(u) /\ tx' = tx
      BY <1>2, <1>10 DEF Busy
    <3> QED BY <1>1, <3>1, BusyIs DEF IInv
  <2>2. ASSUME NEW r, r = tx[u]
        PROVE  Covered(r)'
    <3>1. r.op # "transfer" => (Refused(r)' <=> Refused(r))
      BY <1>2, <1>4, <1>7, <2>1, <2>2, RecordOf, SameRefusal
    <3> QED BY <2>1, <2>2, <3>1, StaysCovered
  <2>3. Covered(tx[u])'
    BY <2>1, <2>2
  <2>4. Rising(tx[u])'
    <3>1. Rising(tx'[u])
      BY <2>1
    <3> QED BY <3>1 DEF Rising, Behind, Calm, Precedes, Rank
  <2> QED BY <2>3, <2>4
<1> QED BY <1>6, <1>8, <1>9, <1>10 DEF IInv

\* The invariant holds at the start: the cards are as accounted and no transaction is open.
LEMMA InitHolds ==
  ASSUME Init
  PROVE  IInv
<1>1. /\ items \in [Orders -> Compositions]
      /\ status \in [Orders -> {"confirmed", "shipped"}]
      /\ deducted \in [Orders -> BOOLEAN] /\ transferred \in [Cells -> Int]
      /\ ops = 0 /\ tx = [t \in Txs |-> Idle] /\ stock = Accounted
  <2>1. items \in [Orders -> Compositions]
    BY StockAssumption DEF Init
  <2>2. status \in [Orders -> {"confirmed", "shipped"}]
    <3>1. PICK s \in {"confirmed", "shipped"} :
            status = [o \in Orders |-> IF o = Min(Orders) THEN s ELSE "confirmed"]
      BY DEF Init
    <3> QED BY <3>1
  <2>3. deducted \in [Orders -> BOOLEAN]
    <3>1. PICK d \in BOOLEAN : deducted = [o \in Orders |-> IF o = Min(Orders) THEN d ELSE TRUE]
      BY DEF Init
    <3> QED BY <3>1
  <2>4. /\ transferred \in [Cells -> Int]
        /\ ops = 0 /\ tx = [t \in Txs |-> Idle] /\ stock = Accounted
    BY DEF Init
  <2> QED BY <2>1, <2>2, <2>3, <2>4
<1>2. rows \in [Orders -> [Cells -> Nat]]
  <2>1. Pasts \cup {NoRows} \subseteq [Cells -> Nat]
    <3>1. NoRows \in [Cells -> Nat]
      BY DEF NoRows
    <3>2. Pasts \subseteq [Cells -> Nat]
      BY StockAssumption DEF Cells
    <3> QED BY <3>1, <3>2
  <2>2. PICK r \in Pasts \cup {NoRows} : rows = [o \in Orders |-> IF o = Min(Orders) THEN r ELSE NoRows]
    BY DEF Init
  <2>3. NoRows \in [Cells -> Nat]
    BY <2>1
  <2> HIDE DEF NoRows, Cells
  <2> QED BY <2>1, <2>2, <2>3
<1>3. goods \in GoodsType
  <2>1. [p \in Products |-> 1] \in [Products -> Nat]
    OBVIOUS
  <2> QED BY <2>1 DEF Init, GoodsType
<1>4. tx \in [Txs -> {Idle} \cup Opened] /\ \A t \in Txs : ~Busy(t)
  BY <1>1 DEF Busy
<1>5. ops \in 0 .. MaxOps
  BY <1>1, StockAssumption
<1>6. \A o \in Orders : Truth(o) \in [Cells -> Int]
  <2> SUFFICES ASSUME NEW o \in Orders PROVE Truth(o) \in [Cells -> Int]
    OBVIOUS
  <2>1. rows[o] \in [Cells -> Nat] /\ items[o] \in [Products -> Nat]
    BY <1>1, <1>2, CompositionIs
  <2>2. NoRows \in [Cells -> Int]
    BY DEF NoRows
  <2>3. \A p \in Products : Gap(o, p) \in Int
    <3> SUFFICES ASSUME NEW p \in Products PROVE Gap(o, p) \in Int
      OBVIOUS
    <3> DEFINE r == rows[o]
    <3>1. \A c \in CellsOf(p) : r[c] \in Int
      BY <2>1, CellFacts
    <3>2. IsFiniteSet(CellsOf(p))
      BY CellFacts
    <3> HIDE DEF r
    <3>3. SumOver(r, CellsOf(p)) \in Int
      BY <3>1, <3>2, SumInt
    <3>4. items[o][p] \in Int
      BY <2>1
    <3> QED BY <3>3, <3>4, TotalIsSum DEF Gap, r
  <2>4. \A c \in Cells : c[1] \in Products /\ rows[o][c] \in Int /\ items[o][c[1]] \in Int
    BY <2>1, CellFacts
  <2>5. AllFromHome(o) \in [Cells -> Int]
    BY <2>4 DEF AllFromHome
  <2>6. Checked(o) \in [Cells -> Int]
    BY <2>2, <2>3, <2>4, <2>5 DEF Checked
  <2> QED BY <2>2, <2>6 DEF Truth
<1>7. stock \in [Cells -> Int]
  <2> DEFINE a == [x \in Orders |-> Truth(x)]
  <2>1. a \in [Orders -> [Cells -> Int]]
    BY <1>6
  <2>2. stock = Balance(a, transferred, goods)
    BY <1>1, AccountedIs
  <2> HIDE DEF a
  <2>3. ASSUME NEW c \in Cells
        PROVE  transferred[c] - TakenAt(a, c) + Back(goods, c) \in Int
    <3>1. TakenAt(a, c) \in Int
      BY <2>1, TakenType
    <3>2. goods.accepted \in [Products -> Nat] /\ c[1] \in Products
      BY <1>3, CellFacts DEF GoodsType
    <3>3. Back(goods, c) \in Int
      BY <3>2 DEF Back
    <3>4. transferred[c] \in Int
      BY <1>1
    <3> QED BY <3>1, <3>3, <3>4
  <2> QED BY <2>2, <2>3 DEF Balance
<1>8. TypeOK
  BY <1>1, <1>2, <1>3, <1>4, <1>5, <1>7 DEF TypeOK, GoodsType
<1> QED BY <1>1, <1>4, <1>8 DEF IInv, CellsExplained, Exclusive

\* Every action keeps the invariant.
LEMMA NextKeeps ==
  ASSUME IInv, Next
  PROVE  IInv'
<1>1. ASSUME NEW t \in Txs,
             \/ Grant(t) \/ DeadlockAbort(t) \/ Checks(t)
             \/ CommitShip(t) \/ CommitEdit(t) \/ CommitRollback(t) \/ CommitTransfer(t)
             \/ CommitClose(t) \/ CommitReopen(t)
      PROVE  IInv'
  BY <1>1, GrantKeeps, AbortKeeps, ChecksKeep, ShipCommits, EditCommits, RollbackCommits,
     TransferCommits, ReturnCommits
<1>2. ASSUME NEW t \in Txs, Free(t), NEW o \in Orders,
             \/ \E plan \in Plans(o) : AskDispatch(t, o, plan)
             \/ AskComplete(t, o) \/ AskRollback(t, o)
             \/ \E new \in Compositions : \E s \in Listings(new) : AskEdit(t, o, new, s)
      PROVE  IInv'
  BY <1>2, DispatchKeeps, CompleteKeeps, EditKeeps
<1>3. ASSUME NEW t \in Txs, Free(t),
             \/ \E p \in Products, from, to \in Warehouses : AskTransfer(t, p, from, to)
             \/ \E op \in {"close", "reopen"} : AskReturn(t, op)
      PROVE  IInv'
  BY <1>3, TransferKeeps, ReturnKeeps
<1>4. ASSUME NEW p \in Products, NEW bags \in 0 .. 1, AcceptLine(p, bags)
      PROVE  IInv'
  BY <1>4, AcceptKeeps
<1> QED BY <1>1, <1>2, <1>3, <1>4 DEF Next

\* A step that changes nothing keeps the invariant.
LEMMA StutterKeeps ==
  ASSUME IInv, UNCHANGED vars
  PROVE  IInv'
<1>1. UNCHANGED World /\ tx' = tx /\ ops' = ops
  BY DEF vars, World
<1>2. TypeOK'
  BY <1>1 DEF IInv, TypeOK, World
<1>3. CellsExplained'
  BY <1>1, SameWorld DEF IInv, CellsExplained, World
<1>4. Exclusive'
  BY <1>1 DEF IInv, Exclusive, Busy
<1>5. ASSUME NEW u \in Txs, Busy(u)'
      PROVE  Covered(tx[u])' /\ Rising(tx[u])'
  <2>1. Covered(tx[u]) /\ Rising(tx[u]) /\ tx'[u] = tx[u]
    BY <1>1, <1>5 DEF IInv, Busy
  <2>2. Covered(tx[u])'
    BY <1>1, <2>1, SameWorld DEF Covered
  <2>3. Rising(tx[u])'
    <3>1. Rising(tx'[u])
      BY <2>1
    <3> QED BY <3>1 DEF Rising, Behind, Calm, Precedes, Rank
  <2> QED BY <2>2, <2>3
<1> QED BY <1>2, <1>3, <1>4, <1>5 DEF IInv

-----------------------------------------------------------------------------
(* The theorems *)

\* The invariant behind all the others: the types, the balance, the locks held
\* at once, and what each transaction saw and still has to lock.
THEOREM Invariance == Spec => []IInv
<1>1. Init => IInv
  BY InitHolds
<1>2. IInv /\ [Next]_vars => IInv'
  BY NextKeeps, StutterKeeps
<1> QED BY <1>1, <1>2, PTL DEF Spec

\* Every variable has its type: no row counts negative bags, every transaction
\* in the table is a record of one of the seven operations.
THEOREM TypeCorrect == Spec => []TypeOK
<1>1. IInv => TypeOK
  BY DEF IInv
<1> QED BY <1>1, Invariance, PTL

\* The balance of every stock card is what its orders, transfers and returns make it.
THEOREM CellsExplainedHolds == Spec => []CellsExplained
<1>1. IInv => CellsExplained
  BY DEF IInv
<1> QED BY <1>1, Invariance, PTL

\* absorb_delta: an increase of a shipped order's item and an equal decrease
\* leave the rows as they were.
THEOREM UndoIsExactHolds == Spec => []UndoIsExact
<1>1. TypeOK => UndoIsExact
  <2> SUFFICES ASSUME TypeOK, NEW o \in Orders, NEW p \in Products, NEW d \in 1 .. 2
               PROVE  AbsorbDelta(AbsorbDelta(rows[o], p, d, Home[o]), p, -d, Home[o]) = rows[o]
    BY DEF UndoIsExact
  <2>1. rows[o] \in [Cells -> Nat] /\ Home[o] \in Warehouses
    BY HomeIs DEF TypeOK
  <2> QED BY <2>1, UndoIsPureData
<1> QED BY <1>1, TypeCorrect, PTL

\* A step that ships, edits or rolls back keeps the rows true; the others write none.
LEMMA StepKeepsRows ==
  ASSUME IInv, [Next]_vars
  PROVE  RowsKept
<1>1. CASE \E t \in Txs : CommitShip(t) \/ CommitEdit(t) \/ CommitRollback(t)
  BY <1>1, ShipCommits, EditCommits, RollbackCommits
<1>2. ASSUME UNCHANGED <<status, items, rows, deducted>>
      PROVE  RowsKept
  <2>1. \A x : SameFields(x)
    BY <1>2 DEF SameFields
  <2> QED BY <2>1, SameRows DEF RowsKept
<1>3. ASSUME NEW t \in Txs,
             \/ Grant(t) \/ DeadlockAbort(t) \/ Checks(t)
             \/ CommitTransfer(t) \/ CommitClose(t) \/ CommitReopen(t)
      PROVE  UNCHANGED <<status, items, rows, deducted>>
  BY <1>3 DEF Grant, DeadlockAbort, Checks, CommitTransfer, CommitClose, CommitReopen
<1>4. ASSUME NEW t, NEW op, NEW arg, NEW want, Start(t, op, arg, want)
      PROVE  UNCHANGED <<status, items, rows, deducted>>
  BY <1>4 DEF Start
<1>5. ASSUME NEW t, NEW o,
             \/ \E plan \in Plans(o) : AskDispatch(t, o, plan)
             \/ AskComplete(t, o) \/ AskRollback(t, o)
             \/ \E new \in Compositions : \E s \in Listings(new) : AskEdit(t, o, new, s)
      PROVE  UNCHANGED <<status, items, rows, deducted>>
  BY <1>4, <1>5 DEF AskDispatch, AskComplete, AskRollback, AskEdit
<1>6. ASSUME NEW t,
             \/ \E p \in Products, from, to \in Warehouses : AskTransfer(t, p, from, to)
             \/ \E op \in {"close", "reopen"} : AskReturn(t, op)
      PROVE  UNCHANGED <<status, items, rows, deducted>>
  BY <1>4, <1>6 DEF AskTransfer, AskReturn
<1>7. ASSUME NEW p, NEW bags, AcceptLine(p, bags)
      PROVE  UNCHANGED <<status, items, rows, deducted>>
  BY <1>7 DEF AcceptLine
<1>8. CASE UNCHANGED vars
  BY <1>2, <1>8 DEF vars
<1> QED BY <1>1, <1>2, <1>3, <1>5, <1>6, <1>7, <1>8 DEF Next

\* An order whose rows agree with its items never comes to disagree.
THEOREM RowsStayTrueHolds == Spec => RowsStayTrue
<1>1. IInv /\ [Next]_vars => [\A o \in Orders : RowsAgree(o) => RowsAgree(o)']_vars
  BY StepKeepsRows DEF RowsKept
<1> QED BY <1>1, Invariance, PTL DEF Spec, RowsStayTrue

\* Locks are ordered by rank and number.
LEMMA PrecedesIsOrder ==
  ASSUME NEW a \in Locks, NEW b \in Locks, NEW c \in Locks
  PROVE  /\ ~Precedes(a, a)
         /\ Precedes(a, b) /\ Precedes(b, c) => Precedes(a, c)
         /\ c.kind = a.kind /\ c.id = a.id /\ Precedes(a, b) => Precedes(c, b)
<1>1. \A l \in Locks : Rank(l) \in Nat /\ l.id \in Nat
  BY DEF Rank, Locks
<1>2. c.kind = a.kind /\ c.id = a.id => Rank(c) = Rank(a)
  BY DEF Rank
<1> QED BY <1>1, <1>2 DEF Precedes

\* A sorted transaction waits only for one that wants something further on.
LEMMA WaitsForward ==
  ASSUME IInv, NEW t \in Txs, NEW u \in Txs, WaitsFor(t, u),
         tx[t].op \in Sorted, tx[u].op \in Sorted, Waiting(u),
         \E v \in Txs : WaitsFor(u, v) /\ tx[v].op \in Sorted
  PROVE  /\ Head(tx[t].want) \in Locks /\ Head(tx[u].want) \in Locks
         /\ Precedes(Head(tx[t].want), Head(tx[u].want))
<1>1. TypeOK /\ Exclusive
  BY DEF IInv
<1>2. ASSUME NEW x \in Txs, NEW y \in Txs, WaitsFor(x, y), tx[x].op \in Sorted, tx[y].op \in Sorted
      PROVE  /\ tx[x].held \in SUBSET Locks /\ tx[y].held \in SUBSET Locks
             /\ Head(tx[x].want) \in Locks
             /\ \A b \in tx[x].held : Precedes(b, Head(tx[x].want))
  <2> DEFINE r == tx[x]
             h == Head(r.want)
  <2>1. /\ Busy(x) /\ Busy(y) /\ x # y /\ r.want # <<>>
        /\ r \in Opened /\ tx[y] \in Opened /\ Rising(r) /\ Rising(tx[y])
    BY <1>1, <1>2, BusyIs DEF IInv, WaitsFor, Waiting
  <2>2. PICK l \in tx[y].held : ~Compatible(h, l)
    BY <1>2 DEF WaitsFor
  <2>3. r.want \in Seq(Locks) /\ r.held \in SUBSET Locks /\ tx[y].held \in SUBSET Locks
    BY <2>1, RecordOf
  <2>4. 1 \in DOMAIN r.want /\ r.want[1] = h /\ h \in Locks
    BY <2>1, <2>3
  <2>5. Behind(r, 1) = r.held
    <3>1. 1 .. (1 - 1) = {}
      OBVIOUS
    <3> QED BY <3>1 DEF Behind
  <2>6. Calm(h) \/ h \in r.held \/ \A b \in r.held : Precedes(b, h)
    BY <1>2, <2>1, <2>4, <2>5 DEF Rising
  <2>7. l.kind = "warehouse" => l.mode # "update"
    BY <1>2, <2>1 DEF Rising
  <2>8. ~Calm(h)
    BY <2>2, <2>7 DEF Calm, Compatible
  <2>9. h \notin r.held
    BY <1>1, <2>1, <2>2 DEF Exclusive
  <2> QED BY <2>3, <2>4, <2>6, <2>8, <2>9
<1>3. PICK v \in Txs : WaitsFor(u, v) /\ tx[v].op \in Sorted
  OBVIOUS
<1>4. PICK l \in tx[u].held : ~Compatible(Head(tx[t].want), l)
  BY DEF WaitsFor
<1>5. l.kind = Head(tx[t].want).kind /\ l.id = Head(tx[t].want).id
  BY <1>4 DEF Compatible
<1>6. Precedes(l, Head(tx[u].want)) /\ l \in Locks /\ Head(tx[u].want) \in Locks
  BY <1>2, <1>3
<1>7. Head(tx[t].want) \in Locks
  BY <1>2
<1> QED BY <1>5, <1>6, <1>7, PrecedesIsOrder

\* Shipments, rollbacks and transfers never wait for each other in a circle:
\* the last one in the order of the locks would have to wait for one after it.
THEOREM SortedWritersHolds == Spec => []SortedWritersNeverDeadlock
<1>1. IInv => SortedWritersNeverDeadlock
  <2> SUFFICES ASSUME IInv, NEW S \in SUBSET Txs, Stuck(S), \A t \in S : tx[t].op \in Sorted
               PROVE  FALSE
    BY DEF SortedWritersNeverDeadlock
  <2> DEFINE h(t) == Head(tx[t].want)
             R == {q \in S \X S : Precedes(h(q[2]), h(q[1]))}
  <2>1. S # {} /\ IsFiniteSet(S) /\ \A t \in S : \E u \in S : WaitsFor(t, u)
    BY StockAssumption, FS_Subset DEF Stuck
  <2>2. ASSUME NEW t \in S, NEW u \in S, WaitsFor(t, u)
        PROVE  h(t) \in Locks /\ Precedes(h(t), h(u))
    <3>1. PICK v \in S : WaitsFor(u, v)
      BY <2>1
    <3>2. Waiting(u)
      BY <3>1 DEF WaitsFor
    <3> QED BY <2>2, <3>1, <3>2, WaitsForward
  <2>3. \A t \in S : h(t) \in Locks
    BY <2>1, <2>2
  <2> HIDE DEF h
  <2>4. \A t, u \in S : <<u, t>> \in R <=> Precedes(h(t), h(u))
    OBVIOUS
  <2> HIDE DEF R
  <2>5. StrictOn(R, S)
    <3>1. \A x \in S : <<x, x>> \notin R
      BY <2>3, <2>4, PrecedesIsOrder
    <3>2. ASSUME NEW x \in S, NEW y \in S, NEW z \in S, <<x, y>> \in R, <<y, z>> \in R
          PROVE  <<x, z>> \in R
      <4>1. Precedes(h(y), h(x)) /\ Precedes(h(z), h(y))
        BY <2>4, <3>2
      <4>2. Precedes(h(z), h(x))
        BY <2>3, <4>1, PrecedesIsOrder
      <4> QED BY <2>4, <4>2
    <3> QED BY <3>1, <3>2 DEF StrictOn
  <2>6. PICK x \in S : \A y \in S : <<y, x>> \notin R
    BY <2>1, <2>5, NoEndlessChain
  <2>7. PICK y \in S : WaitsFor(x, y)
    BY <2>1
  <2> QED BY <2>2, <2>4, <2>6, <2>7
<1> QED BY <1>1, Invariance, PTL
=============================================================================
