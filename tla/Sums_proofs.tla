------------------------------ MODULE Sums_proofs ------------------------------
(* Sums over finite sets: the facts about MapThenSumSet that the proofs of  *)
(* the money and the stock need.  The library's induction cannot be         *)
(* instantiated by the provers, so each proof takes a smallest set that     *)
(* would be an exception.                                                   *)
EXTENDS Integers, Sequences, FiniteSetsExt, FiniteSetTheorems, WellFoundedInduction, TLAPS

\* The sum of f over the set S.
SumOver(f, S) == MapThenSumSet(LAMBDA x : f[x], S)

-----------------------------------------------------------------------------
(* The recursion of the fold has exactly one solution. *)

Unfolded(g, f, T) ==
  IF T = {} THEN 0 ELSE LET x == CHOOSE x \in T : TRUE IN f[x] + g[T \ {x}]
Solves(g, f, S) == g = [T \in SUBSET S |-> Unfolded(g, f, T)]

LEMMA SmallestSet ==
  ASSUME NEW S, IsFiniteSet(S), NEW B, B \subseteq SUBSET S, B # {}
  PROVE  \E T \in B : \A U \in SUBSET T : U # T => U \notin B
<1>1. FiniteSubsetsOf(S) = SUBSET S
  BY FS_FiniteSubsetsOfFinite
<1>2. IsWellFoundedOn(StrictSubsetOrdering(S), SUBSET S)
  BY <1>1, FS_StrictSubsetOrderingWellFounded
<1>3. PICK T \in B : \A U \in B : ~(<<U, T>> \in StrictSubsetOrdering(S))
  BY <1>2, WFMin
<1>4. ASSUME NEW U \in SUBSET T, U # T, U \in B
      PROVE  FALSE
  BY <1>3, <1>4 DEF StrictSubsetOrdering
<1> QED BY <1>4

LEMMA SolutionUnique ==
  ASSUME NEW f, NEW S, IsFiniteSet(S), NEW g, Solves(g, f, S), NEW h, Solves(h, f, S),
         NEW T \in SUBSET S
  PROVE  g[T] = h[T]
<1> DEFINE B == {U \in SUBSET S : g[U] # h[U]}
<1>1. SUFFICES ASSUME B # {} PROVE FALSE
  OBVIOUS
<1>2. PICK U \in B : \A V \in SUBSET U : V # U => V \notin B
  BY <1>1, SmallestSet
<1>3. CASE U = {}
  BY <1>3 DEF Solves, Unfolded
<1>4. CASE U # {}
  <2> DEFINE x == CHOOSE x \in U : TRUE
  <2>1. x \in U
    BY <1>4
  <2>2. g[U \ {x}] = h[U \ {x}]
    BY <1>2, <2>1
  <2>3. g[U] = f[x] + g[U \ {x}] /\ h[U] = f[x] + h[U \ {x}]
    BY <1>4 DEF Solves, Unfolded
  <2> QED BY <2>2, <2>3
<1> QED BY <1>3, <1>4

LEMMA SolutionRestricts ==
  ASSUME NEW f, NEW S, NEW g, Solves(g, f, S), NEW T \in SUBSET S
  PROVE  Solves([U \in SUBSET T |-> g[U]], f, T)
<1> DEFINE h == [U \in SUBSET T |-> g[U]]
<1>1. ASSUME NEW U \in SUBSET T
      PROVE  h[U] = Unfolded(h, f, U)
  BY DEF Solves, Unfolded
<1> QED BY <1>1 DEF Solves

LEMMA SolutionExists ==
  ASSUME NEW f, NEW S, IsFiniteSet(S)
  PROVE  \E g : Solves(g, f, S)
<1> DEFINE B == {T \in SUBSET S : \A g : ~Solves(g, f, T)}
<1>1. SUFFICES ASSUME B # {} PROVE FALSE
  OBVIOUS
<1>2. PICK T \in B : \A U \in SUBSET T : U # T => U \notin B
  <2>1. B \subseteq SUBSET S
    OBVIOUS
  <2> HIDE DEF B
  <2> QED BY <1>1, <2>1, SmallestSet
<1>3. \A U \in SUBSET T : U # T => \E g : Solves(g, f, U)
  BY <1>2
<1>4. T # {}
  <2> DEFINE z == [U \in SUBSET {} |-> 0]
  <2>1. Solves(z, f, {})
    <3>1. \A U \in SUBSET {} : U = {}
      OBVIOUS
    <3> QED BY <3>1 DEF Solves, Unfolded
  <2> QED BY <1>2, <2>1
<1> DEFINE sol(U) == CHOOSE g : Solves(g, f, U)
           x == CHOOSE x \in T : TRUE
           h == [U \in SUBSET T |-> IF U = T THEN f[x] + sol(T \ {x})[T \ {x}] ELSE sol(U)[U]]
<1>5. x \in T
  BY <1>4
<1>6. ASSUME NEW U \in SUBSET T, U # T
      PROVE  Solves(sol(U), f, U)
  BY <1>3, <1>6
<1>7. ASSUME NEW U \in SUBSET T, U # T, U # {}, NEW y \in U
      PROVE  sol(U)[U \ {y}] = sol(U \ {y})[U \ {y}]
  <2> DEFINE V == U \ {y}
  <2>1. IsFiniteSet(V)
    BY FS_Subset
  <2>2. Solves([W \in SUBSET V |-> sol(U)[W]], f, V)
    BY <1>6, <1>7, SolutionRestricts
  <2>3. Solves(sol(V), f, V)
    BY <1>6, <1>7
  <2>4. V \in SUBSET V
    OBVIOUS
  <2> HIDE DEF V, sol
  <2>5. [W \in SUBSET V |-> sol(U)[W]][V] = sol(V)[V]
    BY <2>1, <2>2, <2>3, <2>4, SolutionUnique
  <2> QED BY <2>4, <2>5 DEF V
<1>8. ASSUME NEW U \in SUBSET T
      PROVE  h[U] = Unfolded(h, f, U)
  <2>1. CASE U = T
    BY <1>4, <1>5, <2>1 DEF Unfolded
  <2>2. CASE U # T /\ U = {}
    <3>1. Solves(sol(U), f, U) /\ h[U] = sol(U)[U]
      BY <1>6, <2>2
    <3> HIDE DEF h, sol
    <3> QED BY <2>2, <3>1 DEF Solves, Unfolded
  <2>3. CASE U # T /\ U # {}
    <3> DEFINE y == CHOOSE y \in U : TRUE
    <3>1. y \in U
      BY <2>3
    <3>2. sol(U)[U] = f[y] + sol(U)[U \ {y}]
      <4>1. Solves(sol(U), f, U)
        BY <1>6, <2>3
      <4> HIDE DEF sol
      <4> QED BY <2>3, <4>1 DEF Solves, Unfolded
    <3>3. sol(U)[U \ {y}] = sol(U \ {y})[U \ {y}]
      BY <1>7, <2>3, <3>1
    <3>4. h[U] = sol(U)[U] /\ h[U \ {y}] = sol(U \ {y})[U \ {y}]
      BY <2>3, <3>1
    <3> HIDE DEF h, sol
    <3> QED BY <2>3, <3>2, <3>3, <3>4 DEF Unfolded
  <2> QED BY <2>1, <2>2, <2>3
<1>9. Solves(h, f, T)
  <2>1. h = [U \in SUBSET T |-> h[U]]
    OBVIOUS
  <2> HIDE DEF h
  <2> QED BY <1>8, <2>1 DEF Solves
<1> QED BY <1>2, <1>9

LEMMA SumSolves ==
  ASSUME NEW f, NEW S, IsFiniteSet(S)
  PROVE  \E g : Solves(g, f, S) /\ \A T \in SUBSET S : SumOver(f, T) = g[T]
<1> DEFINE sol(T) == CHOOSE g : Solves(g, f, T)
<1>1. ASSUME NEW T
      PROVE  SumOver(f, T) = sol(T)[T]
  BY DEF SumOver, MapThenSumSet, MapThenFoldSet, Solves, Unfolded
<1>2. ASSUME NEW T \in SUBSET S
      PROVE  Solves(sol(T), f, T)
  BY FS_Subset, SolutionExists
<1>3. ASSUME NEW T \in SUBSET S
      PROVE  sol(T)[T] = sol(S)[T]
  <2>1. IsFiniteSet(T)
    BY FS_Subset
  <2>2. Solves([U \in SUBSET T |-> sol(S)[U]], f, T)
    BY <1>2, SolutionRestricts
  <2>3. T \in SUBSET T /\ Solves(sol(T), f, T)
    BY <1>2
  <2> HIDE DEF sol
  <2>4. sol(T)[T] = [U \in SUBSET T |-> sol(S)[U]][T]
    BY <2>1, <2>2, <2>3, SolutionUnique
  <2> QED BY <2>3, <2>4
<1> HIDE DEF sol
<1> QED BY <1>1, <1>2, <1>3

-----------------------------------------------------------------------------
(* Sums. *)

LEMMA SumEmpty ==
  ASSUME NEW f
  PROVE  SumOver(f, {}) = 0
<1>1. IsFiniteSet({})
  BY FS_EmptySet
<1>2. PICK g : Solves(g, f, {}) /\ \A T \in SUBSET {} : SumOver(f, T) = g[T]
  BY <1>1, SumSolves
<1> QED BY <1>2 DEF Solves, Unfolded

LEMMA SumChosen ==
  ASSUME NEW f, NEW S, IsFiniteSet(S), S # {}
  PROVE  \E x \in S : SumOver(f, S) = f[x] + SumOver(f, S \ {x})
<1>1. PICK g : Solves(g, f, S) /\ \A T \in SUBSET S : SumOver(f, T) = g[T]
  BY SumSolves
<1>2. PICK x \in S : g[S] = f[x] + g[S \ {x}]
  BY <1>1 DEF Solves, Unfolded
<1>3. SumOver(f, S) = g[S] /\ SumOver(f, S \ {x}) = g[S \ {x}]
  BY <1>1
<1> QED BY <1>2, <1>3

LEMMA SumInt ==
  ASSUME NEW f, NEW S, IsFiniteSet(S), \A x \in S : f[x] \in Int
  PROVE  SumOver(f, S) \in Int
<1> DEFINE B == {T \in SUBSET S : SumOver(f, T) \notin Int}
<1>1. SUFFICES ASSUME B # {} PROVE FALSE
  OBVIOUS
<1>2. PICK T \in B : \A U \in SUBSET T : U # T => U \notin B
  <2>1. B \subseteq SUBSET S
    OBVIOUS
  <2> HIDE DEF B
  <2> QED BY <1>1, <2>1, SmallestSet
<1>3. T # {}
  BY SumEmpty
<1>4. PICK x \in T : SumOver(f, T) = f[x] + SumOver(f, T \ {x})
  <2>1. IsFiniteSet(T)
    BY FS_Subset
  <2> QED BY <1>3, <2>1, SumChosen
<1>5. SumOver(f, T \ {x}) \in Int
  BY <1>2
<1> QED BY <1>4, <1>5

\* An element may be taken out first, whichever the fold chooses.
LEMMA SumRemove ==
  ASSUME NEW f, NEW S, IsFiniteSet(S), \A x \in S : f[x] \in Int, NEW x \in S
  PROVE  SumOver(f, S) = f[x] + SumOver(f, S \ {x})
<1> DEFINE Fits(T) == \A z \in T : SumOver(f, T) = f[z] + SumOver(f, T \ {z})
           B == {T \in SUBSET S : ~Fits(T)}
<1>1. SUFFICES ASSUME B # {} PROVE FALSE
  OBVIOUS
<1>2. PICK T \in B : \A U \in SUBSET T : U # T => U \notin B
  <2>1. B \subseteq SUBSET S
    OBVIOUS
  <2> HIDE DEF B
  <2> QED BY <1>1, <2>1, SmallestSet
<1>3. \A U \in SUBSET T : U # T => Fits(U)
  BY <1>2
<1>4. PICK z \in T : SumOver(f, T) # f[z] + SumOver(f, T \ {z})
  BY <1>2
<1>5. PICK y \in T : SumOver(f, T) = f[y] + SumOver(f, T \ {y})
  <2>1. IsFiniteSet(T)
    BY FS_Subset
  <2> QED BY <1>4, <2>1, SumChosen
<1>6. y # z
  BY <1>4, <1>5
<1> DEFINE R == (T \ {z}) \ {y}
<1>7. SumOver(f, T \ {y}) = f[z] + SumOver(f, R)
  <2>1. Fits(T \ {y}) /\ z \in T \ {y}
    BY <1>3, <1>5, <1>6
  <2>2. (T \ {y}) \ {z} = R
    OBVIOUS
  <2> HIDE DEF R
  <2> QED BY <2>1, <2>2
<1>8. SumOver(f, T \ {z}) = f[y] + SumOver(f, R)
  <2>1. Fits(T \ {z}) /\ y \in T \ {z}
    BY <1>3, <1>4, <1>6
  <2> QED BY <2>1
<1>9. SumOver(f, R) \in Int
  <2>1. IsFiniteSet(R)
    BY FS_Subset
  <2> QED BY <2>1, SumInt
<1>10. f[y] \in Int /\ f[z] \in Int
  OBVIOUS
<1> HIDE DEF R
<1> QED BY <1>4, <1>5, <1>7, <1>8, <1>9, <1>10

LEMMA SumAdd ==
  ASSUME NEW f, NEW S, IsFiniteSet(S), NEW x, x \notin S, \A y \in S \cup {x} : f[y] \in Int
  PROVE  SumOver(f, S \cup {x}) = SumOver(f, S) + f[x]
<1>1. IsFiniteSet(S \cup {x})
  BY FS_AddElement
<1>2. SumOver(f, S \cup {x}) = f[x] + SumOver(f, (S \cup {x}) \ {x})
  BY <1>1, SumRemove
<1>3. (S \cup {x}) \ {x} = S
  OBVIOUS
<1>4. SumOver(f, S) \in Int
  BY SumInt
<1>5. f[x] \in Int
  OBVIOUS
<1>6. SumOver(f, S \cup {x}) = f[x] + SumOver(f, S)
  BY <1>2, <1>3
<1> QED BY <1>4, <1>5, <1>6

LEMMA SumSingle ==
  ASSUME NEW f, NEW x, f[x] \in Int
  PROVE  SumOver(f, {x}) = f[x]
<1>1. IsFiniteSet({x}) /\ {x} \ {x} = {}
  BY FS_Singleton
<1> QED BY <1>1, SumRemove, SumEmpty

\* Only the values on the set count.
LEMMA SumSame ==
  ASSUME NEW f, NEW g, NEW S, IsFiniteSet(S), \A x \in S : f[x] = g[x]
  PROVE  SumOver(f, S) = SumOver(g, S)
<1>1. PICK s : Solves(s, f, S) /\ \A T \in SUBSET S : SumOver(f, T) = s[T]
  BY SumSolves
<1>2. PICK t : Solves(t, g, S) /\ \A T \in SUBSET S : SumOver(g, T) = t[T]
  BY SumSolves
<1>3. \A T \in SUBSET S : Unfolded(t, g, T) = Unfolded(t, f, T)
  BY DEF Unfolded
<1>4. Solves(t, f, S)
  BY <1>2, <1>3 DEF Solves
<1>5. s[S] = t[S]
  BY <1>1, <1>4, SolutionUnique
<1> QED BY <1>1, <1>2, <1>5

LEMMA SumAtMost ==
  ASSUME NEW f, NEW g, NEW S, IsFiniteSet(S),
         \A x \in S : f[x] \in Int /\ g[x] \in Int /\ f[x] <= g[x]
  PROVE  SumOver(f, S) <= SumOver(g, S)
<1> DEFINE B == {T \in SUBSET S : ~(SumOver(f, T) <= SumOver(g, T))}
<1>1. SUFFICES ASSUME B # {} PROVE FALSE
  OBVIOUS
<1>2. PICK T \in B : \A U \in SUBSET T : U # T => U \notin B
  <2>1. B \subseteq SUBSET S
    OBVIOUS
  <2> HIDE DEF B
  <2> QED BY <1>1, <2>1, SmallestSet
<1>3. IsFiniteSet(T)
  BY FS_Subset
<1>4. PICK x \in T : TRUE
  <2>1. SumOver(f, {}) = 0 /\ SumOver(g, {}) = 0
    BY SumEmpty
  <2>2. ~(SumOver(f, T) <= SumOver(g, T))
    OBVIOUS
  <2>3. SumOver(f, {}) <= SumOver(g, {})
    BY <2>1
  <2>4. T # {}
    BY <2>2, <2>3, Zenon
  <2> QED BY <2>4
<1>5. /\ SumOver(f, T) = f[x] + SumOver(f, T \ {x})
      /\ SumOver(g, T) = g[x] + SumOver(g, T \ {x})
  BY <1>3, SumRemove
<1>6. SumOver(f, T \ {x}) <= SumOver(g, T \ {x})
  BY <1>2
<1>7. SumOver(f, T \ {x}) \in Int /\ SumOver(g, T \ {x}) \in Int
  <2>1. IsFiniteSet(T \ {x})
    BY <1>3, FS_RemoveElement
  <2> QED BY <2>1, SumInt
<1> QED BY <1>2, <1>5, <1>6, <1>7

LEMMA SumNat ==
  ASSUME NEW f, NEW S, IsFiniteSet(S), \A x \in S : f[x] \in Nat
  PROVE  SumOver(f, S) \in Nat
<1> DEFINE B == {T \in SUBSET S : SumOver(f, T) \notin Nat}
<1>1. SUFFICES ASSUME B # {} PROVE FALSE
  OBVIOUS
<1>2. PICK T \in B : \A U \in SUBSET T : U # T => U \notin B
  <2>1. B \subseteq SUBSET S
    OBVIOUS
  <2> HIDE DEF B
  <2> QED BY <1>1, <2>1, SmallestSet
<1>3. T # {}
  BY SumEmpty
<1>4. PICK x \in T : SumOver(f, T) = f[x] + SumOver(f, T \ {x})
  <2>1. IsFiniteSet(T)
    BY FS_Subset
  <2> QED BY <1>3, <2>1, SumChosen
<1>5. SumOver(f, T \ {x}) \in Nat
  BY <1>2
<1> QED BY <1>4, <1>5

\* Changing f at one point changes the sum by as much.
LEMMA SumChange ==
  ASSUME NEW f, NEW g, NEW S, IsFiniteSet(S), NEW x \in S,
         \A y \in S : f[y] \in Int /\ g[y] \in Int,
         \A y \in S \ {x} : g[y] = f[y]
  PROVE  SumOver(g, S) = SumOver(f, S) - f[x] + g[x]
<1>1. IsFiniteSet(S \ {x})
  BY FS_RemoveElement
<1>2. SumOver(f, S \ {x}) = SumOver(g, S \ {x}) /\ SumOver(f, S \ {x}) \in Int
  BY <1>1, SumSame, SumInt
<1>3. /\ SumOver(f, S) = f[x] + SumOver(f, S \ {x})
      /\ SumOver(g, S) = g[x] + SumOver(g, S \ {x})
  BY SumRemove
<1> QED BY <1>2, <1>3

LEMMA SumOfDisjoint ==
  ASSUME NEW f, NEW S, NEW T, IsFiniteSet(S), IsFiniteSet(T), S \cap T = {},
         \A x \in S \cup T : f[x] \in Int
  PROVE  SumOver(f, S \cup T) = SumOver(f, S) + SumOver(f, T)
<1> DEFINE B == {U \in SUBSET T : SumOver(f, S \cup U) # SumOver(f, S) + SumOver(f, U)}
<1>1. SUFFICES ASSUME B # {} PROVE FALSE
  OBVIOUS
<1>2. PICK U \in B : \A V \in SUBSET U : V # U => V \notin B
  <2>1. B \subseteq SUBSET T
    OBVIOUS
  <2> HIDE DEF B
  <2> QED BY <1>1, <2>1, SmallestSet
<1>3. SumOver(f, S) \in Int
  BY SumInt
<1>4. U # {}
  <2>1. S \cup {} = S
    OBVIOUS
  <2>2. SumOver(f, S \cup {}) = SumOver(f, S) + SumOver(f, {})
    BY <1>3, <2>1, SumEmpty
  <2> QED BY <1>2, <2>2
<1>5. PICK x \in U : TRUE
  BY <1>4
<1>6. IsFiniteSet(U) /\ IsFiniteSet(S \cup U) /\ IsFiniteSet(U \ {x})
  <2>1. IsFiniteSet(U)
    BY FS_Subset
  <2> QED BY <2>1, FS_Union, FS_RemoveElement
<1>7. SumOver(f, U) = f[x] + SumOver(f, U \ {x})
  BY <1>6, SumRemove
<1>8. SumOver(f, S \cup U) = f[x] + SumOver(f, (S \cup U) \ {x})
  BY <1>6, SumRemove
<1>9. (S \cup U) \ {x} = S \cup (U \ {x})
  BY <1>5
<1>10. SumOver(f, S \cup (U \ {x})) = SumOver(f, S) + SumOver(f, U \ {x})
  BY <1>2, <1>5
<1>11. SumOver(f, U \ {x}) \in Int /\ f[x] \in Int
  BY <1>5, <1>6, SumInt
<1> QED BY <1>2, <1>3, <1>7, <1>8, <1>9, <1>10, <1>11

\* The sum of what two functions give at each element.
LEMMA SumPlus ==
  ASSUME NEW f, NEW g, NEW h, NEW S, IsFiniteSet(S),
         \A x \in S : f[x] \in Int /\ g[x] \in Int /\ h[x] = f[x] + g[x]
  PROVE  SumOver(h, S) = SumOver(f, S) + SumOver(g, S)
<1> DEFINE adds(T) == SumOver(h, T) = SumOver(f, T) + SumOver(g, T)
           B == {T \in SUBSET S : ~adds(T)}
<1>1. SUFFICES ASSUME B # {} PROVE FALSE
  OBVIOUS
<1>2. PICK T \in B : \A U \in SUBSET T : U # T => U \notin B
  <2>1. B \subseteq SUBSET S
    OBVIOUS
  <2> HIDE DEF B
  <2> QED BY <1>1, <2>1, SmallestSet
<1>3. T \in SUBSET S /\ ~adds(T) /\ IsFiniteSet(T)
  BY <1>2, FS_Subset
<1>4. T # {}
  <2>1. SumOver(f, {}) = 0 /\ SumOver(g, {}) = 0 /\ SumOver(h, {}) = 0
    BY SumEmpty
  <2> QED BY <1>3, <2>1
<1>5. PICK m \in T : TRUE
  BY <1>4
<1> DEFINE U == T \ {m}
<1>6. adds(U)
  BY <1>2, <1>3
<1>7. /\ \A x \in T : f[x] \in Int
      /\ \A x \in T : g[x] \in Int
      /\ \A x \in T : h[x] \in Int
      /\ h[m] = f[m] + g[m] /\ f[m] \in Int /\ g[m] \in Int
  BY <1>3
<1>8. /\ SumOver(f, T) = f[m] + SumOver(f, U)
      /\ SumOver(g, T) = g[m] + SumOver(g, U)
      /\ SumOver(h, T) = h[m] + SumOver(h, U)
  <2> HIDE DEF B, adds
  <2> QED BY <1>3, <1>7, SumRemove
<1>9. SumOver(f, U) \in Int /\ SumOver(g, U) \in Int
  <2>1. /\ IsFiniteSet(U)
        /\ \A x \in U : f[x] \in Int
        /\ \A x \in U : g[x] \in Int
    BY <1>3, <1>7, FS_Subset
  <2> HIDE DEF B, adds, U
  <2> QED BY <2>1, SumInt
<1>10. adds(T)
  BY <1>6, <1>7, <1>8, <1>9
<1> QED BY <1>3, <1>10

LEMMA SumOfSubset ==
  ASSUME NEW f, NEW S, IsFiniteSet(S), NEW T \in SUBSET S, \A x \in S : f[x] \in Nat
  PROVE  SumOver(f, T) <= SumOver(f, S)
<1>1. IsFiniteSet(T) /\ IsFiniteSet(S \ T)
  BY FS_Subset
<1>2. T \cup (S \ T) = S /\ T \cap (S \ T) = {}
  OBVIOUS
<1>3. SumOver(f, T) \in Nat /\ SumOver(f, S \ T) \in Nat
  BY <1>1, SumNat
<1>4. SumOver(f, S) = SumOver(f, T) + SumOver(f, S \ T)
  BY <1>1, <1>2, SumOfDisjoint
<1> QED BY <1>3, <1>4

LEMMA SumZero ==
  ASSUME NEW f, NEW S, IsFiniteSet(S), \A x \in S : f[x] = 0
  PROVE  SumOver(f, S) = 0
<1> DEFINE B == {T \in SUBSET S : SumOver(f, T) # 0}
<1>1. SUFFICES ASSUME B # {} PROVE FALSE
  OBVIOUS
<1>2. PICK T \in B : \A U \in SUBSET T : U # T => U \notin B
  <2>1. B \subseteq SUBSET S
    OBVIOUS
  <2> HIDE DEF B
  <2> QED BY <1>1, <2>1, SmallestSet
<1>3. T # {}
  BY SumEmpty
<1>4. PICK x \in T : SumOver(f, T) = f[x] + SumOver(f, T \ {x})
  <2>1. IsFiniteSet(T)
    BY FS_Subset
  <2> QED BY <1>3, <2>1, SumChosen
<1>5. SumOver(f, T \ {x}) = 0
  BY <1>2
<1> QED BY <1>4, <1>5

\* A sum does not change when its elements are renamed one to one.
LEMMA SumImage ==
  ASSUME NEW f, NEW g, NEW h, NEW S, IsFiniteSet(S),
         \A x, y \in S : h[x] = h[y] => x = y,
         \A x \in S : f[x] \in Int /\ g[h[x]] = f[x]
  PROVE  SumOver(g, {h[x] : x \in S}) = SumOver(f, S)
<1> DEFINE im(T) == {h[x] : x \in T}
           B == {T \in SUBSET S : SumOver(g, im(T)) # SumOver(f, T)}
<1>1. SUFFICES ASSUME B # {} PROVE FALSE
  OBVIOUS
<1>2. PICK T \in B : \A U \in SUBSET T : U # T => U \notin B
  <2>1. B \subseteq SUBSET S
    OBVIOUS
  <2> HIDE DEF B
  <2> QED BY <1>1, <2>1, SmallestSet
<1>3. T \in SUBSET S /\ SumOver(g, im(T)) # SumOver(f, T)
  BY <1>2
<1>4. T # {}
  <2>1. im({}) = {}
    OBVIOUS
  <2> HIDE DEF im
  <2> QED BY <1>3, <2>1, SumEmpty
<1>5. PICK x \in T : TRUE
  BY <1>4
<1>6. SumOver(g, im(T \ {x})) = SumOver(f, T \ {x})
  BY <1>2, <1>5
<1>7. im(T) \ {h[x]} = im(T \ {x})
  BY <1>3, <1>5
<1>8. IsFiniteSet(T) /\ IsFiniteSet(im(T))
  <2>1. IsFiniteSet(T)
    BY <1>3, FS_Subset
  <2>2. [y \in T |-> h[y]] \in Surjection(T, im(T))
    BY DEF Surjection
  <2> QED BY <2>1, <2>2, FS_Surjection
<1>9. \A z \in im(T) : g[z] \in Int
  BY <1>3
<1>10. h[x] \in im(T) /\ g[h[x]] = f[x]
  BY <1>3, <1>5
<1> HIDE DEF im
<1>11. SumOver(g, im(T)) = g[h[x]] + SumOver(g, im(T) \ {h[x]})
  BY <1>8, <1>9, <1>10, SumRemove
<1>12. SumOver(f, T) = f[x] + SumOver(f, T \ {x})
  BY <1>3, <1>5, <1>8, SumRemove
<1>13. SumOver(g, im(T)) = f[x] + SumOver(f, T \ {x})
  BY <1>6, <1>7, <1>10, <1>11
<1> QED BY <1>3, <1>12, <1>13, Zenon

-----------------------------------------------------------------------------
(* Journals: functions to records with an amount and a status. *)

AmountsOf(rs) == [i \in DOMAIN rs |-> rs[i].amount]

LEMMA SumOfAmounts ==
  ASSUME NEW rs, NEW S \in SUBSET DOMAIN rs, IsFiniteSet(S)
  PROVE  MapThenSumSet(LAMBDA i : rs[i].amount, S) = SumOver(AmountsOf(rs), S)
<1> DEFINE f == AmountsOf(rs)
           Same(g) == g = [T \in SUBSET S |->
              IF T = {} THEN 0 ELSE LET x == CHOOSE x \in T : TRUE IN rs[x].amount + g[T \ {x}]]
<1>1. MapThenSumSet(LAMBDA i : rs[i].amount, S) = (CHOOSE g : Same(g))[S]
  BY DEF MapThenSumSet, MapThenFoldSet
<1>2. ASSUME NEW g
      PROVE  Same(g) <=> Solves(g, f, S)
  <2>1. ASSUME NEW T \in SUBSET S
        PROVE  Unfolded(g, f, T) =
                 IF T = {} THEN 0 ELSE LET x == CHOOSE x \in T : TRUE IN rs[x].amount + g[T \ {x}]
    BY DEF Unfolded, AmountsOf
  <2> QED BY <2>1 DEF Solves
<1>3. PICK s : Solves(s, f, S) /\ SumOver(f, S) = s[S]
  BY SumSolves
<1>4. Solves(CHOOSE g : Same(g), f, S)
  <2> HIDE DEF Same, f
  <2> QED BY <1>2, <1>3
<1>5. (CHOOSE g : Same(g))[S] = s[S]
  <2> HIDE DEF Same, f
  <2> QED BY <1>3, <1>4, SolutionUnique
<1> QED BY <1>1, <1>3, <1>5

\* What a row of a journal takes from the balance.
Weights(rs) == [i \in DOMAIN rs |-> IF rs[i].status = "failed" THEN 0 ELSE rs[i].amount]

\* The two totals of a journal together are the weight of all its rows.
LEMMA TotalsAreWeights ==
  ASSUME NEW rs, IsFiniteSet(DOMAIN rs),
         \A i \in DOMAIN rs : /\ rs[i].amount \in Nat
                              /\ rs[i].status \in {"pending", "completed", "failed"}
  PROVE  LET total(status) == MapThenSumSet(LAMBDA i : rs[i].amount,
                                            {i \in DOMAIN rs : rs[i].status = status})
         IN /\ total("completed") \in Nat /\ total("pending") \in Nat
            /\ total("completed") + total("pending") = SumOver(Weights(rs), DOMAIN rs)
<1> DEFINE of(status) == {i \in DOMAIN rs : rs[i].status = status}
           total(status) == MapThenSumSet(LAMBDA i : rs[i].amount, of(status))
           live == of("completed") \cup of("pending")
<1>1. ASSUME NEW status \in {"pending", "completed"}
      PROVE  /\ IsFiniteSet(of(status)) /\ SumOver(Weights(rs), of(status)) \in Nat
             /\ total(status) = SumOver(Weights(rs), of(status))
  <2>1. of(status) \in SUBSET DOMAIN rs /\ IsFiniteSet(of(status))
    BY FS_Subset
  <2>2. \A i \in of(status) : AmountsOf(rs)[i] = Weights(rs)[i] /\ Weights(rs)[i] \in Nat
    BY DEF AmountsOf, Weights
  <2>3. total(status) = SumOver(AmountsOf(rs), of(status))
    <3> HIDE DEF of
    <3> QED BY <2>1, SumOfAmounts
  <2> HIDE DEF of, total
  <2>4. SumOver(AmountsOf(rs), of(status)) = SumOver(Weights(rs), of(status))
    BY <2>1, <2>2, SumSame
  <2>5. SumOver(Weights(rs), of(status)) \in Nat
    BY <2>1, <2>2, SumNat
  <2> QED BY <2>1, <2>3, <2>4, <2>5
<1>2. IsFiniteSet(of("failed")) /\ IsFiniteSet(live)
  BY FS_Subset
<1>3. SumOver(Weights(rs), of("failed")) = 0
  <2>1. \A i \in of("failed") : Weights(rs)[i] = 0
    BY DEF Weights
  <2> HIDE DEF of
  <2> QED BY <1>2, <2>1, SumZero
<1>4. \A i \in DOMAIN rs : Weights(rs)[i] \in Int
  BY DEF Weights
<1>5. /\ of("completed") \cap of("pending") = {} /\ live \cap of("failed") = {}
      /\ live \cup of("failed") = DOMAIN rs /\ live \subseteq DOMAIN rs
  OBVIOUS
<1>6. SumOver(Weights(rs), live) =
        SumOver(Weights(rs), of("completed")) + SumOver(Weights(rs), of("pending"))
  <2> HIDE DEF of
  <2> QED BY <1>1, <1>4, <1>5, SumOfDisjoint
<1>7. SumOver(Weights(rs), DOMAIN rs) = SumOver(Weights(rs), live) + SumOver(Weights(rs), of("failed"))
  <2> HIDE DEF of, live
  <2>1. \A i \in live \cup of("failed") : Weights(rs)[i] \in Int
    BY <1>4, <1>5
  <2>2. SumOver(Weights(rs), live \cup of("failed")) =
          SumOver(Weights(rs), live) + SumOver(Weights(rs), of("failed"))
    BY <1>2, <1>5, <2>1, SumOfDisjoint
  <2> QED BY <1>5, <2>2
<1>8. /\ total("completed") \in Nat /\ total("pending") \in Nat
      /\ total("completed") + total("pending") = SumOver(Weights(rs), DOMAIN rs)
  <2> HIDE DEF of, total, live
  <2>1. "completed" \in {"pending", "completed"} /\ "pending" \in {"pending", "completed"}
    OBVIOUS
  <2>2. SumOver(Weights(rs), of("completed")) \in Nat /\ SumOver(Weights(rs), of("pending")) \in Nat
    BY <1>1, <2>1
  <2>3. total("completed") = SumOver(Weights(rs), of("completed"))
    BY <1>1, <2>1
  <2>4. total("pending") = SumOver(Weights(rs), of("pending"))
    BY <1>1, <2>1
  <2> QED BY <1>3, <1>6, <1>7, <2>2, <2>3, <2>4
<1> QED BY <1>8

\* A row more: the totals grow by its weight.
LEMMA WeightsAppend ==
  ASSUME NEW R, NEW rs \in Seq(R), \A r \in R : r.amount \in Nat, NEW r \in R
  PROVE  SumOver(Weights(Append(rs, r)), DOMAIN Append(rs, r)) =
           SumOver(Weights(rs), DOMAIN rs) + (IF r.status = "failed" THEN 0 ELSE r.amount)
<1> DEFINE n == Len(rs) + 1
           rt == Append(rs, r)
<1>1. /\ DOMAIN rs = 1..Len(rs) /\ DOMAIN rt = DOMAIN rs \cup {n} /\ n \notin DOMAIN rs
      /\ \A i \in DOMAIN rs : rt[i] = rs[i] /\ rs[i] \in R
      /\ rt[n] = r
  OBVIOUS
<1>2. IsFiniteSet(DOMAIN rs)
  BY <1>1, FS_Interval
<1> HIDE DEF rt, n
<1>3. /\ \A i \in DOMAIN rs : Weights(rt)[i] = Weights(rs)[i]
      /\ \A i \in DOMAIN rs \cup {n} : Weights(rt)[i] \in Int
      /\ Weights(rt)[n] = IF r.status = "failed" THEN 0 ELSE r.amount
  BY <1>1 DEF Weights
<1>4. SumOver(Weights(rt), DOMAIN rs \cup {n}) = SumOver(Weights(rt), DOMAIN rs) + Weights(rt)[n]
  BY <1>1, <1>2, <1>3, SumAdd
<1>5. SumOver(Weights(rt), DOMAIN rs) = SumOver(Weights(rs), DOMAIN rs)
  BY <1>2, <1>3, SumSame
<1> QED BY <1>1, <1>3, <1>4, <1>5 DEF rt

\* Rows whose weight does not grow keep the totals within bounds.
LEMMA WeightsAtMost ==
  ASSUME NEW rs, NEW rt, IsFiniteSet(DOMAIN rs), DOMAIN rt = DOMAIN rs,
         \A i \in DOMAIN rs : /\ rs[i].amount \in Nat /\ rt[i].amount = rs[i].amount
                              /\ rs[i].status = "failed" => rt[i].status = "failed"
  PROVE  SumOver(Weights(rt), DOMAIN rt) <= SumOver(Weights(rs), DOMAIN rs)
<1>1. \A i \in DOMAIN rs : /\ Weights(rt)[i] \in Int /\ Weights(rs)[i] \in Int
                           /\ Weights(rt)[i] <= Weights(rs)[i]
  BY DEF Weights
<1> QED BY <1>1, SumAtMost
================================================================================
