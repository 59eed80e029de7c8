--------------------------- MODULE PayoffFamilyProofs ---------------------------
(***************************************************************************)
(* Theorems about PayoffFamily for any families, whole payoffs, prices,    *)
(* unit, tolerance and mixtures: what _solve_square computes, that prices  *)
(* called feasible leave no arbitrage, and that a mixture of states which  *)
(* keep the promise of their type is never called infeasible.              *)
(*                                                                         *)
(* Every induction here takes a smallest counterexample: a smallest set,   *)
(* by SmallestSubset, or a least number.  The parts are                    *)
(*   - finite sums, whose fold adds up in an order of its own;             *)
(*   - rows against vectors;                                               *)
(*   - the elimination: a column at a time, it keeps the solutions;        *)
(*   - the solver: exact, unless the columns depend on each other;         *)
(*   - no arbitrage: a portfolio costs the mixture of what it pays;        *)
(*   - mixtures: the fewest states that mix to the prices are independent, *)
(*     so that as many rows determine their weights.                       *)
(***************************************************************************)
EXTENDS PayoffFamily, FiniteSetTheorems, WellFoundedInduction, TLAPS

\* F is integer over S.
Ints(F, S) == \A x \in S : F[x] \in Int

\* g is the sum of F over every subset of S, in whatever order.
IsSum(g, F, S) ==
    /\ g \in [SUBSET S -> Int] /\ g[{}] = 0
    /\ \A T \in SUBSET S : \A x \in T : g[T] = F[x] + g[T \ {x}]

\* A number of which a set of naturals is the set of counterexamples: there is a least one.
LEMMA LeastCounterexample ==
    ASSUME NEW B \in SUBSET Nat, B # {}
    PROVE  \E n \in B : \A m \in Nat : m < n => m \notin B
<1>1. PICK n \in B : \A m \in B : ~(<<m, n>> \in OpToRel(<, Nat))
  BY NatLessThanWellFounded, WFMin
<1>2. \A m \in B : ~(m < n)
  BY <1>1, Zenon DEF OpToRel
<1> QED BY <1>2

\* Without one of its elements a finite set is smaller by one.
LEMMA OneLess ==
    ASSUME NEW T, IsFiniteSet(T), NEW x \in T
    PROVE  /\ Cardinality(T) \in Nat /\ Cardinality(T \ {x}) \in Nat
           /\ Cardinality(T \ {x}) = Cardinality(T) - 1 /\ IsFiniteSet(T \ {x})
<1>1. IsFiniteSet(T \ {x}) /\ Cardinality(T \ {x}) = Cardinality(T) - 1
  BY FS_RemoveElement
<1>2. Cardinality(T) \in Nat /\ Cardinality(T \ {x}) \in Nat
  BY <1>1, FS_CardinalityType
<1> QED BY <1>1, <1>2

\* Subsets that lose a property when an element is taken away never had it: the set of
\* the subsets without it would have a smallest one.
LEMMA SmallestSubset ==
    ASSUME NEW S, IsFiniteSet(S), NEW Q \in SUBSET SUBSET S, Q # {}
    PROVE  \E T \in Q : \A x \in T : (T \ {x}) \notin Q
<1> DEFINE B == {n \in Nat : \E T \in Q : Cardinality(T) = n}
<1>1. \A T \in Q : IsFiniteSet(T) /\ Cardinality(T) \in Nat
  BY FS_Subset, FS_CardinalityType
<1>2. B # {} /\ B \in SUBSET Nat
  BY <1>1
<1> HIDE DEF B
<1>3. PICK n \in B : \A m \in Nat : m < n => m \notin B
  BY <1>2, LeastCounterexample
<1>4. PICK T \in Q : Cardinality(T) = n
  BY <1>3 DEF B
<1>5. ASSUME NEW x \in T, (T \ {x}) \in Q PROVE FALSE
  <2>1. Cardinality(T \ {x}) \in Nat /\ Cardinality(T \ {x}) < n /\ n \in Nat
    BY <1>1, <1>4, OneLess
  <2>2. Cardinality(T \ {x}) \in B
    BY <1>5, <2>1 DEF B
  <2> QED BY <1>3, <2>1, <2>2
<1> QED BY <1>5

\* Every finite function into the integers has a sum.
LEMMA SumExists ==
    ASSUME NEW S, IsFiniteSet(S), NEW F, Ints(F, S)
    PROVE  \E g : IsSum(g, F, S)
<1> DEFINE Q == {T \in SUBSET S : ~ \E g : IsSum(g, F, T)}
<1> SUFFICES ASSUME ~ \E g : IsSum(g, F, S) PROVE FALSE
  OBVIOUS
<1>1. S \in Q
  OBVIOUS
<1>2. PICK T \in Q : \A x \in T : (T \ {x}) \notin Q
  <2> HIDE DEF Q
  <2>1. Q \in SUBSET SUBSET S /\ Q # {}
    BY <1>1 DEF Q
  <2> QED BY <2>1, SmallestSubset
<1>3. T \in SUBSET S /\ ~ \E g : IsSum(g, F, T)
  OBVIOUS
<1>5. T # {}
  <2> SUFFICES ASSUME T = {} PROVE FALSE
    OBVIOUS
  <2> DEFINE g == [U \in SUBSET T |-> 0]
  <2>1. IsSum(g, F, T)
    BY DEF IsSum
  <2> QED BY <1>3, <2>1
<1>6. PICK x \in T : TRUE
  BY <1>5
<1> DEFINE R == T \ {x}
<1>8. \E h : IsSum(h, F, R)
  BY <1>2, <1>3
<1> HIDE DEF Q
<1>9. PICK h : IsSum(h, F, R)
  BY <1>8
<1> DEFINE g == [U \in SUBSET T |-> IF x \in U THEN F[x] + h[U \ {x}] ELSE h[U]]
<1>10. \A y \in T : F[y] \in Int
  BY <1>3 DEF Ints
<1>11. \A U \in SUBSET R : h[U] \in Int
  BY <1>9 DEF IsSum
<1>12. g \in [SUBSET T -> Int] /\ g[{}] = 0
  <2>1. ASSUME NEW U \in SUBSET T
        PROVE (IF x \in U THEN F[x] + h[U \ {x}] ELSE h[U]) \in Int
    <3>1. U \ {x} \in SUBSET R
      OBVIOUS
    <3> QED BY <1>10, <1>11, <3>1
  <2> QED BY <1>9, <2>1 DEF IsSum
<1>13. ASSUME NEW U \in SUBSET T, NEW y \in U PROVE g[U] = F[y] + g[U \ {y}]
  <2>1. CASE y = x
    BY <2>1
  <2>2. CASE y # x /\ x \notin U
    <3>1. U \in SUBSET R /\ g[U] = h[U] /\ g[U \ {y}] = h[U \ {y}]
      BY <2>2
    <3> QED BY <1>9, <3>1 DEF IsSum
  <2>3. CASE y # x /\ x \in U
    <3> DEFINE V == U \ {x}
    <3>1. V \in SUBSET R /\ y \in V /\ (U \ {y}) \ {x} = V \ {y}
      BY <2>3
    <3>2. h[V] = F[y] + h[V \ {y}]
      BY <1>9, <3>1 DEF IsSum
    <3>3. g[U] = F[x] + h[V] /\ g[U \ {y}] = F[x] + h[V \ {y}]
      BY <2>3, <3>1
    <3>4. h[V \ {y}] \in Int /\ F[x] \in Int /\ F[y] \in Int
      BY <1>10, <1>11, <3>1
    <3> HIDE DEF g, V
    <3> QED BY <3>2, <3>3, <3>4
  <2> QED BY <2>1, <2>2, <2>3
<1>14. IsSum(g, F, T)
  <2> HIDE DEF g
  <2> QED BY <1>12, <1>13 DEF IsSum
<1> QED BY <1>3, <1>14

\* The recursion of the community modules adds up in an order of its own.
ByChoice(h, F, S) ==
    h = [s \in SUBSET S |-> IF s = {} THEN 0
                            ELSE LET x == CHOOSE x \in s : TRUE IN F[x] + h[s \ {x}]]

\* Any recursion that adds up element by element ends with the sum.
LEMMA ChosenIsSum ==
    ASSUME NEW S, IsFiniteSet(S), NEW F, Ints(F, S), NEW g, IsSum(g, F, S),
           NEW h, ByChoice(h, F, S)
    PROVE  h[S] = g[S]
<1> DEFINE Q == {T \in SUBSET S : h[T] # g[T]}
<1> SUFFICES ASSUME h[S] # g[S] PROVE FALSE
  OBVIOUS
<1>1. Q \in SUBSET SUBSET S /\ Q # {}
  OBVIOUS
<1> HIDE DEF Q
<1>2. PICK T \in Q : \A x \in T : (T \ {x}) \notin Q
  BY <1>1, SmallestSubset
<1>3. T \in SUBSET S /\ h[T] # g[T]
  BY DEF Q
<1>4. h[T] = IF T = {} THEN 0 ELSE LET x == CHOOSE x \in T : TRUE IN F[x] + h[T \ {x}]
  BY <1>3 DEF ByChoice
<1>5. T # {}
  BY <1>3, <1>4 DEF IsSum
<1> DEFINE x == CHOOSE x \in T : TRUE
<1>6. x \in T
  BY <1>5
<1>7. h[T] = F[x] + h[T \ {x}]
  BY <1>4, <1>5
<1> HIDE DEF x
<1>8. h[T \ {x}] = g[T \ {x}]
  BY <1>2, <1>3, <1>6 DEF Q
<1>9. g[T] = F[x] + g[T \ {x}]
  BY <1>3, <1>6 DEF IsSum
<1> QED BY <1>3, <1>7, <1>8, <1>9

\* The sum of the community modules is the sum in any order.
LEMMA SumIsAny ==
    ASSUME NEW S, IsFiniteSet(S), NEW F, Ints(F, S), NEW g, IsSum(g, F, S)
    PROVE  Sum(F, S) = g[S]
<1> DEFINE Eq(h) == ByChoice(h, F, S)
<1>1. Eq(g)
  <2>1. ASSUME NEW s \in SUBSET S
        PROVE  g[s] = IF s = {} THEN 0 ELSE LET x == CHOOSE x \in s : TRUE
                                            IN  F[x] + g[s \ {x}]
    <3>1. CASE s = {}
      BY <3>1 DEF IsSum
    <3>2. CASE s # {}
      <4>1. (CHOOSE x \in s : TRUE) \in s
        BY <3>2
      <4> QED BY <3>2, <4>1 DEF IsSum
    <3> QED BY <3>1, <3>2
  <2>2. g \in [SUBSET S -> Int]
    BY DEF IsSum
  <2> QED BY <2>1, <2>2 DEF ByChoice
<1> DEFINE h == CHOOSE h : Eq(h)
<1>2. Eq(h)
  BY <1>1
<1>3. Sum(F, S) = h[S]
  BY DEF Sum, SumFunctionOnSet, FoldFunctionOnSet, MapThenFoldSet, ByChoice
<1> HIDE DEF h
<1> QED BY <1>2, <1>3, ChosenIsSum

\* The laws of sums: what they are built from.
LEMMA SumLaws ==
    ASSUME NEW S, IsFiniteSet(S), NEW F, Ints(F, S)
    PROVE  /\ Sum(F, S) \in Int
           /\ S = {} => Sum(F, S) = 0
           /\ \A x \in S : Sum(F, S) = F[x] + Sum(F, S \ {x})
<1>1. PICK g : IsSum(g, F, S)
  BY SumExists
<1>2. Sum(F, S) = g[S]
  BY <1>1, SumIsAny
<1>3. ASSUME NEW x \in S PROVE Sum(F, S) = F[x] + Sum(F, S \ {x})
  <2> DEFINE R == S \ {x}
             f == [U \in SUBSET R |-> g[U]]
  <2>1. \A U \in SUBSET R : U \in SUBSET S /\ g[U] \in Int
    BY <1>1 DEF IsSum
  <2>2. f \in [SUBSET R -> Int] /\ f[{}] = 0
    BY <1>1, <2>1 DEF IsSum
  <2>3. \A U \in SUBSET R : \A y \in U : f[U] = F[y] + f[U \ {y}]
    BY <1>1 DEF IsSum
  <2>4. f[R] = g[R]
    OBVIOUS
  <2> HIDE DEF f
  <2>5. IsSum(f, F, R)
    BY <2>2, <2>3 DEF IsSum
  <2>6. Ints(F, R) /\ IsFiniteSet(R)
    BY OneLess DEF Ints
  <2>7. Sum(F, R) = f[R]
    BY <2>5, <2>6, SumIsAny
  <2>8. g[S] = F[x] + g[R]
    BY <1>1 DEF IsSum
  <2> QED BY <1>2, <2>4, <2>7, <2>8
<1> QED BY <1>1, <1>2, <1>3 DEF IsSum

\* Sums are linear.
Combines(H, a, F, b, G, S) == \A x \in S : H[x] = a * F[x] + b * G[x]

\* What is combined element by element has a sum that is combined.
LEMMA SumLinear ==
    ASSUME NEW S, IsFiniteSet(S), NEW F, Ints(F, S), NEW G, Ints(G, S),
           NEW a \in Int, NEW b \in Int, NEW H, Combines(H, a, F, b, G, S)
    PROVE  Sum(H, S) = a * Sum(F, S) + b * Sum(G, S)
<1> DEFINE Fine(T) == Sum(H, T) = a * Sum(F, T) + b * Sum(G, T)
           Q == {T \in SUBSET S : ~Fine(T)}
<1> SUFFICES ASSUME ~Fine(S) PROVE FALSE
  OBVIOUS
<1>1. Q \in SUBSET SUBSET S /\ Q # {}
  OBVIOUS
<1> HIDE DEF Q
<1>2. PICK T \in Q : \A x \in T : (T \ {x}) \notin Q
  BY <1>1, SmallestSubset
<1>3. T \in SUBSET S /\ ~Fine(T)
  BY DEF Q
<1>4. Ints(F, T) /\ Ints(G, T) /\ IsFiniteSet(T)
  BY <1>3, FS_Subset DEF Ints
<1>5. Ints(H, T)
  BY <1>3 DEF Ints, Combines
<1>6. T # {}
  <2>1. ASSUME T = {} PROVE FALSE
    <3>1. Sum(H, T) = 0 /\ Sum(F, T) = 0 /\ Sum(G, T) = 0
      BY <1>4, <1>5, <2>1, SumLaws
    <3> QED BY <1>3, <3>1
  <2> QED BY <2>1
<1>7. PICK x \in T : TRUE
  BY <1>6
<1> DEFINE R == T \ {x}
<1>8. Fine(R)
  BY <1>2, <1>3 DEF Q
<1>9. Ints(F, R) /\ Ints(G, R) /\ IsFiniteSet(R)
  BY <1>4, FS_Subset DEF Ints
<1>10. Sum(F, R) \in Int /\ Sum(G, R) \in Int
  BY <1>9, SumLaws
<1>11. Sum(F, T) = F[x] + Sum(F, R) /\ Sum(G, T) = G[x] + Sum(G, R)
  BY <1>4, SumLaws
<1>12. Sum(H, T) = H[x] + Sum(H, R)
  BY <1>4, <1>5, SumLaws
<1>13. H[x] = a * F[x] + b * G[x] /\ F[x] \in Int /\ G[x] \in Int
  BY <1>3 DEF Combines, Ints
<1> QED
  <2> DEFINE p == Sum(F, R)
             q == Sum(G, R)
             u == F[x]
             v == G[x]
  <2>1. /\ p \in Int /\ q \in Int /\ u \in Int /\ v \in Int
        /\ ~(a * u + b * v + (a * p + b * q) = a * (u + p) + b * (v + q))
    <3>1. Sum(H, R) = a * p + b * q
      BY <1>8
    <3> QED BY <1>3, <1>10, <1>11, <1>12, <1>13, <3>1
  <2> HIDE DEF p, q, u, v
  <2>2. a * (u + p) = a * u + a * p /\ b * (v + q) = b * v + b * q
    BY <2>1
  <2>3. a * u \in Int /\ a * p \in Int /\ b * v \in Int /\ b * q \in Int
    BY <2>1
  <2> QED BY <2>1, <2>2, <2>3

\* Equal summands, equal sums.
LEMMA SumSame ==
    ASSUME NEW S, IsFiniteSet(S), NEW F, Ints(F, S), NEW H, \A x \in S : H[x] = F[x]
    PROVE  Sum(H, S) = Sum(F, S)
<1>1. Combines(H, 1, F, 0, F, S)
  BY DEF Combines, Ints
<1>2. Sum(F, S) \in Int
  BY SumLaws
<1>3. Sum(H, S) = 1 * Sum(F, S) + 0 * Sum(F, S)
  BY <1>1, SumLinear
<1> QED BY <1>2, <1>3

\* Nothing adds up to nothing.
LEMMA SumZero ==
    ASSUME NEW S, IsFiniteSet(S), NEW F, \A x \in S : F[x] = 0
    PROVE  Sum(F, S) = 0
<1>1. Ints(F, S) /\ Combines(F, 0, F, 0, F, S)
  BY DEF Combines, Ints
<1>2. Sum(F, S) \in Int
  BY <1>1, SumLaws
<1>3. Sum(F, S) = 0 * Sum(F, S) + 0 * Sum(F, S)
  BY <1>1, SumLinear
<1> QED BY <1>2, <1>3

\* What does not count can be left out.
LEMMA SumOfPart ==
    ASSUME NEW S, IsFiniteSet(S), NEW F, Ints(F, S), NEW P \in SUBSET S,
           \A x \in S \ P : F[x] >= 0
    PROVE  /\ Sum(F, P) <= Sum(F, S)
           /\ (\A x \in S \ P : F[x] = 0) => Sum(F, P) = Sum(F, S)
<1> DEFINE zero == \A x \in S \ P : F[x] = 0
           Fine(T) == Sum(F, P) <= Sum(F, T) /\ (zero => Sum(F, P) = Sum(F, T))
           Q == {T \in SUBSET S : P \subseteq T /\ ~Fine(T)}
<1> HIDE DEF zero
<1> SUFFICES ASSUME ~Fine(S) PROVE FALSE
  BY DEF zero
<1>1. Q \in SUBSET SUBSET S /\ Q # {}
  OBVIOUS
<1> HIDE DEF Q
<1>2. PICK T \in Q : \A x \in T : (T \ {x}) \notin Q
  BY <1>1, SmallestSubset
<1>3. T \in SUBSET S /\ P \subseteq T /\ ~Fine(T)
  BY DEF Q
<1>4. Ints(F, T) /\ IsFiniteSet(T) /\ Ints(F, P) /\ IsFiniteSet(P)
  BY <1>3, FS_Subset DEF Ints
<1>5. Sum(F, P) \in Int /\ Sum(F, T) \in Int
  BY <1>4, SumLaws
<1>6. PICK x \in T : x \notin P
  <2>1. ASSUME T = P PROVE FALSE
    BY <1>3, <1>5, <2>1
  <2> QED BY <1>3, <2>1
<1> DEFINE R == T \ {x}
<1>7. Fine(R)
  BY <1>2, <1>3, <1>6 DEF Q
<1>8. Ints(F, R) /\ IsFiniteSet(R)
  BY <1>4, FS_Subset DEF Ints
<1>9. Sum(F, R) \in Int /\ Sum(F, T) = F[x] + Sum(F, R)
  BY <1>4, <1>8, SumLaws
<1>10. F[x] \in Int /\ F[x] >= 0 /\ (zero => F[x] = 0)
  BY <1>3, <1>6 DEF Ints, zero
<1> HIDE DEF R
<1> QED BY <1>3, <1>5, <1>7, <1>9, <1>10

\* Larger summands, a larger sum.
LEMMA SumMonotone ==
    ASSUME NEW S, IsFiniteSet(S), NEW F, Ints(F, S), NEW G, Ints(G, S),
           \A x \in S : F[x] <= G[x]
    PROVE  Sum(F, S) <= Sum(G, S)
<1> DEFINE D == [x \in S |-> G[x] - F[x]]
<1>1. Combines(D, 1, G, -1, F, S) /\ Ints(D, S) /\ \A x \in S : D[x] >= 0
  BY DEF Combines, Ints
<1> HIDE DEF D
<1>2. Sum(D, S) = 1 * Sum(G, S) + (-1) * Sum(F, S)
  BY <1>1, SumLinear
<1>3. Sum(F, S) \in Int /\ Sum(G, S) \in Int
  BY SumLaws
<1>4. Sum(D, {}) <= Sum(D, S)
  BY <1>1, SumOfPart
<1>5. Sum(D, {}) = 0
  BY SumZero, FS_EmptySet
<1> QED BY <1>2, <1>3, <1>4, <1>5

\* A table adds up to the same by rows and by columns.
IntTable(M, S, T) == \A x \in S, y \in T : M[x][y] \in Int

RowSums(M, S, T) == Sum([x \in S |-> Sum(M[x], T)], S)
ColumnSums(M, S, T) == Sum([y \in T |-> Sum([x \in S |-> M[x][y]], S)], T)

\* Rows first or columns first.
LEMMA SumSwap ==
    ASSUME NEW S, IsFiniteSet(S), NEW T, IsFiniteSet(T), NEW M, IntTable(M, S, T)
    PROVE  RowSums(M, S, T) = ColumnSums(M, S, T)
<1> DEFINE Fine(U) == RowSums(M, U, T) = ColumnSums(M, U, T)
           Q == {U \in SUBSET S : ~Fine(U)}
<1> SUFFICES ASSUME ~Fine(S) PROVE FALSE
  OBVIOUS
<1>1. Q \in SUBSET SUBSET S /\ Q # {}
  OBVIOUS
<1> HIDE DEF Q
<1>2. PICK U \in Q : \A x \in U : (U \ {x}) \notin Q
  BY <1>1, SmallestSubset
<1>3. U \in SUBSET S /\ ~Fine(U)
  BY DEF Q
<1>4. \A x \in U : Ints(M[x], T) /\ Sum(M[x], T) \in Int
  <2>1. \A x \in U : Ints(M[x], T)
    BY <1>3 DEF Ints, IntTable
  <2> QED BY <2>1, SumLaws
<1> DEFINE row(V) == [x \in V |-> Sum(M[x], T)]
           column(V, y) == [x \in V |-> M[x][y]]
           columns(V) == [y \in T |-> Sum(column(V, y), V)]
<1>5. \A V \in SUBSET U : IsFiniteSet(V) /\ Ints(row(V), V) /\ \A y \in T : Ints(column(V, y), V)
  <2> SUFFICES ASSUME NEW V \in SUBSET U
               PROVE  IsFiniteSet(V) /\ Ints(row(V), V) /\ \A y \in T : Ints(column(V, y), V)
    OBVIOUS
  <2>1. IsFiniteSet(V)
    BY <1>3, FS_Subset
  <2>2. Ints(row(V), V)
    BY <1>4 DEF Ints
  <2>3. \A y \in T : Ints(column(V, y), V)
    BY <1>3 DEF Ints, IntTable
  <2> QED BY <2>1, <2>2, <2>3
<1>6. \A V \in SUBSET U : \A y \in T : Sum(column(V, y), V) \in Int
  <2> HIDE DEF column
  <2> QED BY <1>5, SumLaws
<1>7. \A V \in SUBSET U : Ints(columns(V), T)
  <2> HIDE DEF column
  <2> QED BY <1>6 DEF Ints
<1>8. \A V : RowSums(M, V, T) = Sum(row(V), V) /\ ColumnSums(M, V, T) = Sum(columns(V), T)
  BY DEF RowSums, ColumnSums
<1>9. U # {}
  <2>1. ASSUME U = {} PROVE FALSE
    <3>1. \A y \in T : columns(U)[y] = 0
      <4> SUFFICES ASSUME NEW y \in T PROVE Sum(column(U, y), U) = 0
        OBVIOUS
      <4> HIDE DEF column
      <4> QED BY <1>5, <2>1, SumLaws
    <3> HIDE DEF columns, row
    <3>2. Sum(columns(U), T) = 0
      BY <3>1, SumZero
    <3>3. Sum(row(U), U) = 0
      BY <1>5, <2>1, SumLaws
    <3> QED BY <1>3, <1>8, <3>2, <3>3
  <2> QED BY <2>1
<1>10. PICK x \in U : TRUE
  BY <1>9
<1> DEFINE R == U \ {x}
<1>11. Fine(R)
  BY <1>2, <1>3 DEF Q
<1>12. Sum(row(U), U) = Sum(M[x], T) + Sum(row(R), R)
  <2>1. Sum(row(U), U) = row(U)[x] + Sum(row(U), R)
    <3> HIDE DEF row
    <3> QED BY <1>5, SumLaws
  <2>2. \A z \in R : row(U)[z] = row(R)[z]
    OBVIOUS
  <2>3. row(U)[x] = Sum(M[x], T)
    OBVIOUS
  <2> HIDE DEF row
  <2>4. Sum(row(U), R) = Sum(row(R), R)
    BY <1>5, <2>2, SumSame
  <2> QED BY <2>1, <2>3, <2>4
<1>13. \A y \in T : columns(U)[y] = M[x][y] + columns(R)[y]
  <2> SUFFICES ASSUME NEW y \in T
               PROVE  Sum(column(U, y), U) = M[x][y] + Sum(column(R, y), R)
    OBVIOUS
  <2>1. \A z \in R : column(U, y)[z] = column(R, y)[z]
    OBVIOUS
  <2>2. column(U, y)[x] = M[x][y]
    OBVIOUS
  <2> HIDE DEF column
  <2>3. Sum(column(U, y), U) = column(U, y)[x] + Sum(column(U, y), R)
    BY <1>5, SumLaws
  <2>4. Sum(column(U, y), R) = Sum(column(R, y), R)
    BY <1>5, <2>1, SumSame
  <2> QED BY <2>2, <2>3, <2>4
<1>14. Combines(columns(U), 1, M[x], 1, columns(R), T)
  <2>1. \A y \in T : M[x][y] \in Int /\ columns(R)[y] \in Int
    <3>1. Ints(M[x], T) /\ Ints(columns(R), T)
      BY <1>4, <1>7
    <3> HIDE DEF columns
    <3> QED BY <3>1 DEF Ints
  <2> DEFINE C == columns(U)
             E == columns(R)
  <2>2. \A y \in T : C[y] = M[x][y] + E[y] /\ M[x][y] \in Int /\ E[y] \in Int
    BY <1>13, <2>1
  <2> HIDE DEF C, E
  <2>3. Combines(C, 1, M[x], 1, E, T)
    BY <2>2 DEF Combines
  <2> QED BY <2>3 DEF C, E
<1> HIDE DEF columns, row, column
<1>15. Sum(columns(U), T) = 1 * Sum(M[x], T) + 1 * Sum(columns(R), T)
  BY <1>4, <1>7, <1>14, SumLinear
<1>16. Sum(M[x], T) \in Int /\ Sum(columns(R), T) \in Int
  BY <1>4, <1>7, SumLaws
<1> QED BY <1>3, <1>8, <1>11, <1>12, <1>15, <1>16

-------------------------------------------------------------------------------
\* A row against a vector: what the equation of the row leaves over.
Product(u, x, C) == [c \in C |-> u[c] * x[c]]
Dot(u, x, C)     == Sum(Product(u, x, C), C)

\* The product of a row of integers and a vector of integers is one.
LEMMA DotTyped ==
    ASSUME NEW C, IsFiniteSet(C), NEW u \in [C -> Int], NEW x \in [C -> Int]
    PROVE  Ints(Product(u, x, C), C) /\ Dot(u, x, C) \in Int
<1>1. Ints(Product(u, x, C), C)
  BY DEF Ints, Product
<1> QED BY <1>1, SumLaws DEF Dot

\* Distributivity, at the depth the sums need it.
LEMMA Distributes ==
    ASSUME NEW a \in Int, NEW b \in Int, NEW u \in Int, NEW v \in Int, NEW x \in Int
    PROVE  (a * u + b * v) * x = a * (u * x) + b * (v * x)
<1>1. a * u \in Int /\ b * v \in Int
  OBVIOUS
<1>2. (a * u + b * v) * x = (a * u) * x + (b * v) * x
  BY <1>1
<1>3. (a * u) * x = a * (u * x) /\ (b * v) * x = b * (v * x)
  OBVIOUS
<1> QED BY <1>2, <1>3

\* The product is linear in the row.
LEMMA DotCombined ==
    ASSUME NEW C, IsFiniteSet(C), NEW u \in [C -> Int], NEW v \in [C -> Int],
           NEW x \in [C -> Int], NEW a \in Int, NEW b \in Int, NEW w,
           Combines(w, a, u, b, v, C)
    PROVE  Dot(w, x, C) = a * Dot(u, x, C) + b * Dot(v, x, C)
<1> DEFINE pu == Product(u, x, C)
           pv == Product(v, x, C)
           pw == Product(w, x, C)
<1>1. Ints(pu, C) /\ Ints(pv, C)
  BY DotTyped
<1>2. ASSUME NEW c \in C PROVE pw[c] = a * pu[c] + b * pv[c]
  <2>1. w[c] = a * u[c] + b * v[c] /\ u[c] \in Int /\ v[c] \in Int /\ x[c] \in Int
    BY DEF Combines
  <2>2. (a * u[c] + b * v[c]) * x[c] = a * (u[c] * x[c]) + b * (v[c] * x[c])
    BY <2>1, Distributes
  <2>3. pw[c] = w[c] * x[c] /\ pu[c] = u[c] * x[c] /\ pv[c] = v[c] * x[c]
    BY DEF Product
  <2> QED BY <2>1, <2>2, <2>3
<1> HIDE DEF pu, pv, pw
<1>3. Combines(pw, a, pu, b, pv, C)
  BY <1>2 DEF Combines
<1>4. Sum(pw, C) = a * Sum(pu, C) + b * Sum(pv, C)
  BY <1>1, <1>3, SumLinear
<1> QED BY <1>4 DEF Dot, pu, pv, pw

\* A product of which only two columns count.
LEMMA DotTwo ==
    ASSUME NEW C, IsFiniteSet(C), NEW u \in [C -> Int], NEW x \in [C -> Int],
           NEW p \in C, NEW q \in C, p # q,
           \A c \in C \ {p, q} : u[c] = 0 \/ x[c] = 0
    PROVE  Dot(u, x, C) = u[p] * x[p] + u[q] * x[q]
<1> DEFINE f == Product(u, x, C)
           D == C \ {p}
           E == D \ {q}
<1>1. Ints(f, C) /\ IsFiniteSet(D) /\ IsFiniteSet(E) /\ Ints(f, D)
  BY DotTyped, OneLess DEF Ints
<1>2. \A c \in E : f[c] = 0
  BY DEF Product
<1>3. f[p] = u[p] * x[p] /\ f[q] = u[q] * x[q] /\ f[p] \in Int /\ f[q] \in Int
  BY DEF Product
<1>4. q \in D
  OBVIOUS
<1> HIDE DEF f, D, E
<1>5. Sum(f, E) = 0
  BY <1>1, <1>2, SumZero
<1>6. Sum(f, C) = f[p] + Sum(f, C \ {p})
  BY <1>1, SumLaws
<1>7. Sum(f, D) = f[q] + Sum(f, D \ {q})
  BY <1>1, <1>4, SumLaws
<1> QED BY <1>3, <1>5, <1>6, <1>7 DEF D, E, Dot, f

-------------------------------------------------------------------------------
(***************************************************************************)
(* The elimination.                                                        *)
(***************************************************************************)

\* The columns in done are solved: only the row of a column has an entry there, den.
System(sys, done, S, R) ==
    /\ sys = [den |-> sys.den, solved |-> sys.solved, left |-> sys.left]
    /\ sys.den \in Int \ {0}
    /\ done \subseteq S /\ sys.solved \in [done -> [{0} \cup S -> Int]]
    /\ \A t \in done, u \in done : sys.solved[t][u] = IF t = u THEN sys.den ELSE 0
    /\ DOMAIN sys.left \subseteq R /\ sys.left \in [DOMAIN sys.left -> [{0} \cup S -> Int]]
    /\ \A i \in DOMAIN sys.left, u \in done : sys.left[i][u] = 0
    /\ Cardinality(DOMAIN sys.left) + Cardinality(done) = Cardinality(R)

\* x solves every equation; x[0] is what the right-hand sides are multiplied with.
Solves(x, sys, C) ==
    /\ \A t \in DOMAIN sys.solved : Dot(sys.solved[t], x, C) = 0
    /\ \A i \in DOMAIN sys.left : Dot(sys.left[i], x, C) = 0

\* Integers have no zero divisors.
LEMMA NoZeroDivisor ==
    ASSUME NEW a \in Int \ {0}, NEW b \in Int, a * b = 0
    PROVE  b = 0
BY Z3

\* To clear a column by a row that is satisfied changes no solution.
LEMMA ClearedDot ==
    ASSUME NEW C, IsFiniteSet(C), NEW u \in [C -> Int], NEW v \in [C -> Int],
           NEW x \in [C -> Int], NEW s \in C, v[s] # 0
    PROVE  /\ Cleared(u, v, s) \in [C -> Int]
           /\ Cleared(u, v, s)[s] = 0
           /\ \A t \in C : v[t] = 0 => Cleared(u, v, s)[t] = v[s] * u[t]
           /\ Dot(v, x, C) = 0 => (Dot(Cleared(u, v, s), x, C) = 0 <=> Dot(u, x, C) = 0)
<1> DEFINE w == Cleared(u, v, s)
<1>1. w \in [C -> Int] /\ Combines(w, v[s], u, -u[s], v, C)
  <2>1. \A t \in C : v[s] * u[t] - u[s] * v[t] = v[s] * u[t] + (-u[s]) * v[t]
    OBVIOUS
  <2> QED BY <2>1 DEF Cleared, Combines
<1>2. w[s] = v[s] * u[s] - u[s] * v[s] /\ \A t \in C : w[t] = v[s] * u[t] - u[s] * v[t]
  BY DEF Cleared
<1>3. w[s] = 0 /\ \A t \in C : v[t] = 0 => w[t] = v[s] * u[t]
  <2>1. v[s] * u[s] = u[s] * v[s] /\ v[s] * u[s] \in Int
    OBVIOUS
  <2>2. ASSUME NEW t \in C, v[t] = 0 PROVE w[t] = v[s] * u[t]
    <3>1. u[s] * v[t] = 0 /\ v[s] * u[t] \in Int
      BY <2>2
    <3> QED BY <1>2, <3>1
  <2> QED BY <1>2, <2>1, <2>2
<1> HIDE DEF w
<1>4. v[s] \in Int \ {0} /\ -u[s] \in Int
  OBVIOUS
<1>5. Dot(w, x, C) = v[s] * Dot(u, x, C) + (-u[s]) * Dot(v, x, C)
  BY <1>1, <1>4, DotCombined
<1>6. Dot(u, x, C) \in Int
  BY DotTyped
<1>7. ASSUME Dot(v, x, C) = 0 PROVE Dot(w, x, C) = 0 <=> Dot(u, x, C) = 0
  <2>1. (-u[s]) * Dot(v, x, C) = 0
    BY <1>4, <1>7
  <2>2. Dot(w, x, C) = v[s] * Dot(u, x, C)
    BY <1>4, <1>5, <1>6, <2>1
  <2>3. v[s] * Dot(u, x, C) = 0 => Dot(u, x, C) = 0
    BY <1>4, <1>6, NoZeroDivisor
  <2> QED BY <1>4, <1>6, <2>2, <2>3
<1> QED BY <1>1, <1>3, <1>7 DEF w

\* To solve column s by row r keeps the form of the system, and its solutions.
LEMMA EliminateByKeeps ==
    ASSUME NEW S, IsFiniteSet(S), NEW R, IsFiniteSet(R), NEW sys, NEW done,
           System(sys, done, S, R), NEW s \in S \ done, NEW r \in Pivots(sys, s)
    PROVE  LET new == EliminateBy(sys, s, r)
               C   == {0} \cup S
           IN  /\ System(new, done \cup {s}, S, R)
               /\ \A x \in [C -> Int] : Solves(x, new, C) <=> Solves(x, sys, C)
<1> DEFINE new == EliminateBy(sys, s, r)
           C == {0} \cup S
           L == DOMAIN sys.left
           v == sys.left[r]
           p == v[s]
           scaled == [c \in DOMAIN v |-> sys.den * v[c]]
<1>1. IsFiniteSet(C) /\ s \in C
  BY FS_AddElement, FS_EmptySet, FS_Union, FS_Singleton
<1>2. r \in L /\ v \in [C -> Int] /\ p \in Int \ {0} /\ \A u \in done : v[u] = 0
  BY DEF Pivots, System
<1>3. /\ \A t \in done : sys.solved[t] \in [C -> Int]
      /\ \A i \in L : sys.left[i] \in [C -> Int]
      /\ sys.den \in Int \ {0} /\ DOMAIN sys.solved = done /\ L \subseteq R
  BY DEF System
<1>4. /\ new.den = sys.den * p
      /\ DOMAIN new.solved = done \cup {s} /\ DOMAIN new.left = L \ {r}
      /\ new.solved[s] = scaled
      /\ \A t \in done : new.solved[t] = Cleared(sys.solved[t], v, s)
      /\ \A i \in L \ {r} : new.left[i] = Cleared(sys.left[i], v, s)
      /\ new = [den |-> new.den, solved |-> new.solved, left |-> new.left]
      /\ new.solved = [t \in done \cup {s} |-> new.solved[t]]
      /\ new.left = [i \in L \ {r} |-> new.left[i]]
  <2>1. s \notin done
    OBVIOUS
  <2> QED BY <1>3, <2>1 DEF EliminateBy
<1>5. scaled \in [C -> Int] /\ scaled[s] = new.den /\ \A u \in done : scaled[u] = 0
  <2>1. sys.den * p \in Int
    BY <1>2, <1>3
  <2>2. \A u \in done : u \in C
    BY DEF System
  <2>3. DOMAIN v = C /\ \A c \in C : sys.den * v[c] \in Int
    BY <1>2, <1>3
  <2>4. \A u \in done : scaled[u] = 0
    BY <1>2, <1>3, <2>2, <2>3
  <2> QED BY <1>1, <1>4, <2>3, <2>4
<1> HIDE DEF new, C, L, v, p, scaled
<1>6. ASSUME NEW u \in [C -> Int]
      PROVE  /\ Cleared(u, v, s) \in [C -> Int] /\ Cleared(u, v, s)[s] = 0
             /\ \A t \in done : Cleared(u, v, s)[t] = p * u[t]
  <2>1. Cleared(u, v, s) \in [C -> Int] /\ Cleared(u, v, s)[s] = 0
    BY <1>1, <1>2, ClearedDot DEF p
  <2>2. \A t \in C : v[t] = 0 => Cleared(u, v, s)[t] = p * u[t]
    BY <1>1, <1>2, ClearedDot DEF p
  <2>3. \A t \in done : t \in C
    BY DEF System, C
  <2> QED BY <1>2, <2>1, <2>2, <2>3
<1>7. System(new, done \cup {s}, S, R)
  <2>1. new.den \in Int \ {0}
    <3>1. sys.den * p \in Int /\ sys.den * p # 0
      BY <1>2, <1>3, NoZeroDivisor
    <3> QED BY <1>4, <3>1
  <2>2. done \cup {s} \subseteq S
    BY DEF System
  <2>3. \A t \in done \cup {s} : new.solved[t] \in [C -> Int]
    BY <1>3, <1>4, <1>5, <1>6
  <2>4. new.solved \in [done \cup {s} -> [C -> Int]]
    BY <1>4, <2>3
  <2>5. ASSUME NEW t \in done \cup {s}, NEW u \in done \cup {s}
        PROVE  new.solved[t][u] = IF t = u THEN new.den ELSE 0
    <3>1. CASE t = s
      BY <1>4, <1>5, <3>1
    <3>2. CASE t # s
      <4>1. t \in done /\ new.solved[t] = Cleared(sys.solved[t], v, s)
            /\ sys.solved[t] \in [C -> Int]
        BY <1>3, <1>4, <3>2
      <4>2. CASE u = s
        BY <1>6, <3>2, <4>1, <4>2
      <4>3. CASE u # s
        <5>1. u \in done /\ new.solved[t][u] = p * sys.solved[t][u]
          BY <1>6, <4>1, <4>3
        <5>2. sys.solved[t][u] = IF t = u THEN sys.den ELSE 0
          BY <4>1, <5>1 DEF System
        <5>3. p * sys.den = sys.den * p /\ p * 0 = 0
          BY <1>2, <1>3
        <5> QED BY <1>4, <5>1, <5>2, <5>3
      <4> QED BY <4>2, <4>3
    <3> QED BY <3>1, <3>2
  <2>6. \A i \in L \ {r} : new.left[i] \in [C -> Int]
    BY <1>3, <1>4, <1>6
  <2>7. new.left \in [DOMAIN new.left -> [C -> Int]] /\ DOMAIN new.left \subseteq R
    BY <1>3, <1>4, <2>6
  <2>8. ASSUME NEW i \in DOMAIN new.left, NEW u \in done \cup {s} PROVE new.left[i][u] = 0
    <3>1. i \in L /\ new.left[i] = Cleared(sys.left[i], v, s) /\ sys.left[i] \in [C -> Int]
      BY <1>3, <1>4
    <3>2. CASE u = s
      BY <1>6, <3>1, <3>2
    <3>3. CASE u # s
      <4>1. u \in done /\ new.left[i][u] = p * sys.left[i][u]
        BY <1>6, <3>1, <3>3
      <4>2. sys.left[i][u] = 0
        BY <3>1, <4>1 DEF System, L
      <4> QED BY <1>2, <4>1, <4>2
    <3> QED BY <3>2, <3>3
  <2>9. Cardinality(DOMAIN new.left) + Cardinality(done \cup {s}) = Cardinality(R)
    <3>1. IsFiniteSet(L) /\ IsFiniteSet(done)
      BY <1>3, FS_Subset DEF System
    <3>2. Cardinality(L \ {r}) = Cardinality(L) - 1 /\ Cardinality(L) \in Nat
      BY <1>2, <3>1, OneLess
    <3>3. Cardinality(done \cup {s}) = Cardinality(done) + 1 /\ Cardinality(done) \in Nat
      BY <3>1, FS_AddElement, FS_CardinalityType
    <3>4. Cardinality(L) + Cardinality(done) = Cardinality(R)
      BY DEF System, L
    <3> QED BY <1>4, <3>2, <3>3, <3>4
  <2> QED BY <1>4, <2>1, <2>2, <2>4, <2>5, <2>7, <2>8, <2>9 DEF System, C
<1>8. ASSUME NEW x \in [C -> Int] PROVE Solves(x, new, C) <=> Solves(x, sys, C)
  <2>1. Dot(scaled, x, C) = sys.den * Dot(v, x, C)
    <3>1. \A c \in C : scaled[c] = sys.den * v[c] + 0 * v[c]
      BY <1>2, <1>3 DEF scaled
    <3>2. Combines(scaled, sys.den, v, 0, v, C)
      BY <3>1 DEF Combines
    <3>3. Dot(scaled, x, C) = sys.den * Dot(v, x, C) + 0 * Dot(v, x, C)
      BY <1>1, <1>2, <1>3, <3>2, DotCombined
    <3>4. Dot(v, x, C) \in Int
      BY <1>1, <1>2, DotTyped
    <3> QED BY <1>3, <3>3, <3>4
  <2>2. Dot(scaled, x, C) = 0 <=> Dot(v, x, C) = 0
    <3>1. Dot(v, x, C) \in Int
      BY <1>1, <1>2, DotTyped
    <3> QED BY <1>3, <2>1, <3>1, NoZeroDivisor
  <2>3. ASSUME Dot(v, x, C) = 0, NEW u \in [C -> Int]
        PROVE  Dot(Cleared(u, v, s), x, C) = 0 <=> Dot(u, x, C) = 0
    BY <1>1, <1>2, <2>3, ClearedDot DEF p
  <2>4. Solves(x, new, C) =>
           /\ Dot(v, x, C) = 0
           /\ \A t \in done : Dot(Cleared(sys.solved[t], v, s), x, C) = 0
           /\ \A i \in L \ {r} : Dot(Cleared(sys.left[i], v, s), x, C) = 0
    BY <1>4, <2>2 DEF Solves
  <2>5. Solves(x, sys, C) =>
           /\ Dot(v, x, C) = 0
           /\ \A t \in done : Dot(sys.solved[t], x, C) = 0
           /\ \A i \in L \ {r} : Dot(sys.left[i], x, C) = 0
    BY <1>2, <1>3 DEF Solves, v, L
  <2>6. ASSUME Solves(x, new, C) PROVE Solves(x, sys, C)
    <3>1. \A t \in done : Dot(sys.solved[t], x, C) = 0
      BY <1>3, <2>3, <2>4, <2>6
    <3>2. \A i \in L : Dot(sys.left[i], x, C) = 0
      BY <1>3, <2>3, <2>4, <2>6 DEF v
    <3> QED BY <1>3, <3>1, <3>2 DEF Solves, L
  <2>7. ASSUME Solves(x, sys, C) PROVE Solves(x, new, C)
    <3>1. \A t \in done : Dot(new.solved[t], x, C) = 0
      BY <1>3, <1>4, <2>3, <2>5, <2>7
    <3>2. \A i \in L \ {r} : Dot(new.left[i], x, C) = 0
      BY <1>3, <1>4, <2>3, <2>5, <2>7
    <3>3. Dot(new.solved[s], x, C) = 0
      BY <1>4, <2>2, <2>5, <2>7
    <3> QED BY <1>4, <3>1, <3>2, <3>3 DEF Solves
  <2> QED BY <2>6, <2>7
<1> QED BY <1>7, <1>8 DEF new, C

\* A column without a pivot is a combination of the columns that are solved.
LEMMA StuckIsDependent ==
    ASSUME NEW S, IsFiniteSet(S), NEW R, NEW sys, NEW done, 0 \notin S,
           System(sys, done, S, R), NEW s \in S \ done, Pivots(sys, s) = {}
    PROVE  \E y \in [{0} \cup S -> Int] :
              y[0] = 0 /\ y[s] # 0 /\ Solves(y, sys, {0} \cup S)
<1> DEFINE C == {0} \cup S
           y == [c \in C |-> IF c = s THEN sys.den ELSE IF c \in done THEN -sys.solved[c][s] ELSE 0]
<1>1. IsFiniteSet(C) /\ s \in C /\ 0 \in C /\ s # 0 /\ done \subseteq S
  BY FS_AddElement, FS_EmptySet, FS_Union, FS_Singleton DEF System
<1>2. /\ sys.den \in Int \ {0} /\ DOMAIN sys.solved = done
      /\ \A t \in done : sys.solved[t] \in [C -> Int]
      /\ \A i \in DOMAIN sys.left : sys.left[i] \in [C -> Int]
  BY DEF System
<1>3. y \in [C -> Int] /\ y[0] = 0 /\ y[s] = sys.den /\ y[s] # 0
  BY <1>1, <1>2
<1>4. \A c \in done : y[c] = -sys.solved[c][s]
  BY <1>1
<1>5. \A c \in C : c # s /\ c \notin done => y[c] = 0
  OBVIOUS
<1> HIDE DEF C, y
<1>6. ASSUME NEW t \in done PROVE Dot(sys.solved[t], y, C) = 0
  <2>1. t \in C /\ t # s
    BY <1>1 DEF C
  <2>2. \A c \in C \ {t, s} : sys.solved[t][c] = 0 \/ y[c] = 0
    <3>1. \A c \in done : c # t => sys.solved[t][c] = 0
      BY DEF System
    <3> QED BY <1>5, <3>1
  <2>3. Dot(sys.solved[t], y, C) = sys.solved[t][t] * y[t] + sys.solved[t][s] * y[s]
    BY <1>1, <1>2, <1>3, <2>1, <2>2, DotTwo
  <2>4. sys.solved[t][t] = sys.den /\ y[t] = -sys.solved[t][s] /\ sys.solved[t][s] \in Int
    BY <1>1, <1>2, <1>4 DEF System
  <2>5. sys.den * (-sys.solved[t][s]) + sys.solved[t][s] * sys.den = 0
    BY <1>2, <2>4
  <2> QED BY <1>3, <2>3, <2>4, <2>5
<1>7. ASSUME NEW i \in DOMAIN sys.left PROVE Dot(sys.left[i], y, C) = 0
  <2>1. sys.left[i][s] = 0
    BY DEF Pivots
  <2>2. \A c \in C \ {s, 0} : sys.left[i][c] = 0 \/ y[c] = 0
    <3>1. \A c \in done : sys.left[i][c] = 0
      BY DEF System
    <3> QED BY <1>5, <3>1
  <2>3. Dot(sys.left[i], y, C) = sys.left[i][s] * y[s] + sys.left[i][0] * y[0]
    BY <1>1, <1>2, <1>3, <2>2, DotTwo
  <2>4. sys.left[i][0] \in Int
    BY <1>1, <1>2
  <2> QED BY <1>2, <1>3, <2>1, <2>3, <2>4
<1>8. Solves(y, sys, C)
  BY <1>2, <1>6, <1>7 DEF Solves
<1> QED BY <1>3, <1>8 DEF C

\* When every column is solved, the numerators are the one solution.
LEMMA SolvedIsExact ==
    ASSUME NEW S, IsFiniteSet(S), NEW R, IsFiniteSet(R), NEW sys, 0 \notin S,
           System(sys, S, S, R), Cardinality(S) = Cardinality(R)
    PROVE  LET C == {0} \cup S
               x == [c \in C |-> IF c = 0 THEN -sys.den ELSE sys.solved[c][0]]
           IN  /\ x \in [C -> Int] /\ Solves(x, sys, C)
               /\ \A z \in [C -> Int] : z[0] = 0 /\ Solves(z, sys, C) => \A t \in S : z[t] = 0
<1> DEFINE C == {0} \cup S
           x == [c \in C |-> IF c = 0 THEN -sys.den ELSE sys.solved[c][0]]
<1>1. IsFiniteSet(C) /\ 0 \in C /\ S \subseteq C
  BY FS_AddElement, FS_EmptySet, FS_Union, FS_Singleton
<1>2. DOMAIN sys.left = {}
  <2>1. IsFiniteSet(DOMAIN sys.left) /\ Cardinality(S) \in Nat
    BY FS_Subset, FS_CardinalityType DEF System
  <2>2. Cardinality(DOMAIN sys.left) \in Nat
        /\ Cardinality(DOMAIN sys.left) + Cardinality(S) = Cardinality(S)
    BY <2>1, FS_CardinalityType DEF System
  <2>3. Cardinality(DOMAIN sys.left) = 0
    BY <2>1, <2>2
  <2> QED BY <2>1, <2>3, FS_EmptySet
<1>3. /\ sys.den \in Int \ {0} /\ DOMAIN sys.solved = S
      /\ \A t \in S : sys.solved[t] \in [C -> Int] /\ sys.solved[t][t] = sys.den
      /\ \A t \in S, c \in S : c # t => sys.solved[t][c] = 0
  BY DEF System
<1>4. x \in [C -> Int] /\ x[0] = -sys.den /\ \A t \in S : x[t] = sys.solved[t][0]
  BY <1>1, <1>3
<1> HIDE DEF C, x
<1>5. ASSUME NEW t \in S, NEW z \in [C -> Int]
      PROVE  Dot(sys.solved[t], z, C) = sys.den * z[t] + sys.solved[t][0] * z[0]
  <2>1. t \in C /\ t # 0 /\ \A c \in C \ {t, 0} : sys.solved[t][c] = 0
    BY <1>1, <1>3 DEF C
  <2> QED BY <1>1, <1>3, <2>1, DotTwo
<1>6. Solves(x, sys, C)
  <2>1. ASSUME NEW t \in S PROVE Dot(sys.solved[t], x, C) = 0
    <3>1. sys.solved[t][0] \in Int
      BY <1>1, <1>3
    <3>2. sys.den * sys.solved[t][0] + sys.solved[t][0] * (-sys.den) = 0
      BY <1>3, <3>1
    <3> QED BY <1>4, <1>5, <3>2
  <2> QED BY <1>2, <1>3, <2>1 DEF Solves
<1>7. ASSUME NEW z \in [C -> Int], z[0] = 0, Solves(z, sys, C), NEW t \in S PROVE z[t] = 0
  <2>1. sys.solved[t][0] \in Int /\ z[t] \in Int
    BY <1>1, <1>3
  <2>2. sys.den * z[t] + sys.solved[t][0] * z[0] = 0
    BY <1>3, <1>5, <1>7 DEF Solves
  <2>3. sys.den * z[t] = 0
    BY <1>3, <1>7, <2>1, <2>2
  <2> QED BY <1>3, <2>1, <2>3, NoZeroDivisor
<1> QED BY <1>4, <1>6, <1>7 DEF C, x

-------------------------------------------------------------------------------
(***************************************************************************)
(* The solver.                                                             *)
(***************************************************************************)

FamilyTyped == family \in Families /\ price \in [1..Len(family.states[1]) -> Int]

\* Any tables of numbers will do for what the solver does.
LEMMA NumbersTyped ==
    ASSUME FamilyTyped
    PROVE  /\ Len(family.states) \in Nat \ {0} /\ Len(family.states[1]) \in Nat
           /\ States = 1..Len(family.states) /\ Contracts = 1..Len(family.states[1])
           /\ IsFiniteSet(States) /\ IsFiniteSet(Contracts) /\ IsFiniteSet(Rows)
           /\ 0 \notin States /\ 0 \notin Contracts
           /\ \A s \in States : family.states[s] \in [Contracts -> Int]
           /\ \A r \in Rows : Rhs(r) \in Int /\ \A s \in States : Entry(r, s) \in Int
<1>1. /\ family.states # <<>>
      /\ family.states \in Seq([1..Len(family.states[1]) -> Int])
  BY FamiliesAssumption DEF FamilyTyped
<1>2. Len(family.states) \in Nat \ {0} /\ States = 1..Len(family.states)
  BY <1>1 DEF States
<1>3. 1 \in States /\ \A s \in States : family.states[s] \in [1..Len(family.states[1]) -> Int]
  BY <1>1, <1>2
<1>4. Contracts = 1..Len(family.states[1])
  BY DEF Contracts, FamilyTyped
<1>5. Len(family.states[1]) \in Nat
  <2>1. family.states[1] \in [1..Len(family.states[1]) -> Int]
    BY <1>3
  <2>2. 1..Len(family.states[1]) = DOMAIN family.states[1]
    BY <2>1
  <2> QED BY <1>1, FamiliesAssumption, <2>1 DEF FamilyTyped
<1>6. IsFiniteSet(States) /\ IsFiniteSet(Contracts)
  BY <1>2, <1>4, <1>5, FS_Interval
<1>7. IsFiniteSet(Rows)
  BY <1>6, FS_Singleton, FS_Union DEF Rows
<1>8. ASSUME NEW r \in Rows
      PROVE  Rhs(r) \in Int /\ \A s \in States : Entry(r, s) \in Int
  BY <1>3, <1>4, <1>8, UnitAssumption DEF Rows, Rhs, Entry, FamilyTyped
<1> QED BY <1>2, <1>3, <1>4, <1>5, <1>6, <1>7, <1>8

\* f is the recursion of Solve up to column m.
Column(f, n, S, R) ==
    IF n = 0 THEN Start(S, R) ELSE IF n \in S THEN Eliminate(f[n - 1], n) ELSE f[n - 1]

ColumnsUpTo(f, m, S, R) == f = [n \in 0..m |-> Column(f, n, S, R)]

\* The recursion of Solve has a value.
LEMMA ColumnsExist ==
    ASSUME NEW S, NEW R, NEW m \in Nat
    PROVE  \E f : ColumnsUpTo(f, m, S, R)
<1> DEFINE Bad(n) == ~ \E f : ColumnsUpTo(f, n, S, R)
           B == {n \in Nat : Bad(n)}
<1> SUFFICES ASSUME Bad(m) PROVE FALSE
  OBVIOUS
<1>1. B \in SUBSET Nat /\ m \in B
  OBVIOUS
<1> HIDE DEF B
<1>2. PICK n \in B : \A k \in Nat : k < n => k \notin B
  BY <1>1, LeastCounterexample
<1>3. n \in Nat /\ Bad(n)
  BY DEF B
<1>4. n # 0
  <2>1. ASSUME n = 0 PROVE FALSE
    <3> DEFINE f == [k \in 0..0 |-> Start(S, R)]
    <3>1. \A k \in 0..0 : f[k] = Column(f, k, S, R)
      BY DEF Column
    <3>2. f = [k \in 0..0 |-> f[k]]
      OBVIOUS
    <3> HIDE DEF f
    <3>3. ColumnsUpTo(f, 0, S, R)
      BY <3>1, <3>2 DEF ColumnsUpTo
    <3> QED BY <1>3, <2>1, <3>3
  <2> QED BY <2>1
<1>5. n - 1 \in Nat /\ ~Bad(n - 1)
  BY <1>2, <1>3, <1>4 DEF B
<1>6. PICK g : ColumnsUpTo(g, n - 1, S, R)
  BY <1>5
<1> DEFINE f == [k \in 0..n |-> IF k < n THEN g[k] ELSE IF n \in S THEN Eliminate(g[n - 1], n)
                                                       ELSE g[n - 1]]
<1>7. \A k \in 0..(n - 1) : f[k] = g[k] /\ g[k] = Column(g, k, S, R)
  <2>1. \A k \in 0..(n - 1) : g[k] = Column(g, k, S, R)
    BY <1>6 DEF ColumnsUpTo
  <2>2. \A k \in 0..(n - 1) : k \in 0..n /\ k < n
    BY <1>3
  <2> QED BY <2>1, <2>2
<1>8. f[n] = IF n \in S THEN Eliminate(g[n - 1], n) ELSE g[n - 1]
  BY <1>3
<1>9. f = [k \in 0..n |-> f[k]]
  OBVIOUS
<1> HIDE DEF f
<1>10. ASSUME NEW k \in 0..n PROVE f[k] = Column(f, k, S, R)
  <2>1. CASE k = n
    <3>1. f[n - 1] = g[n - 1]
      BY <1>5, <1>7
    <3> QED BY <1>4, <1>8, <2>1, <3>1 DEF Column
  <2>2. CASE k # n /\ k = 0
    BY <1>3, <1>7, <2>2 DEF Column
  <2>3. CASE k # n /\ k # 0
    <3>1. k \in 0..(n - 1) /\ k - 1 \in 0..(n - 1)
      BY <1>3, <2>3
    <3>2. f[k] = Column(g, k, S, R) /\ f[k - 1] = g[k - 1]
      BY <1>7, <3>1
    <3> QED BY <2>3, <3>2 DEF Column
  <2> QED BY <2>1, <2>2, <2>3
<1>11. ColumnsUpTo(f, n, S, R)
  BY <1>9, <1>10 DEF ColumnsUpTo
<1> QED BY <1>3, <1>11

\* Solve reads the last column.
LEMMA SolveReadsLast ==
    ASSUME FamilyTyped, NEW S, NEW R
    PROVE  \E f : /\ \A n \in 0..Len(family.states) : f[n] = Column(f, n, S, R)
                  /\ Solve(S, R) = [den |-> f[Len(family.states)].den,
                                    num |-> [s \in DOMAIN f[Len(family.states)].solved |->
                                                f[Len(family.states)].solved[s][0]]]
<1> DEFINE m == Len(family.states)
           Eq(f) == f = [n \in 0..m |-> IF n = 0 THEN Start(S, R)
                                        ELSE IF n \in S THEN Eliminate(f[n - 1], n) ELSE f[n - 1]]
           f == CHOOSE f : Eq(f)
<1>1. m \in Nat
  BY NumbersTyped
<1>2. \E g : Eq(g)
  <2>1. PICK g : ColumnsUpTo(g, m, S, R)
    BY <1>1, ColumnsExist
  <2>2. Eq(g)
    BY <2>1, Zenon DEF ColumnsUpTo, Column
  <2> QED BY <2>2
<1>3. Eq(f)
  BY <1>2
<1>4. Solve(S, R) = [den |-> f[m].den, num |-> [s \in DOMAIN f[m].solved |-> f[m].solved[s][0]]]
  BY DEF Solve
<1> HIDE DEF f
<1>5. \A n \in 0..m : f[n] = Column(f, n, S, R)
  BY <1>3 DEF Column
<1> QED BY <1>4, <1>5

\* What an equation leaves over, with weights w over S.
Weighted(w, r, S) == Sum([s \in S |-> w[s] * Entry(r, s)], S)

\* Some combination of the columns of S is nothing on the rows of R.
Dependent(S, R) ==
    \E y \in [S -> Int] : (\E s \in S : y[s] # 0) /\ \A r \in R : Weighted(y, r, S) = 0

\* Integer weights leave over an integer.
LEMMA WeightedTyped ==
    ASSUME FamilyTyped, NEW S \in SUBSET States, NEW r \in Rows, NEW w, Ints(w, S)
    PROVE  /\ IsFiniteSet(S) /\ Ints([s \in S |-> w[s] * Entry(r, s)], S)
           /\ Weighted(w, r, S) \in Int
<1>1. IsFiniteSet(S)
  BY NumbersTyped, FS_Subset
<1> DEFINE f == [s \in S |-> w[s] * Entry(r, s)]
<1>2. Ints(f, S)
  <2>1. ASSUME NEW s \in S PROVE w[s] * Entry(r, s) \in Int
    <3>1. w[s] \in Int /\ Entry(r, s) \in Int
      BY NumbersTyped DEF Ints
    <3> QED BY <3>1
  <2> QED BY <2>1 DEF Ints
<1>3. Weighted(w, r, S) = Sum(f, S)
  BY DEF Weighted
<1> HIDE DEF f
<1>4. Sum(f, S) \in Int
  BY <1>1, <1>2, SumLaws
<1> QED BY <1>1, <1>2, <1>3, <1>4 DEF f

\* The first rows are the equations.
LEMMA StartDot ==
    ASSUME FamilyTyped, NEW S \in SUBSET States, NEW R \in SUBSET Rows, NEW r \in R,
           NEW x \in [{0} \cup S -> Int]
    PROVE  Dot(Start(S, R).left[r], x, {0} \cup S) = Rhs(r) * x[0] + Weighted(x, r, S)
<1> DEFINE C == {0} \cup S
           f == Product(Start(S, R).left[r], x, C)
           g == [s \in S |-> x[s] * Entry(r, s)]
<1>1. IsFiniteSet(S) /\ 0 \notin S /\ IsFiniteSet(C)
  BY NumbersTyped, FS_Subset, FS_Singleton, FS_Union
<1>2. Start(S, R).left[r] = [s \in C |-> IF s = 0 THEN Rhs(r) ELSE Entry(r, s)]
  BY DEF Start
<1>3. Rhs(r) \in Int /\ \A s \in S : Entry(r, s) \in Int
  BY NumbersTyped
<1>4. f[0] = Rhs(r) * x[0] /\ \A s \in S : f[s] = x[s] * Entry(r, s)
  <2>1. \A s \in S : s \in C /\ f[s] = Entry(r, s) * x[s]
    BY <1>1, <1>2 DEF Product
  <2>2. \A s \in S : Entry(r, s) * x[s] = x[s] * Entry(r, s)
    BY <1>3
  <2> QED BY <1>2, <2>1, <2>2 DEF Product
<1>5. Ints(f, C)
  <2>1. \A s \in S : f[s] \in Int
    BY <1>3, <1>4
  <2> HIDE DEF f
  <2> QED BY <1>3, <1>4, <2>1 DEF Ints
<1>6. \A s \in S : f[s] = g[s]
  BY <1>4
<1>7. Ints(g, S) /\ Weighted(x, r, S) = Sum(g, S)
  <2>1. Ints(x, S)
    BY DEF Ints
  <2> QED BY <2>1, WeightedTyped DEF Weighted
<1> HIDE DEF f, g
<1>8. Sum(f, C) = f[0] + Sum(f, C \ {0})
  BY <1>1, <1>5, SumLaws
<1>9. C \ {0} = S
  BY <1>1
<1>10. Sum(f, S) = Sum(g, S)
  BY <1>1, <1>6, <1>7, SumSame
<1> QED BY <1>4, <1>7, <1>8, <1>9, <1>10 DEF Dot, f, C

\* At first no column is solved.
LEMMA StartIsSystem ==
    ASSUME FamilyTyped, NEW S \in SUBSET States, NEW R \in SUBSET Rows
    PROVE  System(Start(S, R), {}, S, R)
<1> DEFINE sys == Start(S, R)
<1>1. /\ sys.den = 1 /\ sys.solved = <<>> /\ DOMAIN sys.left = R
      /\ sys = [den |-> sys.den, solved |-> sys.solved, left |-> sys.left]
      /\ sys.left = [i \in R |-> sys.left[i]]
  BY DEF Start
<1>2. DOMAIN sys.solved = {} /\ sys.solved = [t \in {} |-> sys.solved[t]]
  BY <1>1
<1>3. \A r \in R : sys.left[r] \in [{0} \cup S -> Int]
  BY NumbersTyped DEF Start
<1>4. Cardinality({}) = 0 /\ Cardinality(R) \in Nat
  BY NumbersTyped, FS_EmptySet, FS_Subset, FS_CardinalityType
<1> HIDE DEF sys
<1>5. sys.solved \in [{} -> [{0} \cup S -> Int]]
  BY <1>2
<1>6. sys.left \in [R -> [{0} \cup S -> Int]]
  BY <1>1, <1>3
<1>7. Cardinality(R) + Cardinality({}) = Cardinality(R)
  BY <1>4
<1> DEFINE L == DOMAIN sys.left
<1>8. L = R /\ sys.den \in Int \ {0}
  BY <1>1
<1> HIDE DEF L
<1>9. L \subseteq R /\ sys.left \in [L -> [{0} \cup S -> Int]]
  BY <1>6, <1>8
<1>10. Cardinality(L) + Cardinality({}) = Cardinality(R)
  BY <1>7, <1>8
<1>11. /\ {} \subseteq S
       /\ \A t \in {}, u \in {} : sys.solved[t][u] = IF t = u THEN sys.den ELSE 0
       /\ \A i \in DOMAIN sys.left, u \in {} : sys.left[i][u] = 0
  OBVIOUS
<1>12. System(sys, {}, S, R)
  BY <1>1, <1>5, <1>9, <1>10, <1>11, <1>8, Zenon DEF System, L
<1> QED BY <1>12 DEF sys

\* After n columns, either a combination of columns was found to be nothing, or the
\* columns up to n are solved and the solutions are still the same.
Stuck(sys, S, R) ==
    /\ sys.den = 0
    /\ \E y \in [{0} \cup S -> Int] :
          y[0] = 0 /\ (\E s \in S : y[s] # 0) /\ Solves(y, Start(S, R), {0} \cup S)

Reduced(sys, n, S, R) ==
    /\ System(sys, S \cap 1..n, S, R)
    /\ \A x \in [{0} \cup S -> Int] :
          Solves(x, sys, {0} \cup S) <=> Solves(x, Start(S, R), {0} \cup S)

\* One column more.
LEMMA ColumnStep ==
    ASSUME FamilyTyped, NEW S \in SUBSET States, NEW R \in SUBSET Rows, NEW n \in Nat \ {0},
           NEW f, Stuck(f[n - 1], S, R) \/ Reduced(f[n - 1], n - 1, S, R)
    PROVE  Stuck(Column(f, n, S, R), S, R) \/ Reduced(Column(f, n, S, R), n, S, R)
<1> DEFINE old == f[n - 1]
           C   == {0} \cup S
<1>1. IsFiniteSet(S) /\ IsFiniteSet(R) /\ 0 \notin S
  BY NumbersTyped, FS_Subset
<1>2. CASE n \notin S
  <2>1. S \cap 1..n = S \cap 1..(n - 1)
    BY <1>2
  <2>2. Column(f, n, S, R) = old
    BY <1>2 DEF Column
  <2> QED BY <2>1, <2>2 DEF Reduced
<1>3. CASE n \in S /\ Stuck(old, S, R)
  <2>1. Column(f, n, S, R) = [old EXCEPT !.den = 0]
    BY <1>3 DEF Column, Eliminate, Stuck
  <2>2. [old EXCEPT !.den = 0].den = 0
    BY <1>3 DEF Stuck
  <2> QED BY <1>3, <2>1, <2>2 DEF Stuck
<1>4. CASE n \in S /\ ~Stuck(old, S, R) /\ Pivots(old, n) = {}
  <2>1. Reduced(old, n - 1, S, R) /\ n \in S \ (S \cap 1..(n - 1))
    BY <1>4
  <2>2. Column(f, n, S, R) = [old EXCEPT !.den = 0]
    BY <1>4 DEF Column, Eliminate
  <2>3. old = [den |-> old.den, solved |-> old.solved, left |-> old.left]
    BY <2>1 DEF Reduced, System
  <2> DEFINE new == [old EXCEPT !.den = 0]
  <2>4. new.den = 0
    BY <2>3
  <2> DEFINE done == S \cap 1..(n - 1)
  <2>8. System(old, done, S, R) /\ Pivots(old, n) = {} /\ n \in S \ done
    BY <1>4, <2>1 DEF Reduced
  <2> HIDE DEF old, new, done
  <2>5. PICK y \in [C -> Int] : y[0] = 0 /\ y[n] # 0 /\ Solves(y, old, C)
    BY <1>1, <2>8, StuckIsDependent
  <2>6. Solves(y, Start(S, R), C)
    BY <2>1, <2>5 DEF Reduced
  <2>7. Stuck(new, S, R)
    BY <1>4, <2>4, <2>5, <2>6 DEF Stuck
  <2> QED BY <2>2, <2>7 DEF new
<1>5. CASE n \in S /\ ~Stuck(old, S, R) /\ Pivots(old, n) # {}
  <2> DEFINE r == CHOOSE r \in Pivots(old, n) : TRUE
             done == S \cap 1..(n - 1)
             new == EliminateBy(old, n, r)
  <2>1. Reduced(old, n - 1, S, R) /\ n \in S \ done /\ r \in Pivots(old, n)
    BY <1>5
  <2>2. old.den # 0
    BY <2>1 DEF Reduced, System
  <2>3. Column(f, n, S, R) = new
    BY <1>5, <2>2 DEF Column, Eliminate
  <2>4. S \cap 1..n = done \cup {n}
    BY <1>5
  <2>5. System(old, done, S, R)
    BY <2>1 DEF Reduced
  <2> HIDE DEF r, old, done
  <2>6. System(new, done \cup {n}, S, R)
        /\ \A x \in [C -> Int] : Solves(x, new, C) <=> Solves(x, old, C)
    BY <1>1, <2>1, <2>5, EliminateByKeeps
  <2>7. \A x \in [C -> Int] : Solves(x, old, C) <=> Solves(x, Start(S, R), C)
    BY <2>1 DEF Reduced
  <2> HIDE DEF new
  <2>8. Reduced(new, n, S, R)
    BY <2>4, <2>6, <2>7 DEF Reduced
  <2> QED BY <2>3, <2>8
<1> QED BY <1>2, <1>3, <1>4, <1>5

\* So Solve ends stuck or with every column solved.
LEMMA SolveStages ==
    ASSUME FamilyTyped, NEW S \in SUBSET States, NEW R \in SUBSET Rows
    PROVE  \E sys : /\ Stuck(sys, S, R) \/ Reduced(sys, Len(family.states), S, R)
                    /\ Solve(S, R) = [den |-> sys.den,
                                      num |-> [s \in DOMAIN sys.solved |-> sys.solved[s][0]]]
<1> DEFINE m == Len(family.states)
<1>1. m \in Nat
  BY NumbersTyped
<1>2. PICK f : /\ \A n \in 0..m : f[n] = Column(f, n, S, R)
               /\ Solve(S, R) = [den |-> f[m].den,
                                 num |-> [s \in DOMAIN f[m].solved |-> f[m].solved[s][0]]]
  BY SolveReadsLast
<1> HIDE DEF m
<1> DEFINE Fine(n) == Stuck(f[n], S, R) \/ Reduced(f[n], n, S, R)
           B == {n \in 0..m : ~Fine(n)}
<1>3. ASSUME ~Fine(m) PROVE FALSE
  <2>1. B \in SUBSET Nat /\ m \in B
    BY <1>1, <1>3
  <2> HIDE DEF B
  <2>2. PICK n \in B : \A k \in Nat : k < n => k \notin B
    BY <2>1, LeastCounterexample
  <2>3. n \in 0..m /\ ~Fine(n)
    BY DEF B
  <2>4. CASE n = 0
    <3>1. f[0] = Start(S, R)
      BY <1>1, <1>2 DEF Column
    <3>2. S \cap 1..0 = {}
      OBVIOUS
    <3>3. System(f[0], S \cap 1..0, S, R)
      BY <3>1, <3>2, StartIsSystem
    <3>4. Reduced(f[0], 0, S, R)
      BY <3>1, <3>3 DEF Reduced
    <3> QED BY <2>3, <2>4, <3>4
  <2>5. CASE n # 0
    <3>1. n \in Nat \ {0} /\ n - 1 \in 0..m /\ n - 1 \in Nat /\ n - 1 < n
      BY <1>1, <2>3, <2>5
    <3>2. Fine(n - 1)
      BY <2>2, <3>1 DEF B
    <3>3. Stuck(Column(f, n, S, R), S, R) \/ Reduced(Column(f, n, S, R), n, S, R)
      BY <3>1, <3>2, ColumnStep
    <3> QED BY <1>2, <2>3, <3>3
  <2> QED BY <2>4, <2>5
<1> QED BY <1>2, <1>3 DEF m

\* An equation without a right-hand side.
LEMMA HomogeneousDot ==
    ASSUME FamilyTyped, NEW S \in SUBSET States, NEW R \in SUBSET Rows,
           NEW x \in [{0} \cup S -> Int]
    PROVE  /\ Solves(x, Start(S, R), {0} \cup S)
                 <=> \A r \in R : Rhs(r) * x[0] + Weighted(x, r, S) = 0
           /\ x[0] = 0 => (Solves(x, Start(S, R), {0} \cup S)
                              <=> \A r \in R : Weighted(x, r, S) = 0)
<1>1. /\ DOMAIN Start(S, R).solved = {} /\ DOMAIN Start(S, R).left = R
  BY DEF Start
<1>2. Solves(x, Start(S, R), {0} \cup S)
         <=> \A r \in R : Dot(Start(S, R).left[r], x, {0} \cup S) = 0
  BY <1>1 DEF Solves
<1>3. \A r \in R : Dot(Start(S, R).left[r], x, {0} \cup S) = Rhs(r) * x[0] + Weighted(x, r, S)
  BY StartDot
<1>4. ASSUME x[0] = 0, NEW r \in R
      PROVE  Rhs(r) * x[0] + Weighted(x, r, S) = Weighted(x, r, S)
  <2>1. Rhs(r) \in Int /\ r \in Rows
    BY NumbersTyped
  <2>2. Ints(x, S)
    BY DEF Ints
  <2>3. Weighted(x, r, S) \in Int
    BY <2>1, <2>2, WeightedTyped
  <2>4. Rhs(r) * x[0] = 0
    BY <1>4, <2>1
  <2> QED BY <2>3, <2>4
<1> QED BY <1>2, <1>3, <1>4

\* Equal weights leave over the same.
LEMMA WeightedSame ==
    ASSUME NEW S, NEW r, NEW v, NEW w, \A s \in S : v[s] = w[s]
    PROVE  Weighted(v, r, S) = Weighted(w, r, S)
<1>1. [s \in S |-> v[s] * Entry(r, s)] = [s \in S |-> w[s] * Entry(r, s)]
  OBVIOUS
<1> QED BY <1>1 DEF Weighted

\* The system is given up for a combination of its columns that is nothing.
LEMMA GivenUpIsDependent ==
    ASSUME FamilyTyped, NEW S \in SUBSET States, NEW R \in SUBSET Rows, NEW sys,
           Stuck(sys, S, R)
    PROVE  Dependent(S, R)
<1> DEFINE C == {0} \cup S
<1>1. PICK y \in [C -> Int] : /\ y[0] = 0 /\ \E s \in S : y[s] # 0
                              /\ Solves(y, Start(S, R), C)
  BY DEF Stuck
<1>2. \A r \in R : Weighted(y, r, S) = 0
  BY <1>1, HomogeneousDot
<1> DEFINE z == [s \in S |-> y[s]]
<1>3. z \in [S -> Int] /\ (\E s \in S : z[s] # 0) /\ \A s \in S : z[s] = y[s]
  BY <1>1
<1> HIDE DEF z
<1>4. \A r \in R : Weighted(z, r, S) = 0
  BY <1>2, <1>3, WeightedSame
<1> QED BY <1>3, <1>4 DEF Dependent

\* _solve_square gives the one solution of the square system, and gives up only if its
\* columns depend on each other.
THEOREM SolveIsExact ==
    ASSUME FamilyTyped, NEW S \in SUBSET States, NEW R \in SUBSET Rows,
           Cardinality(S) = Cardinality(R)
    PROVE  /\ Solve(S, R).den = 0 => Dependent(S, R)
           /\ Solve(S, R).den # 0 =>
                 /\ Solve(S, R).den \in Int /\ Solve(S, R).num \in [S -> Int]
                 /\ \A r \in R : Weighted(Solve(S, R).num, r, S) = Rhs(r) * Solve(S, R).den
                 /\ ~Dependent(S, R)
<1> DEFINE C == {0} \cup S
           m == Len(family.states)
<1>1. IsFiniteSet(S) /\ IsFiniteSet(R) /\ 0 \notin S /\ S \cap 1..m = S
  BY NumbersTyped, FS_Subset
<1>2. PICK sys : /\ Stuck(sys, S, R) \/ Reduced(sys, m, S, R)
                 /\ Solve(S, R) = [den |-> sys.den,
                                   num |-> [s \in DOMAIN sys.solved |-> sys.solved[s][0]]]
  BY SolveStages
<1>3. Solve(S, R).den = sys.den
      /\ Solve(S, R).num = [s \in DOMAIN sys.solved |-> sys.solved[s][0]]
  BY <1>2
<1>4. CASE Stuck(sys, S, R)
  BY <1>3, <1>4, GivenUpIsDependent DEF Stuck
<1>5. CASE Reduced(sys, m, S, R)
  <2>1. /\ System(sys, S, S, R)
        /\ \A x \in [C -> Int] : Solves(x, sys, C) <=> Solves(x, Start(S, R), C)
    BY <1>1, <1>5 DEF Reduced
  <2>2. /\ sys.den \in Int \ {0} /\ DOMAIN sys.solved = S
        /\ \A s \in S : sys.solved[s][0] \in Int
    BY <2>1 DEF System
  <2> DEFINE x == [c \in C |-> IF c = 0 THEN -sys.den ELSE sys.solved[c][0]]
             num == [s \in S |-> sys.solved[s][0]]
  <2>3. /\ x \in [C -> Int] /\ Solves(x, sys, C)
        /\ \A z \in [C -> Int] : z[0] = 0 /\ Solves(z, sys, C) => \A t \in S : z[t] = 0
    BY <1>1, <2>1, SolvedIsExact
  <2>4. x[0] = -sys.den /\ \A s \in S : num[s] = x[s]
    BY <1>1
  <2>5. num \in [S -> Int]
    BY <2>2
  <2> HIDE DEF x, num, C
  <2>6. ASSUME NEW r \in R PROVE Weighted(num, r, S) = Rhs(r) * sys.den
    <3>1. Rhs(r) * x[0] + Weighted(x, r, S) = 0
      BY <2>1, <2>3, HomogeneousDot DEF C
    <3>2. Weighted(num, r, S) = Weighted(x, r, S)
      BY <2>4, WeightedSame
    <3>3. Ints(num, S) /\ r \in Rows
      BY <2>5 DEF Ints
    <3>4. Weighted(num, r, S) \in Int /\ Rhs(r) \in Int
      BY <3>3, WeightedTyped, NumbersTyped
    <3> DEFINE b == Rhs(r)
               w == Weighted(num, r, S)
    <3>5. b \in Int /\ w \in Int /\ b * (-sys.den) + w = 0
      BY <2>4, <3>1, <3>2, <3>4
    <3> HIDE DEF b, w
    <3>6. b * (-sys.den) = -(b * sys.den) /\ b * sys.den \in Int
      BY <2>2, <3>5
    <3>7. w = b * sys.den
      BY <3>5, <3>6
    <3> QED BY <3>7 DEF b, w
  <2>7. ASSUME Dependent(S, R) PROVE FALSE
    <3>1. PICK y \in [S -> Int] : /\ \E s \in S : y[s] # 0
                                  /\ \A r \in R : Weighted(y, r, S) = 0
      BY <2>7 DEF Dependent
    <3> DEFINE z == [c \in C |-> IF c = 0 THEN 0 ELSE y[c]]
    <3>2. z \in [C -> Int] /\ z[0] = 0 /\ \A s \in S : z[s] = y[s]
      BY <1>1 DEF C
    <3> HIDE DEF z
    <3>3. \A r \in R : Weighted(z, r, S) = 0
      BY <3>1, <3>2, WeightedSame
    <3>4. Solves(z, Start(S, R), C)
      BY <3>2, <3>3, HomogeneousDot DEF C
    <3>5. Solves(z, sys, C)
      BY <2>1, <3>2, <3>4
    <3>6. \A t \in S : z[t] = 0
      BY <2>3, <3>2, <3>5
    <3> QED BY <3>1, <3>2, <3>6
  <2>8. Solve(S, R).num = num
    BY <1>3, <2>2 DEF num
  <2> QED BY <1>3, <2>2, <2>5, <2>6, <2>7, <2>8
<1> QED BY <1>2, <1>4, <1>5

-------------------------------------------------------------------------------
(***************************************************************************)
(* Feasible prices allow no arbitrage.                                     *)
(***************************************************************************)

\* y over d are weights of the states of S that mix to the prices, up to the tolerance.
Mixes(y, d, S) ==
    /\ S \in SUBSET States /\ y \in [S -> Int] /\ d \in Nat \ {0}
    /\ \A s \in S : y[s] >= -(Tolerance * d)
    /\ \A r \in Rows : /\ Weighted(y, r, S) - Rhs(r) * d <= Tolerance * d
                       /\ Rhs(r) * d - Weighted(y, r, S) <= Tolerance * d

\* A bound on the size is one on both sides.
LEMMA SizeBounds ==
    ASSUME NEW n \in Int, NEW b \in Int, NEW tie, AtMost(Size(n), b, tie)
    PROVE  n <= b /\ -n <= b
BY DEF AtMost, Size

\* A subsystem that fits mixes its states to the prices, with a positive denominator.
LEMMA FitsMixes ==
    ASSUME FamilyTyped, NEW S \in SUBSET States, NEW R \in SUBSET Rows,
           Cardinality(S) = Cardinality(R), NEW tie, Fits(S, R, tie)
    PROVE  \E y, d : Mixes(y, d, S)
<1> DEFINE x == Solve(S, R)
           e == x.den
           w == x.num
           bound == Tolerance * Size(e)
<1>1. e # 0 /\ SmallResidual(x, S, tie) /\ NoNegativeWeight(x, S, tie)
  BY DEF Fits
<1>2. e \in Int /\ w \in [S -> Int]
  BY <1>1, SolveIsExact
<1>3. Tolerance \in Nat /\ bound \in Int
  BY <1>2, UnitAssumption DEF Size
<1>4. ASSUME NEW r \in Rows
      PROVE  /\ Weighted(w, r, S) \in Int /\ Rhs(r) * e \in Int
             /\ Weighted(w, r, S) - Rhs(r) * e <= bound
             /\ -(Weighted(w, r, S) - Rhs(r) * e) <= bound
  <2>1. Ints(w, S)
    BY <1>2 DEF Ints
  <2>2. Weighted(w, r, S) \in Int /\ Rhs(r) \in Int
    BY <2>1, WeightedTyped, NumbersTyped
  <2>3. Rhs(r) * e \in Int
    BY <1>2, <2>2
  <2>4. AtMost(Size(Weighted(w, r, S) - Rhs(r) * e), bound, tie)
    BY <1>1 DEF SmallResidual, Weighted
  <2> DEFINE n == Weighted(w, r, S) - Rhs(r) * e
  <2>5. n \in Int
    BY <2>2, <2>3
  <2> HIDE DEF bound
  <2>6. n <= bound /\ -n <= bound
    BY <1>3, <2>4, <2>5, SizeBounds
  <2> QED BY <2>2, <2>3, <2>6
<1>5. \A s \in S : AtMost(IF e > 0 THEN -w[s] ELSE w[s], bound, tie)
  BY <1>1 DEF NoNegativeWeight
<1> HIDE DEF x, e, w, bound
<1>6. CASE e > 0
  <2>1. bound = Tolerance * e /\ e \in Nat \ {0}
    BY <1>2, <1>6 DEF bound, Size
  <2>2. \A s \in S : w[s] >= -bound
    <3> SUFFICES ASSUME NEW s \in S PROVE w[s] >= -bound
      OBVIOUS
    <3>1. AtMost(-w[s], bound, tie) /\ w[s] \in Int
      BY <1>2, <1>5, <1>6
    <3> QED BY <1>3, <3>1 DEF AtMost
  <2>3. \A r \in Rows : Rhs(r) * e - Weighted(w, r, S) <= bound
    BY <1>3, <1>4
  <2>4. Mixes(w, e, S)
    BY <1>2, <1>4, <2>1, <2>2, <2>3 DEF Mixes
  <2> QED BY <2>4
<1>7. CASE e < 0
  <2> DEFINE y == [s \in S |-> -w[s]]
             d == -e
  <2>1. bound = Tolerance * d /\ d \in Nat \ {0}
    BY <1>2, <1>7 DEF bound, Size
  <2>2. y \in [S -> Int] /\ \A s \in S : y[s] = -w[s]
    BY <1>2
  <2>3. \A s \in S : y[s] >= -bound
    <3> SUFFICES ASSUME NEW s \in S PROVE y[s] >= -bound
      OBVIOUS
    <3>1. AtMost(w[s], bound, tie) /\ w[s] \in Int
      BY <1>2, <1>5, <1>7
    <3> QED BY <1>3, <2>2, <3>1 DEF AtMost
  <2> HIDE DEF y
  <2>4. ASSUME NEW r \in Rows
        PROVE  Weighted(y, r, S) - Rhs(r) * d <= bound /\ Rhs(r) * d - Weighted(y, r, S) <= bound
    <3> DEFINE f == [s \in S |-> w[s] * Entry(r, s)]
               g == [s \in S |-> y[s] * Entry(r, s)]
    <3>1. Ints(w, S) /\ IsFiniteSet(S)
      BY <1>2, NumbersTyped, FS_Subset DEF Ints
    <3>2. Ints(f, S)
      BY <3>1, WeightedTyped
    <3>3. \A s \in S : g[s] = (-1) * f[s] + 0 * f[s]
      <4> SUFFICES ASSUME NEW s \in S
                   PROVE  y[s] * Entry(r, s) = (-1) * (w[s] * Entry(r, s)) + 0 * (w[s] * Entry(r, s))
        OBVIOUS
      <4>1. w[s] \in Int /\ Entry(r, s) \in Int /\ y[s] = -w[s]
        BY <1>2, <2>2, NumbersTyped
      <4>2. w[s] * Entry(r, s) \in Int /\ (-w[s]) * Entry(r, s) = -(w[s] * Entry(r, s))
        BY <4>1
      <4> QED BY <4>1, <4>2
    <3> HIDE DEF f, g
    <3>4. Combines(g, -1, f, 0, f, S)
      BY <3>3 DEF Combines
    <3>5. Sum(g, S) = (-1) * Sum(f, S) + 0 * Sum(f, S) /\ Sum(f, S) \in Int
      BY <3>1, <3>2, <3>4, SumLinear, SumLaws
    <3>6. Weighted(y, r, S) = -Weighted(w, r, S)
      BY <3>5 DEF Weighted, f, g
    <3>7. Rhs(r) * d = -(Rhs(r) * e)
      BY <1>2, NumbersTyped
    <3> QED BY <1>3, <1>4, <3>6, <3>7
  <2> HIDE DEF d
  <2>5. Mixes(y, d, S)
    BY <2>1, <2>2, <2>3, <2>4 DEF Mixes
  <2> QED BY <2>5
<1> QED BY <1>1, <1>2, <1>6, <1>7 DEF e

\* A finite set of integers that is not empty has a minimum, and Min is it.
LEMMA MinIsLeast ==
    ASSUME NEW S \in SUBSET Int, IsFiniteSet(S), S # {}
    PROVE  Min(S) \in S /\ \A x \in S : Min(S) <= x
<1> DEFINE Least1(T, x) == x \in T /\ \A z \in T : x <= z
           Q == {T \in SUBSET S : T # {} /\ ~ \E x \in T : Least1(T, x)}
<1>1. \E x \in S : Least1(S, x)
  <2> SUFFICES ASSUME ~ \E x \in S : Least1(S, x) PROVE FALSE
    OBVIOUS
  <2>1. Q \in SUBSET SUBSET S /\ Q # {}
    BY Zenon
  <2> HIDE DEF Q
  <2>2. PICK T \in Q : \A x \in T : (T \ {x}) \notin Q
    BY <2>1, SmallestSubset
  <2>3. T \in SUBSET S /\ T # {} /\ ~ \E x \in T : Least1(T, x)
    BY DEF Q
  <2>4. PICK x \in T : TRUE
    BY <2>3
  <2> DEFINE R == T \ {x}
  <2>5. R = {} \/ \E z \in R : Least1(R, z)
    BY <2>2, <2>3, <2>4 DEF Q
  <2>6. CASE R = {}
    <3>1. x \in Int /\ T = {x}
      BY <2>3, <2>4, <2>6
    <3> QED BY <2>3, <3>1
  <2>7. CASE \E z \in R : Least1(R, z)
    <3>1. PICK z \in R : Least1(R, z)
      BY <2>7
    <3>2. x \in Int /\ z \in Int /\ z \in T /\ \A t \in T : t = x \/ z <= t
      BY <2>3, <2>4, <3>1
    <3>3. \A t \in T : t \in Int
      BY <2>3
    <3>4. Least1(T, x) \/ Least1(T, z)
      BY <2>4, <3>2, <3>3
    <3> QED BY <2>3, <2>4, <3>2, <3>4
  <2> QED BY <2>5, <2>6, <2>7
<1> QED BY <1>1 DEF Min

\* A portfolio pays an integer in every state.
LEMMA PayoffTyped ==
    ASSUME FamilyTyped, NEW h \in Portfolios, NEW s \in States
    PROVE  Payoff(h, s) \in Int /\ Ints([c \in Contracts |-> h[c] * family.states[s][c]], Contracts)
<1> DEFINE f == [c \in Contracts |-> h[c] * family.states[s][c]]
<1>1. Ints(f, Contracts)
  <2>1. family.states[s] \in [Contracts -> Int] /\ h \in [Contracts -> Int]
    BY NumbersTyped DEF Portfolios
  <2> QED BY <2>1 DEF Ints
<1>2. Payoff(h, s) = Sum(f, Contracts)
  BY DEF Payoff
<1> HIDE DEF f
<1>3. Sum(f, Contracts) \in Int
  BY <1>1, NumbersTyped, SumLaws
<1> QED BY <1>1, <1>2, <1>3 DEF f

\* What it pays at least is the least of what it pays.
LEMMA LeastTyped ==
    ASSUME FamilyTyped, NEW h \in Portfolios
    PROVE  Least(h) \in Int /\ \A s \in States : Least(h) <= Payoff(h, s)
<1> DEFINE P == {Payoff(h, s) : s \in States}
<1>1. P \in SUBSET Int /\ IsFiniteSet(P)
  <2> DEFINE f == [s \in States |-> Payoff(h, s)]
  <2>1. P = Range(f)
    BY Zenon DEF Range
  <2>2. P \in SUBSET Int
    BY PayoffTyped
  <2> HIDE DEF P
  <2>3. f \in Surjection(States, P)
    BY <2>1 DEF Surjection, Range
  <2>4. IsFiniteSet(States)
    BY NumbersTyped
  <2> HIDE DEF f
  <2>5. IsFiniteSet(P)
    BY <2>3, <2>4, FS_Surjection
  <2> QED BY <2>2, <2>5
<1>2. P # {} /\ \A s \in States : Payoff(h, s) \in P
  BY NumbersTyped
<1> HIDE DEF P
<1>3. Min(P) \in P /\ \A x \in P : Min(P) <= x
  BY <1>1, <1>2, MinIsLeast
<1>4. Least(h) = Min(P)
  BY DEF Least, P
<1> QED BY <1>1, <1>2, <1>3, <1>4

\* Products of bounds.
LEMMA WeightTimesGap ==
    ASSUME NEW y \in Int, NEW t \in Int, NEW p \in Int, NEW l \in Int, y >= -t, l <= p
    PROVE  y * p >= l * y - t * (p - l)
<1>1. (y + t) * (p - l) >= 0
  <2>1. y + t \in Nat /\ p - l \in Nat
    OBVIOUS
  <2>2. \A a \in Nat, b \in Nat : a * b >= 0
    OBVIOUS
  <2> QED BY <2>1, <2>2
<1>2. (y + t) * (p - l) = y * (p - l) + t * (p - l)
  OBVIOUS
<1>3. y * (p - l) = y * p - l * y
  OBVIOUS
<1>4. y * p \in Int /\ l * y \in Int /\ t * (p - l) \in Int
  OBVIOUS
<1> QED BY <1>1, <1>2, <1>3, <1>4

\* A factor that is off by t is off by t sizes of the other.
LEMMA TimesSize ==
    ASSUME NEW l \in Int, NEW w \in Int, NEW u \in Int, NEW t \in Int, w - u <= t, u - w <= t
    PROVE  l * w >= l * u - t * Size(l)
<1>1. CASE l >= 0
  <2>1. \A a \in Nat, b \in Nat : a * b >= 0
    OBVIOUS
  <2>2. l \in Nat /\ t - (u - w) \in Nat
    BY <1>1
  <2>3. l * (t - (u - w)) >= 0
    BY <2>1, <2>2
  <2>4. l * (t - (u - w)) = l * t - l * u + l * w
    OBVIOUS
  <2>5. l * t \in Int /\ l * u \in Int /\ l * w \in Int /\ l * t = t * l
    OBVIOUS
  <2>6. Size(l) = l
    BY <1>1 DEF Size
  <2> QED BY <2>3, <2>4, <2>5, <2>6
<1>2. CASE l < 0
  <2> DEFINE k == -l
  <2>1. \A a \in Nat, b \in Nat : a * b >= 0
    OBVIOUS
  <2>2. k \in Nat /\ t - (w - u) \in Nat
    BY <1>2
  <2>3. k * (t - (w - u)) >= 0
    BY <2>1, <2>2
  <2>4. k * (t - (w - u)) = t * k + l * w - l * u
    OBVIOUS
  <2>5. t * k \in Int /\ l * u \in Int /\ l * w \in Int
    OBVIOUS
  <2>6. Size(l) = k
    BY <1>2 DEF Size
  <2> QED BY <2>3, <2>4, <2>5, <2>6
<1> QED BY <1>1, <1>2

\* A positive factor can be cancelled.
LEMMA CancelFactor ==
    ASSUME NEW a \in Int, NEW b \in Int, NEW d \in Nat \ {0}, d * a >= d * b
    PROVE  a >= b
<1>1. ASSUME a < b PROVE FALSE
  <2>1. b - a - 1 \in Nat
    BY <1>1
  <2>2. \A m \in Nat, n \in Nat : m * n >= 0
    OBVIOUS
  <2>3. d * (b - a - 1) >= 0
    BY <2>1, <2>2
  <2>4. d * (b - a - 1) = d * b - d * a - d
    OBVIOUS
  <2>5. d * a \in Int /\ d * b \in Int
    OBVIOUS
  <2> QED BY <2>3, <2>4, <2>5
<1> QED BY <1>1

\* Over the same weights, a portfolio pays the mixture of what it pays in the states.
LEMMA MixedPayoff ==
    ASSUME FamilyTyped, NEW h \in Portfolios, NEW S \in SUBSET States, NEW y \in [S -> Int]
    PROVE  Sum([c \in Contracts |-> h[c] * Weighted(y, c, S)], Contracts)
             = Sum([s \in S |-> y[s] * Payoff(h, s)], S)
<1> DEFINE part(c, s) == h[c] * (y[s] * Entry(c, s))
           M == [c \in Contracts |-> [s \in S |-> part(c, s)]]
<1>1. IsFiniteSet(S) /\ IsFiniteSet(Contracts) /\ Ints(y, S) /\ \A c \in Contracts : c \in Rows
  BY NumbersTyped, FS_Subset DEF Ints, Rows
<1>2. \A c \in Contracts, s \in S : /\ h[c] \in Int /\ y[s] \in Int /\ Entry(c, s) \in Int
                                    /\ Entry(c, s) = family.states[s][c]
  BY <1>1, NumbersTyped DEF Portfolios, Entry
<1>3. \A c \in Contracts, s \in S : part(c, s) \in Int
  BY <1>2
<1>4. IntTable(M, Contracts, S)
  BY <1>3 DEF IntTable
<1>5. ASSUME NEW c \in Contracts PROVE Sum(M[c], S) = h[c] * Weighted(y, c, S)
  <2> DEFINE f == [s \in S |-> y[s] * Entry(c, s)]
             g == M[c]
  <2>1. Ints(f, S) /\ Weighted(y, c, S) = Sum(f, S)
    BY <1>1, WeightedTyped DEF Weighted
  <2>2. \A s \in S : g[s] = h[c] * f[s] + 0 * f[s]
    BY <1>2
  <2>3. h[c] \in Int
    BY DEF Portfolios
  <2> HIDE DEF f, g
  <2>4. Combines(g, h[c], f, 0, f, S)
    BY <2>2 DEF Combines
  <2>5. Sum(g, S) = h[c] * Sum(f, S) + 0 * Sum(f, S) /\ Sum(f, S) \in Int
    BY <1>1, <2>1, <2>3, <2>4, SumLinear, SumLaws
  <2>6. h[c] * Sum(f, S) \in Int
    BY <2>3, <2>5
  <2> QED BY <2>1, <2>5, <2>6 DEF g
<1>6. ASSUME NEW s \in S
      PROVE  Sum([c \in Contracts |-> M[c][s]], Contracts) = y[s] * Payoff(h, s)
  <2> DEFINE f == [c \in Contracts |-> h[c] * family.states[s][c]]
             g == [c \in Contracts |-> M[c][s]]
  <2>1. Ints(f, Contracts) /\ Payoff(h, s) = Sum(f, Contracts)
    BY PayoffTyped DEF Payoff
  <2>2. \A c \in Contracts : g[c] = y[s] * f[c] + 0 * f[c]
    <3> SUFFICES ASSUME NEW c \in Contracts
                 PROVE  h[c] * (y[s] * Entry(c, s)) = y[s] * f[c] + 0 * f[c]
      OBVIOUS
    <3>1. /\ h[c] \in Int /\ y[s] \in Int /\ Entry(c, s) \in Int
          /\ f[c] = h[c] * Entry(c, s)
      BY <1>2
    <3>2. h[c] * (y[s] * Entry(c, s)) = y[s] * (h[c] * Entry(c, s))
      BY <3>1
    <3> QED BY <3>1, <3>2
  <2> HIDE DEF f, g
  <2>4. Combines(g, y[s], f, 0, f, Contracts)
    BY <2>2 DEF Combines
  <2>5. Sum(g, Contracts) = y[s] * Sum(f, Contracts) + 0 * Sum(f, Contracts)
        /\ Sum(f, Contracts) \in Int
    BY <1>1, <2>1, <2>4, SumLinear, SumLaws
  <2>6. y[s] * Sum(f, Contracts) \in Int
    BY <2>5
  <2> QED BY <2>1, <2>5, <2>6 DEF g
<1> HIDE DEF M
<1>7. RowSums(M, Contracts, S) = ColumnSums(M, Contracts, S)
  BY <1>1, <1>4, SumSwap
<1>8. [c \in Contracts |-> Sum(M[c], S)] = [c \in Contracts |-> h[c] * Weighted(y, c, S)]
  BY <1>5
<1>9. [s \in S |-> Sum([c \in Contracts |-> M[c][s]], Contracts)]
        = [s \in S |-> y[s] * Payoff(h, s)]
  BY <1>6
<1> QED BY <1>7, <1>8, <1>9 DEF RowSums, ColumnSums

\* What a portfolio costs is near to the mixture of what it pays.
LEMMA CostIsMixed ==
    ASSUME FamilyTyped, NEW h \in Portfolios, NEW y, NEW d, NEW S, Mixes(y, d, S)
    PROVE  /\ Cost(h) \in Int
           /\ Sum([c \in Contracts |-> Size(h[c])], Contracts) \in Int
           /\ Sum([s \in S |-> y[s] * Payoff(h, s)], S) \in Int
           /\ d * Cost(h) >= Sum([s \in S |-> y[s] * Payoff(h, s)], S)
                             - (Tolerance * d) * Sum([c \in Contracts |-> Size(h[c])], Contracts)
<1> DEFINE K == Contracts
           t == Tolerance * d
           cost == [c \in K |-> h[c] * price[c]]
           size == [c \in K |-> Size(h[c])]
           mix  == [c \in K |-> h[c] * Weighted(y, c, S)]
           low  == [c \in K |-> 1 * mix[c] + (-t) * size[c]]
           high == [c \in K |-> d * cost[c] + 0 * cost[c]]
<1>1. IsFiniteSet(K) /\ S \in SUBSET States /\ y \in [S -> Int] /\ d \in Nat \ {0} /\ t \in Nat
  <2>1. d \in Nat \ {0} /\ Tolerance \in Nat
    BY UnitAssumption DEF Mixes
  <2> QED BY <2>1, NumbersTyped DEF Mixes
<1>2. ASSUME NEW c \in K
      PROVE  /\ h[c] \in {-1, 0, 1} /\ price[c] \in Int /\ Weighted(y, c, S) \in Int
             /\ Weighted(y, c, S) - price[c] * d <= t /\ price[c] * d - Weighted(y, c, S) <= t
  <2>1. c \in Rows /\ c # 0 /\ Ints(y, S)
    BY <1>1, NumbersTyped DEF Rows, Ints
  <2>2. Weighted(y, c, S) \in Int /\ Rhs(c) = price[c] /\ Rhs(c) \in Int
    BY <1>1, <2>1, WeightedTyped, NumbersTyped DEF Rhs
  <2> QED BY <2>1, <2>2 DEF Mixes, Portfolios
<1>3. ASSUME NEW c \in K
      PROVE  /\ cost[c] \in Int /\ size[c] \in Int /\ mix[c] \in Int
             /\ low[c] \in Int /\ high[c] \in Int /\ low[c] <= high[c]
  <2> DEFINE w == Weighted(y, c, S)
             p == price[c]
             k == h[c]
             pd == p * d
  <2>1. /\ k \in {-1, 0, 1} /\ p \in Int /\ w \in Int /\ d \in Int /\ t \in Int
        /\ w - pd <= t /\ pd - w <= t /\ pd \in Int
    BY <1>1, <1>2
  <2>2. cost[c] = k * p /\ size[c] = Size(k) /\ mix[c] = k * w
        /\ low[c] = 1 * (k * w) + (-t) * Size(k) /\ high[c] = d * (k * p) + 0 * (k * p)
    OBVIOUS
  <2>3. d * (k * p) = k * pd
    BY <2>1
  <2> HIDE DEF w, p, k, pd, low, high, cost, size, mix, t
  <2>4. CASE k = -1
    BY <2>1, <2>2, <2>3, <2>4 DEF Size
  <2>5. CASE k = 0
    BY <2>1, <2>2, <2>3, <2>5 DEF Size
  <2>6. CASE k = 1
    BY <2>1, <2>2, <2>3, <2>6 DEF Size
  <2> QED BY <2>1, <2>4, <2>5, <2>6
<1>4. Combines(low, 1, mix, -t, size, K) /\ Combines(high, d, cost, 0, cost, K)
  BY DEF Combines
<1>5. Cost(h) = Sum(cost, K) /\ Sum(mix, K) = Sum([s \in S |-> y[s] * Payoff(h, s)], S)
  BY <1>1, MixedPayoff DEF Cost
<1> HIDE DEF low, high, cost, size, mix, K, t
<1>6. Ints(low, K) /\ Ints(high, K) /\ Ints(cost, K) /\ Ints(size, K) /\ Ints(mix, K)
  BY <1>3 DEF Ints
<1>7. Sum(cost, K) \in Int /\ Sum(size, K) \in Int /\ Sum(mix, K) \in Int
  BY <1>1, <1>6, SumLaws
<1>8. Sum(low, K) <= Sum(high, K)
  BY <1>1, <1>3, <1>6, SumMonotone
<1>9. Sum(low, K) = 1 * Sum(mix, K) + (-t) * Sum(size, K)
  BY <1>1, <1>4, <1>6, SumLinear
<1>10. Sum(high, K) = d * Sum(cost, K) + 0 * Sum(cost, K)
  BY <1>1, <1>4, <1>6, SumLinear
<1>11. d * Sum(cost, K) >= Sum(mix, K) - t * Sum(size, K)
  <2>1. (-t) * Sum(size, K) = -(t * Sum(size, K)) /\ t * Sum(size, K) \in Int
        /\ d * Sum(cost, K) \in Int
    BY <1>1, <1>7
  <2> QED BY <1>7, <1>8, <1>9, <1>10, <2>1
<1> QED BY <1>5, <1>7, <1>11 DEF size, K, t

\* And the mixture of what it pays is near to what it pays at least.
LEMMA MixedPaysLeast ==
    ASSUME FamilyTyped, NEW h \in Portfolios, NEW y, NEW d, NEW S, Mixes(y, d, S)
    PROVE  /\ Sum([s \in States |-> Payoff(h, s) - Least(h)], States) \in Int
           /\ Sum([s \in S |-> y[s] * Payoff(h, s)], S)
                >= Least(h) * (Unit * d)
                   - (Tolerance * d) * Size(Least(h))
                   - (Tolerance * d) * Sum([s \in States |-> Payoff(h, s) - Least(h)], States)
<1> DEFINE l    == Least(h)
           t    == Tolerance * d
           gaps == [s \in States |-> Payoff(h, s) - l]
           paid == [s \in S |-> y[s] * Payoff(h, s)]
           ones == [s \in S |-> y[s] * Entry(0, s)]
           low  == [s \in S |-> l * ones[s] + (-t) * gaps[s]]
<1>1. /\ IsFiniteSet(States) /\ S \in SUBSET States /\ y \in [S -> Int] /\ d \in Nat \ {0}
      /\ t \in Nat /\ Unit \in Nat /\ \A s \in S : y[s] >= -t
  <2>1. d \in Nat \ {0} /\ Tolerance \in Nat /\ Unit \in Nat
    BY UnitAssumption DEF Mixes
  <2> QED BY <2>1, NumbersTyped DEF Mixes
<1>2. IsFiniteSet(S)
  BY <1>1, FS_Subset
<1>3. l \in Int /\ \A s \in States : Payoff(h, s) \in Int /\ l <= Payoff(h, s)
  BY LeastTyped, PayoffTyped
<1>4. \A s \in States : gaps[s] \in Int /\ gaps[s] >= 0
  <2> SUFFICES ASSUME NEW s \in States PROVE Payoff(h, s) - l \in Int /\ Payoff(h, s) - l >= 0
    OBVIOUS
  <2> HIDE DEF l
  <2> QED BY <1>3
<1>5. ASSUME NEW s \in S
      PROVE  paid[s] \in Int /\ ones[s] \in Int /\ low[s] \in Int /\ low[s] <= paid[s]
  <2> DEFINE w == y[s]
             p == Payoff(h, s)
  <2>1. w \in Int /\ p \in Int /\ l \in Int /\ t \in Int /\ w >= -t /\ l <= p
    BY <1>1, <1>3
  <2>2. paid[s] = w * p /\ ones[s] = w * 1 /\ gaps[s] = p - l
    BY <1>1 DEF Entry
  <2>3. low[s] = l * ones[s] + (-t) * gaps[s]
    OBVIOUS
  <2> HIDE DEF w, p, l, t, paid, ones, gaps, low
  <2>4. w * p >= l * w - t * (p - l)
    BY <2>1, WeightTimesGap
  <2>5. (-t) * (p - l) = -(t * (p - l)) /\ t * (p - l) \in Int /\ l * w \in Int /\ w * p \in Int
    BY <2>1
  <2> QED BY <2>1, <2>2, <2>3, <2>4, <2>5
<1>6. Combines(low, l, ones, -t, gaps, S)
  BY DEF Combines
<1>7. Weighted(y, 0, S) = Sum(ones, S)
  BY DEF Weighted
<1>8. Weighted(y, 0, S) - Unit * d <= t /\ Unit * d - Weighted(y, 0, S) <= t
  BY DEF Mixes, Rows, Rhs
<1> HIDE DEF gaps, paid, ones, low, l, t
<1>9. Ints(paid, S) /\ Ints(ones, S) /\ Ints(low, S) /\ Ints(gaps, States) /\ Ints(gaps, S)
  BY <1>1, <1>4, <1>5 DEF Ints
<1>10. Sum(paid, S) \in Int /\ Sum(ones, S) \in Int /\ Sum(gaps, S) \in Int
       /\ Sum(gaps, States) \in Int
  BY <1>1, <1>2, <1>9, SumLaws
<1>11. Sum(low, S) <= Sum(paid, S)
  BY <1>2, <1>5, <1>9, SumMonotone
<1>12. Sum(low, S) = l * Sum(ones, S) + (-t) * Sum(gaps, S)
  BY <1>1, <1>2, <1>3, <1>6, <1>9, SumLinear
<1>13. Sum(gaps, S) <= Sum(gaps, States)
  BY <1>1, <1>4, <1>9, SumOfPart
<1>14. l * Sum(ones, S) >= l * (Unit * d) - t * Size(l)
  <2> DEFINE w == Sum(ones, S)
             u == Unit * d
  <2>1. w \in Int /\ u \in Int /\ w - u <= t /\ u - w <= t
    BY <1>1, <1>7, <1>8, <1>10
  <2> HIDE DEF w, u
  <2>2. l * w >= l * u - t * Size(l)
    BY <1>1, <1>3, <2>1, TimesSize
  <2> QED BY <2>2 DEF w, u
<1>15. Sum(paid, S) >= l * (Unit * d) - t * Size(l) - t * Sum(gaps, States)
  <2> DEFINE a == Sum(gaps, S)
             b == Sum(gaps, States)
             w == l * Sum(ones, S)
             u == l * (Unit * d)
             z == t * Size(l)
  <2>1. a \in Int /\ b \in Int /\ a <= b /\ w \in Int /\ u \in Int /\ z \in Int
    <3>1. Size(l) \in Int
      BY <1>3 DEF Size
    <3> QED BY <1>1, <1>3, <1>10, <1>13, <3>1
  <2>2. w >= u - z /\ w + (-t) * a <= Sum(paid, S)
    BY <1>11, <1>12, <1>14
  <2> HIDE DEF a, b, w, u, z
  <2>3. t * a <= t * b
    <3>1. b - a \in Nat
      BY <2>1
    <3>2. \A m \in Nat, n \in Nat : m * n >= 0
      OBVIOUS
    <3>3. t * (b - a) >= 0 /\ t * (b - a) = t * b - t * a
      BY <1>1, <2>1, <3>1, <3>2
    <3>4. t * a \in Int /\ t * b \in Int
      BY <1>1, <2>1
    <3> QED BY <3>3, <3>4
  <2>4. (-t) * a = -(t * a) /\ t * a \in Int /\ t * b \in Int
    BY <1>1, <2>1
  <2>5. Sum(paid, S) >= u - z - t * b
    BY <1>10, <2>1, <2>2, <2>3, <2>4
  <2> QED BY <2>5 DEF b, u, z
<1> QED BY <1>10, <1>15 DEF gaps, paid, l, t

\* Together, for one portfolio.
LEMMA MixedHasNoArbitrage ==
    ASSUME FamilyTyped, NEW h \in Portfolios, NEW y, NEW d, NEW S, Mixes(y, d, S)
    PROVE  Cost(h) >= Least(h) * Unit - Slack(h)
<1> DEFINE c == Cost(h)
           l == Least(h)
           m == Sum([s \in S |-> y[s] * Payoff(h, s)], S)
           a == Sum([k \in Contracts |-> Size(h[k])], Contracts)
           b == Sum([s \in States |-> Payoff(h, s) - Least(h)], States)
           z == Size(Least(h))
           t == Tolerance
<1>1. d \in Nat \ {0} /\ t \in Int /\ Unit \in Int
  BY UnitAssumption DEF Mixes
<1>2. l \in Int /\ z \in Int
  BY LeastTyped DEF Size
<1>3. c \in Int /\ a \in Int /\ m \in Int /\ d * c >= m - (t * d) * a
  BY CostIsMixed
<1>4. b \in Int /\ m >= l * (Unit * d) - (t * d) * z - (t * d) * b
  BY MixedPaysLeast
<1>5. Slack(h) = t * (a + b + z)
  BY DEF Slack
<1> HIDE DEF c, l, m, a, b, z, t
<1> DEFINE e == l * Unit - t * (a + b + z)
<1>6. e \in Int
  <2>1. a + b + z \in Int
    BY <1>2, <1>3, <1>4
  <2>2. l * Unit \in Int /\ t * (a + b + z) \in Int
    BY <1>1, <1>2, <2>1
  <2> QED BY <2>2
<1>7. d * e = l * (Unit * d) - (t * d) * z - (t * d) * b - (t * d) * a
  <2>1. d * e = d * (l * Unit) - d * (t * (a + b + z))
    <3>1. a + b + z \in Int /\ l * Unit \in Int
      BY <1>1, <1>2, <1>3, <1>4
    <3>2. t * (a + b + z) \in Int
      BY <1>1, <3>1
    <3> QED BY <1>1, <3>1, <3>2
  <2>2. d * (l * Unit) = l * (Unit * d)
    BY <1>1, <1>2
  <2>3. d * (t * (a + b + z)) = (t * d) * (a + b + z)
    BY <1>1, <1>2, <1>3, <1>4
  <2> DEFINE k == t * d
  <2>4. k \in Int
    BY <1>1
  <2> HIDE DEF k
  <2>5. k * (a + b + z) = k * a + k * b + k * z
    BY <1>2, <1>3, <1>4, <2>4
  <2>6. k * a \in Int /\ k * b \in Int /\ k * z \in Int /\ l * (Unit * d) \in Int
    BY <1>1, <1>2, <1>3, <1>4, <2>4
  <2>7. d * e = l * (Unit * d) - k * z - k * b - k * a
    BY <2>1, <2>2, <2>3, <2>5, <2>6 DEF k
  <2> QED BY <2>7 DEF k
<1>8. d * c >= d * e
  <2>1. (t * d) * a \in Int /\ (t * d) * b \in Int /\ (t * d) * z \in Int
        /\ l * (Unit * d) \in Int /\ d * c \in Int
    BY <1>1, <1>2, <1>3, <1>4
  <2> HIDE DEF e
  <2> QED BY <1>3, <1>4, <1>7, <2>1
<1> HIDE DEF e
<1>9. c >= e
  BY <1>1, <1>3, <1>6, <1>8, CancelFactor
<1> QED BY <1>5, <1>9 DEF c, e, l

-------------------------------------------------------------------------------
\* What holds in every state: the tables are numbers, and a feasible verdict comes from
\* the hull.
FamilyInv ==
    /\ FamilyTyped
    /\ verdict = "feasible" => \E tie \in BOOLEAN : InHull(tie)

\* A mixture has integer prices.
LEMMA MixedTyped ==
    ASSUME family \in Families, NEW w \in Weights(Len(family.states))
    PROVE  Mixed(family.states, w) \in [1..Len(family.states[1]) -> Int]
<1> DEFINE states == family.states
           N == DOMAIN states
           f(c) == [s \in N |-> w[s] * states[s][c]]
           m == Unit \div Parts
<1>1. /\ states # <<>> /\ states \in Seq([1..Len(states[1]) -> Int])
  BY FamiliesAssumption
<1>2. N = 1..Len(states) /\ Len(states) \in Nat /\ 1 \in N /\ IsFiniteSet(N)
  BY <1>1, FS_Interval
<1>3. \A s \in N : states[s] \in [1..Len(states[1]) -> Int]
  BY <1>1, <1>2
<1>4. DOMAIN states[1] = 1..Len(states[1])
  BY <1>2, <1>3
<1>5. \A s \in N : w[s] \in Int
  BY <1>2, UnitAssumption DEF Weights
<1>6. ASSUME NEW c \in 1..Len(states[1]) PROVE Ints(f(c), N)
  BY <1>3, <1>5 DEF Ints
<1>7. m \in Int
  BY UnitAssumption, Z3
<1>8. ASSUME NEW c \in 1..Len(states[1]) PROVE Sum(f(c), N) * m \in Int
  <2> HIDE DEF f, N, m
  <2>1. Ints(f(c), N)
    BY <1>6
  <2>2. Sum(f(c), N) \in Int
    BY <1>2, <2>1, SumLaws
  <2> QED BY <1>7, <2>2
<1> QED BY <1>4, <1>8 DEF Mixed

\* It holds at first,
LEMMA InitFamilyInv == ASSUME Init PROVE FamilyInv
<1>1. family \in Families /\ verdict = "none"
  BY DEF Init
<1>2. DOMAIN family.states[1] = 1..Len(family.states[1])
  BY <1>1, FamiliesAssumption
<1>3. price \in [1..Len(family.states[1]) -> Int]
  <2>1. CASE price \in [DOMAIN family.states[1] -> Prices \cup {NoPrice}]
    <3>1. Prices \cup {NoPrice} \subseteq Int
      BY UnitAssumption DEF NoPrice
    <3> QED BY <1>2, <2>1, <3>1
  <2>2. CASE \E w \in Weights(Len(family.states)) : price = Mixed(family.states, w)
    BY <1>1, <2>2, MixedTyped
  <2> QED BY <2>1, <2>2 DEF Init
<1> QED BY <1>1, <1>3 DEF FamilyInv, FamilyTyped

\* The hull is a matter of the family and its prices alone.
LEMMA HullUnchanged ==
    ASSUME family' = family, price' = price, NEW tie PROVE InHull(tie)' = InHull(tie)
<1>1. Contracts' = Contracts /\ States' = States /\ Rows' = Rows /\ Widths' = Widths
  BY DEF Contracts, States, Rows, Widths
<1>2. /\ \A row : Rhs(row)' = Rhs(row)
      /\ \A row, s : Entry(row, s)' = Entry(row, s)
  BY DEF Rhs, Entry
<1>3. ASSUME NEW S, NEW R PROVE Solve(S, R)' = Solve(S, R)
  <2>1. Start(S, R)' = Start(S, R)
    BY <1>2 DEF Start
  <2> QED BY <2>1 DEF Solve
<1>4. ASSUME NEW x, NEW S
      PROVE  /\ SmallResidual(x, S, tie)' = SmallResidual(x, S, tie)
             /\ NoNegativeWeight(x, S, tie)' = NoNegativeWeight(x, S, tie)
  <2>1. \A row : [s \in S |-> x.num[s] * Entry(row, s)]' = [s \in S |-> x.num[s] * Entry(row, s)]
    BY <1>2
  <2> QED BY <1>1, <1>2, <2>1 DEF SmallResidual, NoNegativeWeight
<1>5. ASSUME NEW S, NEW R PROVE Fits(S, R, tie)' = Fits(S, R, tie)
  BY <1>3, <1>4 DEF Fits
<1> QED BY <1>1, <1>5 DEF InHull

\* the diagnostic keeps it,
LEMMA DiagnoseStep == ASSUME FamilyInv, Diagnose PROVE FamilyInv'
<1>1. family' = family /\ price' = price /\ verdict' \in Outcomes
  BY DEF Diagnose
<1>2. FamilyTyped'
  BY <1>1 DEF FamilyInv, FamilyTyped
<1>3. ASSUME verdict' = "feasible" PROVE \E tie \in BOOLEAN : InHull(tie)'
  <2>1. PICK tie \in BOOLEAN : InHull(tie)
    BY <1>1, <1>3 DEF Outcomes
  <2>2. InHull(tie)'
    BY <1>1, <2>1, HullUnchanged
  <2> QED BY <2>2
<1> QED BY <1>2, <1>3 DEF FamilyInv

\* and so does every step.
LEMMA FamilyInvKept == FamilyInv /\ [Next]_vars => FamilyInv'
<1> SUFFICES ASSUME FamilyInv, [Next]_vars PROVE FamilyInv'
  OBVIOUS
<1>1. CASE Diagnose
  BY <1>1, DiagnoseStep
<1>2. CASE UNCHANGED vars
  <2>1. FamilyTyped'
    BY <1>2 DEF FamilyInv, FamilyTyped, vars
  <2>2. ASSUME verdict' = "feasible" PROVE \E tie \in BOOLEAN : InHull(tie)'
    <3>1. PICK tie \in BOOLEAN : InHull(tie)
      BY <1>2, <2>2 DEF FamilyInv, vars
    <3>2. InHull(tie)'
      BY <1>2, <3>1, HullUnchanged DEF vars
    <3> QED BY <3>2
  <2> QED BY <2>1, <2>2 DEF FamilyInv
<1> QED BY <1>1, <1>2 DEF Next

\* Prices that _family_diagnostic calls feasible leave no portfolio that costs less than it
\* pays in every state, beyond what DEFAULT_TOLERANCE can hide: the subsystem that the hull
\* accepted mixes the states to the prices.
THEOREM FeasibleIsNoArbitrage == Spec => []FeasibleHasNoArbitrage
<1>1. FamilyInv /\ [Next]_vars => FamilyInv'
  BY FamilyInvKept
<1>2. FamilyInv => FeasibleHasNoArbitrage
  <2> SUFFICES ASSUME FamilyInv, verdict = "feasible", NEW h \in Portfolios
               PROVE  Cost(h) >= Least(h) * Unit - Slack(h)
    BY DEF FeasibleHasNoArbitrage
  <2>1. PICK tie \in BOOLEAN : InHull(tie)
    BY DEF FamilyInv
  <2>2. PICK n \in Widths :
          \E states \in kSubset(n, States), rows \in kSubset(n, Rows) : Fits(states, rows, tie)
    BY <2>1 DEF InHull
  <2> PICK S \in kSubset(n, States), R \in kSubset(n, Rows) : Fits(S, R, tie)
    BY <2>2
  <2>3. S \in SUBSET States /\ R \in SUBSET Rows /\ Cardinality(S) = Cardinality(R)
    BY DEF kSubset
  <2>4. \E y, d : Mixes(y, d, S)
    BY <2>3, FitsMixes DEF FamilyInv
  <2> QED BY <2>4, MixedHasNoArbitrage DEF FamilyInv
<1> QED BY <1>1, <1>2, InitFamilyInv, PTL DEF Spec

-------------------------------------------------------------------------------
(***************************************************************************)
(* Mixtures are feasible.                                                  *)
(***************************************************************************)

\* What an equation leaves over is linear in the weights.
LEMMA WeightedCombined ==
    ASSUME FamilyTyped, NEW S \in SUBSET States, NEW r \in Rows, NEW u, Ints(u, S),
           NEW v, Ints(v, S), NEW a \in Int, NEW b \in Int, NEW w, Combines(w, a, u, b, v, S)
    PROVE  Weighted(w, r, S) = a * Weighted(u, r, S) + b * Weighted(v, r, S)
<1> DEFINE f == [s \in S |-> u[s] * Entry(r, s)]
           g == [s \in S |-> v[s] * Entry(r, s)]
           h == [s \in S |-> w[s] * Entry(r, s)]
<1>1. IsFiniteSet(S) /\ Ints(f, S) /\ Ints(g, S)
  BY WeightedTyped
<1>2. ASSUME NEW s \in S PROVE h[s] = a * f[s] + b * g[s]
  <2>1. w[s] = a * u[s] + b * v[s] /\ u[s] \in Int /\ v[s] \in Int /\ Entry(r, s) \in Int
    BY NumbersTyped DEF Combines, Ints
  <2>2. (a * u[s] + b * v[s]) * Entry(r, s) = a * (u[s] * Entry(r, s)) + b * (v[s] * Entry(r, s))
    BY <2>1, Distributes
  <2> QED BY <2>1, <2>2
<1> HIDE DEF f, g, h
<1>3. Combines(h, a, f, b, g, S)
  BY <1>2 DEF Combines
<1>4. Sum(h, S) = a * Sum(f, S) + b * Sum(g, S)
  BY <1>1, <1>3, SumLinear
<1> QED BY <1>4 DEF Weighted, f, g, h

\* States without weight can be left out.
LEMMA WeightedOfPart ==
    ASSUME FamilyTyped, NEW S \in SUBSET States, NEW r \in Rows, NEW w, Ints(w, S),
           NEW P \in SUBSET S, \A s \in S \ P : w[s] = 0
    PROVE  Weighted(w, r, P) = Weighted(w, r, S)
<1> DEFINE f == [s \in S |-> w[s] * Entry(r, s)]
           g == [s \in P |-> w[s] * Entry(r, s)]
<1>1. IsFiniteSet(S) /\ Ints(f, S) /\ IsFiniteSet(P)
  <2>1. IsFiniteSet(S) /\ Ints(f, S)
    BY WeightedTyped
  <2> QED BY <2>1, FS_Subset
<1>2. \A s \in P : g[s] = f[s]
  OBVIOUS
<1>3. \A s \in S \ P : f[s] = 0
  <2> SUFFICES ASSUME NEW s \in S \ P PROVE w[s] * Entry(r, s) = 0
    OBVIOUS
  <2>1. w[s] = 0 /\ Entry(r, s) \in Int
    BY NumbersTyped
  <2> QED BY <2>1
<1> HIDE DEF f, g
<1>4. Ints(f, P)
  BY <1>1 DEF Ints
<1>5. Sum(g, P) = Sum(f, P)
  BY <1>1, <1>2, <1>4, SumSame
<1>6. Sum(f, P) = Sum(f, S)
  BY <1>1, <1>3, SumOfPart
<1> QED BY <1>5, <1>6 DEF Weighted, f, g

\* A part of independent states is independent.
LEMMA PartIsIndependent ==
    ASSUME FamilyTyped, NEW S \in SUBSET States, NEW R \in SUBSET Rows, NEW P \in SUBSET S,
           Dependent(P, R)
    PROVE  Dependent(S, R)
<1>1. PICK y \in [P -> Int] : (\E s \in P : y[s] # 0) /\ \A r \in R : Weighted(y, r, P) = 0
  BY DEF Dependent
<1> DEFINE z == [s \in S |-> IF s \in P THEN y[s] ELSE 0]
<1>2. /\ z \in [S -> Int] /\ \E s \in S : z[s] # 0
      /\ \A s \in P : z[s] = y[s]
      /\ \A s \in S \ P : z[s] = 0
  BY <1>1
<1> HIDE DEF z
<1>3. ASSUME NEW r \in R PROVE Weighted(z, r, S) = 0
  <2>1. Ints(z, S) /\ r \in Rows
    BY <1>2 DEF Ints
  <2>2. Weighted(z, r, P) = Weighted(z, r, S)
    BY <1>2, <2>1, WeightedOfPart
  <2>3. Weighted(y, r, P) = Weighted(z, r, P)
    BY <1>2, WeightedSame
  <2> QED BY <1>1, <2>2, <2>3
<1> QED BY <1>2, <1>3 DEF Dependent

\* More states than rows depend on each other: the elimination runs out of rows.
LEMMA MoreStatesThanRows ==
    ASSUME FamilyTyped, NEW S \in SUBSET States, NEW R \in SUBSET Rows,
           Cardinality(S) > Cardinality(R)
    PROVE  Dependent(S, R)
<1> DEFINE m == Len(family.states)
<1>1. IsFiniteSet(S) /\ IsFiniteSet(R) /\ S \cap 1..m = S
  BY NumbersTyped, FS_Subset
<1>2. PICK sys : Stuck(sys, S, R) \/ Reduced(sys, m, S, R)
  BY SolveStages
<1>3. ASSUME Reduced(sys, m, S, R) PROVE FALSE
  <2>1. System(sys, S, S, R)
    BY <1>1, <1>3 DEF Reduced
  <2>2. /\ DOMAIN sys.left \subseteq R
        /\ Cardinality(DOMAIN sys.left) + Cardinality(S) = Cardinality(R)
    BY <2>1 DEF System
  <2>3. /\ Cardinality(DOMAIN sys.left) \in Nat
        /\ Cardinality(S) \in Nat /\ Cardinality(R) \in Nat
    BY <1>1, <2>2, FS_Subset, FS_CardinalityType
  <2> QED BY <2>2, <2>3
<1> QED BY <1>2, <1>3, GivenUpIsDependent

\* Independent states are independent on as many of the rows: to the rows of all states
\* but one, add a row that the only combination these still allow does not satisfy.
LEMMA IndependentRows ==
    ASSUME FamilyTyped, NEW T \in SUBSET States, ~Dependent(T, Rows)
    PROVE  \E R \in SUBSET Rows : Cardinality(R) = Cardinality(T) /\ ~Dependent(T, R)
<1> DEFINE Fine(U) == \E R \in SUBSET Rows : Cardinality(R) = Cardinality(U) /\ ~Dependent(U, R)
           Q == {U \in SUBSET T : ~Fine(U)}
<1> SUFFICES ASSUME ~Fine(T) PROVE FALSE
  OBVIOUS
<1>1. Q \in SUBSET SUBSET T /\ Q # {} /\ IsFiniteSet(T)
  <2>1. Q \in SUBSET SUBSET T /\ Q # {}
    OBVIOUS
  <2> QED BY <2>1, NumbersTyped, FS_Subset
<1> HIDE DEF Q
<1>2. PICK U \in Q : \A x \in U : (U \ {x}) \notin Q
  BY <1>1, SmallestSubset
<1>3. U \in SUBSET T /\ U \in SUBSET States /\ ~Fine(U)
  BY DEF Q
<1>4. IsFiniteSet(U) /\ ~Dependent(U, Rows)
  BY <1>1, <1>3, FS_Subset, PartIsIndependent
<1>5. U # {}
  <2>1. ASSUME U = {} PROVE FALSE
    <3>1. Cardinality({}) = Cardinality(U) /\ {} \in SUBSET Rows
      BY <2>1
    <3>2. ~Dependent(U, {})
      BY <2>1 DEF Dependent
    <3> QED BY <1>3, <3>1, <3>2
  <2> QED BY <2>1
<1>6. PICK x \in U : TRUE
  BY <1>5
<1> DEFINE V == U \ {x}
<1>7. V \in SUBSET T /\ V \in SUBSET States /\ Fine(V)
  BY <1>2, <1>3, <1>6 DEF Q
<1>8. PICK P \in SUBSET Rows : Cardinality(P) = Cardinality(V) /\ ~Dependent(V, P)
  BY <1>7
<1>9. /\ Cardinality(V) \in Nat /\ Cardinality(U) = Cardinality(V) + 1
      /\ IsFiniteSet(P)
  <2>1. IsFiniteSet(P)
    BY NumbersTyped, FS_Subset
  <2>2. Cardinality(U) \in Nat /\ Cardinality(V) \in Nat /\ Cardinality(V) = Cardinality(U) - 1
    BY <1>4, <1>6, OneLess
  <2> QED BY <2>1, <2>2
<1>10. Dependent(U, P)
  BY <1>3, <1>8, <1>9, MoreStatesThanRows
<1>11. PICK y \in [U -> Int] : (\E s \in U : y[s] # 0) /\ \A r \in P : Weighted(y, r, U) = 0
  BY <1>10 DEF Dependent
<1>12. Ints(y, U)
  BY DEF Ints
<1>13. PICK r \in Rows : Weighted(y, r, U) # 0
  BY <1>4, <1>11 DEF Dependent
<1> DEFINE R == P \cup {r}
<1>14. R \in SUBSET Rows /\ Cardinality(R) = Cardinality(U)
  <2>1. r \notin P
    BY <1>11, <1>13
  <2>2. Cardinality(R) = Cardinality(P) + 1
    BY <1>9, <2>1, FS_AddElement
  <2> QED BY <1>8, <1>9, <2>2
<1>15. ASSUME NEW z \in [U -> Int], \A q \in R : Weighted(z, q, U) = 0
       PROVE  \A s \in U : y[x] * z[s] = z[x] * y[s]
  <2> DEFINE a == y[x]
             b == -z[x]
             d == [s \in U |-> a * z[s] + b * y[s]]
             e == [s \in V |-> d[s]]
  <2>1. a \in Int /\ b \in Int /\ Ints(z, U) /\ d \in [U -> Int]
    BY <1>6 DEF Ints
  <2>2. Combines(d, a, z, b, y, U)
    BY DEF Combines
  <2>3. d[x] = 0
    <3>1. z[x] \in Int /\ y[x] \in Int
      BY <1>6
    <3>2. y[x] * z[x] + (-z[x]) * y[x] = 0
      BY <3>1
    <3> QED BY <1>6, <3>2
  <2> HIDE DEF d
  <2>4. e \in [V -> Int] /\ \A s \in V : e[s] = d[s]
    BY <2>1
  <2> HIDE DEF a, b, e
  <2>5. ASSUME NEW q \in P PROVE Weighted(e, q, V) = 0
    <3>1. q \in Rows /\ q \in R /\ Ints(d, U)
      BY <2>1 DEF Ints
    <3>2. Weighted(d, q, U) = a * Weighted(z, q, U) + b * Weighted(y, q, U)
      BY <1>3, <1>12, <2>1, <2>2, <3>1, WeightedCombined
    <3>3. Weighted(d, q, U) = 0
      BY <1>11, <1>15, <2>1, <3>1, <3>2
    <3>4. \A s \in U \ V : d[s] = 0
      BY <2>3
    <3> HIDE DEF V, R
    <3>5. V \in SUBSET U
      BY DEF V
    <3>6. Weighted(d, q, V) = Weighted(d, q, U)
      BY <1>3, <3>1, <3>4, <3>5, WeightedOfPart
    <3>7. Weighted(e, q, V) = Weighted(d, q, V)
      BY <2>4, WeightedSame
    <3> QED BY <3>3, <3>6, <3>7
  <2>6. \A s \in V : e[s] = 0
    BY <1>8, <2>4, <2>5 DEF Dependent
  <2>7. \A s \in U : d[s] = 0
    BY <2>3, <2>4, <2>6
  <2> SUFFICES ASSUME NEW s \in U PROVE y[x] * z[s] = z[x] * y[s]
    OBVIOUS
  <2>8. y[x] * z[s] + (-z[x]) * y[s] = 0
    BY <2>7 DEF d, a, b
  <2>9. y[x] \in Int /\ z[x] \in Int /\ y[s] \in Int /\ z[s] \in Int
    BY <1>6
  <2>10. (-z[x]) * y[s] = -(z[x] * y[s]) /\ z[x] * y[s] \in Int /\ y[x] * z[s] \in Int
    BY <2>9
  <2> QED BY <2>8, <2>10
<1>16. y[x] # 0
  <2>1. ASSUME y[x] = 0 PROVE FALSE
    <3> DEFINE e == [s \in V |-> y[s]]
    <3>1. e \in [V -> Int] /\ (\E s \in V : e[s] # 0) /\ \A s \in V : e[s] = y[s]
      BY <1>11, <2>1
    <3> HIDE DEF e
    <3>2. \A s \in U \ V : y[s] = 0
      BY <2>1
    <3>3. ASSUME NEW q \in P PROVE Weighted(e, q, V) = 0
      <4> HIDE DEF V
      <4>1. V \in SUBSET U /\ q \in Rows
        BY DEF V
      <4>2. Weighted(y, q, V) = Weighted(y, q, U)
        BY <1>3, <1>12, <3>2, <4>1, WeightedOfPart
      <4>3. Weighted(e, q, V) = Weighted(y, q, V)
        BY <3>1, WeightedSame
      <4> QED BY <1>11, <4>2, <4>3
    <3> QED BY <1>8, <3>1, <3>3 DEF Dependent
  <2> QED BY <2>1
<1>17. ~Dependent(U, R)
  <2>1. ASSUME NEW z \in [U -> Int], \A q \in R : Weighted(z, q, U) = 0, NEW t \in U
        PROVE  z[t] = 0
    <3> DEFINE a == y[x]
               b == z[x]
               f == [s \in U |-> a * z[s] + 0 * z[s]]
    <3>1. a \in Int \ {0} /\ b \in Int /\ Ints(z, U) /\ \A s \in U : z[s] \in Int /\ y[s] \in Int
      BY <1>6, <1>16 DEF Ints
    <3>2. \A s \in U : a * z[s] = b * y[s]
      BY <1>15, <2>1
    <3> HIDE DEF a, b
    <3>3. Combines(f, a, z, 0, z, U) /\ Combines(f, b, y, 0, y, U)
      <4>1. ASSUME NEW s \in U PROVE f[s] = b * y[s] + 0 * y[s]
        <5>1. z[s] \in Int /\ y[s] \in Int /\ a * z[s] = b * y[s]
          BY <3>1, <3>2
        <5>2. 0 * z[s] = 0 /\ 0 * y[s] = 0
          BY <5>1
        <5> QED BY <5>1, <5>2
      <4> QED BY <4>1 DEF Combines
    <3> HIDE DEF f
    <3>4. r \in R /\ Weighted(z, r, U) = 0
      BY <2>1
    <3>5. Weighted(f, r, U) = a * Weighted(z, r, U) + 0 * Weighted(z, r, U)
      BY <1>3, <3>1, <3>3, WeightedCombined
    <3>6. Weighted(f, r, U) = b * Weighted(y, r, U) + 0 * Weighted(y, r, U)
      BY <1>3, <1>12, <3>1, <3>3, WeightedCombined
    <3>7. Weighted(y, r, U) \in Int
      BY <1>3, <1>12, WeightedTyped
    <3>8. b * Weighted(y, r, U) = 0
      <4>1. Weighted(f, r, U) = 0
        BY <3>1, <3>4, <3>5
      <4>2. 0 * Weighted(y, r, U) = 0 /\ b * Weighted(y, r, U) \in Int
        BY <3>1, <3>7
      <4> QED BY <3>6, <4>1, <4>2
    <3>9. b = 0
      <4>1. Weighted(y, r, U) \in Int \ {0} /\ Weighted(y, r, U) * b = 0
        BY <1>13, <3>1, <3>7, <3>8
      <4> QED BY <3>1, <4>1, NoZeroDivisor
    <3>10. a * z[t] = 0
      BY <3>1, <3>2, <3>9
    <3> QED BY <3>1, <3>10, NoZeroDivisor
  <2> QED BY <2>1 DEF Dependent
<1> QED BY <1>3, <1>14, <1>17

\* The order of fractions v/z, cross-multiplied, is transitive.
LEMMA RatioTransitive ==
    ASSUME NEW v1 \in Nat, NEW v2 \in Nat, NEW v3 \in Nat,
           NEW z1 \in Nat \ {0}, NEW z2 \in Nat \ {0}, NEW z3 \in Nat \ {0},
           v1 * z2 <= v2 * z1, v2 * z3 <= v3 * z2
    PROVE  v1 * z3 <= v3 * z1
<1>1. \A a \in Nat, b \in Nat, c \in Nat : a <= b => a * c <= b * c
  <2> SUFFICES ASSUME NEW a \in Nat, NEW b \in Nat, NEW c \in Nat, a <= b PROVE a * c <= b * c
    OBVIOUS
  <2>1. b - a \in Nat /\ \A m \in Nat, n \in Nat : m * n >= 0
    OBVIOUS
  <2>2. (b - a) * c >= 0 /\ (b - a) * c = b * c - a * c /\ b * c \in Int /\ a * c \in Int
    BY <2>1
  <2> QED BY <2>2
<1>2. (v1 * z2) * z3 <= (v2 * z1) * z3
  <2>1. v1 * z2 \in Nat /\ v2 * z1 \in Nat /\ z3 \in Nat
    OBVIOUS
  <2> QED BY <1>1, <2>1
<1>3. (v2 * z3) * z1 <= (v3 * z2) * z1
  <2>1. v2 * z3 \in Nat /\ v3 * z2 \in Nat /\ z1 \in Nat
    OBVIOUS
  <2> QED BY <1>1, <2>1
<1>4. /\ (v1 * z2) * z3 = z2 * (v1 * z3) /\ (v3 * z2) * z1 = z2 * (v3 * z1)
      /\ (v2 * z1) * z3 = (v2 * z3) * z1
  OBVIOUS
<1>5. v1 * z3 \in Int /\ v3 * z1 \in Int /\ z2 * (v1 * z3) \in Int /\ z2 * (v3 * z1) \in Int
      /\ (v2 * z3) * z1 \in Int
  OBVIOUS
<1>6. z2 * (v3 * z1) >= z2 * (v1 * z3)
  BY <1>2, <1>3, <1>4, <1>5
<1> QED BY <1>5, <1>6, CancelFactor

\* Among finitely many fractions one is least.
LEMMA LeastRatio ==
    ASSUME NEW P, IsFiniteSet(P), P # {}, NEW v, NEW z,
           \A s \in P : v[s] \in Nat /\ z[s] \in Nat \ {0}
    PROVE  \E p \in P : \A s \in P : v[p] * z[s] <= v[s] * z[p]
<1> DEFINE First(T, p) == \A s \in T : v[p] * z[s] <= v[s] * z[p]
           Q == {T \in SUBSET P : T # {} /\ ~ \E p \in T : First(T, p)}
<1> SUFFICES ASSUME ~ \E p \in P : First(P, p) PROVE FALSE
  OBVIOUS
<1>1. Q \in SUBSET SUBSET P /\ Q # {}
  OBVIOUS
<1> HIDE DEF Q
<1>2. PICK T \in Q : \A x \in T : (T \ {x}) \notin Q
  BY <1>1, SmallestSubset
<1>3. T \in SUBSET P /\ T # {} /\ \A p \in T : ~First(T, p)
  BY DEF Q
<1>4. PICK x \in T : TRUE
  BY <1>3
<1> DEFINE U == T \ {x}
<1>5. \A s \in T : v[s] \in Nat /\ z[s] \in Nat \ {0}
  BY <1>3
<1>6. v[x] * z[x] <= v[x] * z[x]
  BY <1>5
<1>7. U # {}
  <2>1. ASSUME U = {} PROVE FALSE
    <3>1. \A s \in T : s = x
      BY <2>1
    <3>2. First(T, x)
      BY <1>6, <3>1
    <3> QED BY <1>3, <3>2
  <2> QED BY <2>1
<1>8. PICK p \in U : First(U, p)
  <2>1. U \in SUBSET P /\ U \notin Q
    BY <1>2, <1>3
  <2> QED BY <1>7, <2>1 DEF Q
<1>9. CASE v[p] * z[x] <= v[x] * z[p]
  <2>1. \A s \in T : s \in U \/ s = x
    OBVIOUS
  <2>2. First(T, p)
    BY <1>8, <1>9, <2>1
  <2> QED BY <1>3, <2>2
<1>10. CASE ~(v[p] * z[x] <= v[x] * z[p])
  <2>1. v[x] * z[p] <= v[p] * z[x]
    <3> DEFINE a == v[p] * z[x]
               b == v[x] * z[p]
    <3>1. a \in Int /\ b \in Int /\ ~(a <= b)
      BY <1>5, <1>10
    <3> HIDE DEF a, b
    <3>2. b <= a
      BY <3>1
    <3> QED BY <3>2 DEF a, b
  <2>2. ASSUME NEW s \in T PROVE v[x] * z[s] <= v[s] * z[x]
    <3>1. CASE s = x
      BY <1>6, <3>1
    <3>2. CASE s # x
      <4>1. /\ v[p] * z[s] <= v[s] * z[p]
            /\ v[x] \in Nat /\ v[p] \in Nat /\ v[s] \in Nat
            /\ z[x] \in Nat \ {0} /\ z[p] \in Nat \ {0} /\ z[s] \in Nat \ {0}
        BY <1>5, <1>8, <3>2
      <4> QED BY <2>1, <4>1, RatioTransitive
    <3> QED BY <3>1, <3>2
  <2> QED BY <1>3, <2>2
<1> QED BY <1>9, <1>10

\* v over k are weights, none negative, of the states of T that mix to the prices.
Supports(v, k, T) ==
    /\ T \in SUBSET States /\ v \in [T -> Nat] /\ k \in Nat \ {0}
    /\ \A r \in Rows : Weighted(v, r, T) = Rhs(r) * k

\* States that depend on each other are more than a mixture needs: along the dependency
\* the weights can be moved until the first of them is 0.
LEMMA FewerStates ==
    ASSUME FamilyTyped, NEW v, NEW k, NEW T, Supports(v, k, T), Dependent(T, Rows)
    PROVE  \E p \in T : \E w, j : Supports(w, j, T \ {p})
<1>1. T \in SUBSET States /\ v \in [T -> Nat] /\ k \in Nat \ {0} /\ Ints(v, T)
  BY DEF Supports, Ints
<1>2. PICK y \in [T -> Int] : (\E s \in T : y[s] # 0) /\ \A r \in Rows : Weighted(y, r, T) = 0
  BY DEF Dependent
<1>3. PICK z \in [T -> Int] : (\E s \in T : z[s] > 0) /\ \A r \in Rows : Weighted(z, r, T) = 0
  <2>1. CASE \E s \in T : y[s] > 0
    BY <1>2, <2>1
  <2>2. CASE ~ \E s \in T : y[s] > 0
    <3> DEFINE u == [s \in T |-> (-1) * y[s] + 0 * y[s]]
    <3>1. u \in [T -> Int] /\ \E s \in T : u[s] > 0
      <4>1. PICK s \in T : y[s] \in Int /\ y[s] < 0
        BY <1>2, <2>2
      <4>2. u[s] > 0
        BY <4>1
      <4> QED BY <4>2
    <3>2. Combines(u, -1, y, 0, y, T) /\ Ints(y, T)
      BY DEF Combines, Ints
    <3> HIDE DEF u
    <3>3. ASSUME NEW r \in Rows PROVE Weighted(u, r, T) = 0
      <4>1. Weighted(u, r, T) = (-1) * Weighted(y, r, T) + 0 * Weighted(y, r, T)
        BY <1>1, <3>2, WeightedCombined
      <4> QED BY <1>2, <4>1
    <3> QED BY <3>1, <3>3
  <2> QED BY <2>1, <2>2
<1> DEFINE P == {s \in T : z[s] > 0}
<1>4. IsFiniteSet(P) /\ P # {} /\ \A s \in P : v[s] \in Nat /\ z[s] \in Nat \ {0}
  <2>1. IsFiniteSet(T)
    BY <1>1, NumbersTyped, FS_Subset
  <2>2. IsFiniteSet(P)
    BY <2>1, FS_Subset
  <2> QED BY <1>1, <1>3, <2>2
<1> HIDE DEF P
<1>5. PICK p \in P : \A s \in P : v[p] * z[s] <= v[s] * z[p]
  BY <1>4, LeastRatio
<1>6. p \in T /\ v[p] \in Nat /\ z[p] \in Nat \ {0}
  BY <1>4 DEF P
<1> DEFINE a == z[p]
           b == -v[p]
           d == [s \in T |-> a * v[s] + b * z[s]]
           U == T \ {p}
           w == [s \in U |-> d[s]]
           j == a * k
<1>7. a \in Nat \ {0} /\ b \in Int /\ j \in Nat \ {0}
  BY <1>1, <1>6
<1>8. d \in [T -> Int] /\ Combines(d, a, v, b, z, T) /\ Ints(z, T)
  BY <1>1, <1>7 DEF Combines, Ints
<1>9. d[p] = 0
  <2>1. z[p] * v[p] + (-v[p]) * z[p] = 0
    BY <1>6
  <2> QED BY <1>6, <2>1
<1>10. ASSUME NEW s \in T PROVE d[s] >= 0
  <2>1. v[s] \in Nat /\ z[s] \in Int /\ v[p] \in Nat /\ z[p] \in Nat
    BY <1>1, <1>6
  <2>2. d[s] = z[p] * v[s] + (-v[p]) * z[s]
    OBVIOUS
  <2>3. (-v[p]) * z[s] = -(v[p] * z[s]) /\ v[p] * z[s] \in Int
        /\ z[p] * v[s] = v[s] * z[p] /\ v[s] * z[p] \in Nat
    BY <2>1
  <2>4. v[p] * z[s] <= v[s] * z[p]
    <3>1. CASE s \in P
      BY <1>5, <3>1
    <3>2. CASE s \notin P
      <4>1. -z[s] \in Nat
        BY <2>1, <3>2 DEF P
      <4>2. \A m \in Nat, n \in Nat : m * n >= 0
        OBVIOUS
      <4>3. v[p] * (-z[s]) >= 0 /\ v[p] * (-z[s]) = -(v[p] * z[s])
        BY <2>1, <4>1, <4>2
      <4> QED BY <2>3, <4>3
    <3> QED BY <3>1, <3>2
  <2> HIDE DEF d
  <2> QED BY <2>2, <2>3, <2>4
<1> HIDE DEF a, b, d, j
<1>11. w \in [U -> Nat] /\ \A s \in U : w[s] = d[s]
  BY <1>8, <1>10
<1> HIDE DEF w
<1>12. ASSUME NEW r \in Rows PROVE Weighted(w, r, U) = Rhs(r) * j
  <2>1. Weighted(d, r, T) = a * Weighted(v, r, T) + b * Weighted(z, r, T)
    BY <1>1, <1>7, <1>8, WeightedCombined
  <2>2. Weighted(v, r, T) = Rhs(r) * k /\ Weighted(z, r, T) = 0 /\ Rhs(r) \in Int
    BY <1>3, NumbersTyped DEF Supports
  <2>3. a * (Rhs(r) * k) = Rhs(r) * j /\ Rhs(r) * j \in Int /\ b * 0 = 0
    BY <1>1, <1>7, <2>2 DEF j
  <2>4. Weighted(d, r, T) = Rhs(r) * j
    BY <2>1, <2>2, <2>3
  <2>5. Ints(d, T) /\ \A s \in T \ U : d[s] = 0
    BY <1>8, <1>9 DEF Ints
  <2> HIDE DEF U
  <2>6. U \in SUBSET T
    BY DEF U
  <2>7. Weighted(d, r, U) = Weighted(d, r, T)
    BY <1>1, <2>5, <2>6, WeightedOfPart
  <2>8. Weighted(w, r, U) = Weighted(d, r, U)
    BY <1>11, WeightedSame
  <2> QED BY <2>4, <2>7, <2>8
<1>13. Supports(w, j, U)
  BY <1>1, <1>7, <1>11, <1>12 DEF Supports
<1> QED BY <1>6, <1>13

\* So a mixture needs independent states only.
LEMMA IndependentSupport ==
    ASSUME FamilyTyped, NEW v, NEW k, NEW S, Supports(v, k, S)
    PROVE  \E w, j, T : Supports(w, j, T) /\ ~Dependent(T, Rows)
<1> DEFINE Q == {T \in SUBSET States : \E w, j : Supports(w, j, T)}
<1>1. Q \in SUBSET SUBSET States /\ IsFiniteSet(States) /\ Q # {}
  <2>1. S \in Q
    BY DEF Supports
  <2> QED BY <2>1, NumbersTyped
<1> HIDE DEF Q
<1>2. PICK T \in Q : \A p \in T : (T \ {p}) \notin Q
  BY <1>1, SmallestSubset
<1>3. PICK w, j : Supports(w, j, T)
  BY DEF Q
<1>4. ASSUME Dependent(T, Rows) PROVE FALSE
  <2>1. PICK p \in T : \E u, i : Supports(u, i, T \ {p})
    BY <1>3, <1>4, FewerStates
  <2>2. (T \ {p}) \in Q
    BY <2>1 DEF Q, Supports
  <2> QED BY <1>2, <2>2
<1> QED BY <1>3, <1>4

\* A subsystem that determines the weights of its states finds the mixture, with nothing
\* left over.
LEMMA MixtureFits ==
    ASSUME FamilyTyped, NEW v, NEW k, NEW T, Supports(v, k, T), NEW R \in SUBSET Rows,
           Cardinality(R) = Cardinality(T), ~Dependent(T, R), NEW tie
    PROVE  Fits(T, R, tie)
<1> DEFINE x == Solve(T, R)
           e == x.den
           n == x.num
           b == -e
           d == [s \in T |-> k * n[s] + b * v[s]]
           bound == Tolerance * Size(e)
<1>1. T \in SUBSET States /\ v \in [T -> Nat] /\ k \in Nat \ {0} /\ Ints(v, T)
  BY DEF Supports, Ints
<1>2. /\ e \in Int \ {0} /\ n \in [T -> Int] /\ Ints(n, T)
      /\ \A r \in R : Weighted(n, r, T) = Rhs(r) * e
  BY <1>1, SolveIsExact DEF Ints
<1>3. bound \in Nat \ {0}
  <2>1. Tolerance \in Nat \ {0} /\ Size(e) \in Nat \ {0}
    BY <1>2, UnitAssumption DEF Size
  <2> HIDE DEF e
  <2> QED BY <2>1
<1>4. b \in Int /\ d \in [T -> Int] /\ Combines(d, k, n, b, v, T)
  BY <1>1, <1>2 DEF Combines
<1>5. e # 0 /\ x.den = e /\ x.num = n /\ Solve(T, R) = x
  BY <1>2
<1>6. \A s \in T : d[s] = k * n[s] + (-e) * v[s]
  OBVIOUS
<1> HIDE DEF x, e, n, d, b
<1>7. ASSUME NEW r \in R PROVE Weighted(d, r, T) = 0
  <2>1. r \in Rows /\ Rhs(r) \in Int
    BY NumbersTyped
  <2>2. Weighted(d, r, T) = k * Weighted(n, r, T) + b * Weighted(v, r, T)
    BY <1>1, <1>2, <1>4, <2>1, WeightedCombined
  <2>3. Weighted(n, r, T) = Rhs(r) * e /\ Weighted(v, r, T) = Rhs(r) * k
    BY <1>2, <2>1 DEF Supports
  <2> DEFINE q == Rhs(r)
  <2>4. k * (q * e) + (-e) * (q * k) = 0
    <3>1. q \in Int /\ k \in Int /\ e \in Int
      BY <1>1, <1>2, <2>1
    <3> HIDE DEF q
    <3>2. k * (q * e) = e * (q * k) /\ e * (q * k) \in Int
      BY <3>1
    <3>3. (-e) * (q * k) = -(e * (q * k))
      BY <3>1
    <3> QED BY <3>2, <3>3
  <2> QED BY <2>2, <2>3, <2>4 DEF b
<1>8. \A s \in T : d[s] = 0
  BY <1>4, <1>7 DEF Dependent
<1>9. \A s \in T : k * n[s] = e * v[s]
  <2> SUFFICES ASSUME NEW s \in T PROVE k * n[s] = e * v[s]
    OBVIOUS
  <2>1. k * n[s] + (-e) * v[s] = 0
    BY <1>6, <1>8
  <2>2. k \in Int /\ n[s] \in Int /\ e \in Int /\ v[s] \in Int
    BY <1>1, <1>2
  <2>3. (-e) * v[s] = -(e * v[s]) /\ e * v[s] \in Int /\ k * n[s] \in Int
    BY <2>2
  <2> QED BY <2>1, <2>3
<1>10. ASSUME NEW r \in Rows
       PROVE  AtMost(Size(Weighted(n, r, T) - Rhs(r) * e), bound, tie)
  <2> DEFINE f == [s \in T |-> k * n[s] + 0 * n[s]]
  <2>1. Combines(f, k, n, 0, n, T)
    BY DEF Combines
  <2>2. Combines(f, e, v, 0, v, T)
    <3>1. ASSUME NEW s \in T PROVE f[s] = e * v[s] + 0 * v[s]
      <4>1. k \in Int /\ n[s] \in Int /\ v[s] \in Int /\ k * n[s] = e * v[s]
        BY <1>1, <1>2, <1>9
      <4>2. 0 * n[s] = 0 /\ 0 * v[s] = 0
        BY <4>1
      <4> QED BY <4>1, <4>2
    <3> QED BY <3>1 DEF Combines
  <2> HIDE DEF f
  <2> DEFINE wn == Weighted(n, r, T)
             wv == Weighted(v, r, T)
             q  == Rhs(r)
  <2>3. wn \in Int /\ wv \in Int /\ q \in Int /\ wv = q * k
    BY <1>1, <1>2, WeightedTyped, NumbersTyped DEF Supports
  <2>4. Weighted(f, r, T) = k * wn + 0 * wn
    BY <1>1, <1>2, <2>1, WeightedCombined
  <2>5. Weighted(f, r, T) = e * wv + 0 * wv
    BY <1>1, <1>2, <2>2, WeightedCombined
  <2> HIDE DEF wn, wv, q
  <2>6. k * wn = e * wv
    <3>1. k * wn \in Int /\ e * wv \in Int /\ 0 * wn = 0 /\ 0 * wv = 0
      BY <1>1, <1>2, <2>3
    <3> QED BY <2>4, <2>5, <3>1
  <2>7. k * (wn - q * e) = 0
    <3>1. e * wv = k * (q * e)
      BY <1>1, <1>2, <2>3
    <3>2. q * e \in Int
      BY <1>2, <2>3
    <3>3. k * (wn - q * e) = k * wn - k * (q * e) /\ k * (q * e) \in Int
      BY <1>1, <2>3, <3>2
    <3> QED BY <2>6, <3>1, <3>3
  <2>8. wn - q * e = 0
    <3>1. q * e \in Int
      BY <1>2, <2>3
    <3>2. wn - q * e \in Int /\ k \in Int \ {0}
      BY <1>1, <2>3, <3>1
    <3> QED BY <2>7, <3>2, NoZeroDivisor
  <2>9. AtMost(Size(wn - q * e), bound, tie)
    <3>1. Size(wn - q * e) = 0
      BY <2>8 DEF Size
    <3> HIDE DEF bound
    <3> QED BY <1>3, <3>1 DEF AtMost
  <2> QED BY <2>9 DEF wn, q
<1>11. ASSUME NEW s \in T
       PROVE  AtMost(IF e > 0 THEN -n[s] ELSE n[s], bound, tie)
  <2>1. k \in Nat \ {0} /\ n[s] \in Int /\ e \in Int \ {0} /\ v[s] \in Nat /\ k * n[s] = e * v[s]
    BY <1>1, <1>2, <1>9
  <2>2. \A m \in Nat, i \in Nat : m * i >= 0
    OBVIOUS
  <2> HIDE DEF bound
  <2>3. CASE e > 0
    <3>1. e * v[s] >= 0
      BY <2>1, <2>2, <2>3
    <3>2. k * n[s] >= k * 0
      BY <2>1, <3>1
    <3>3. n[s] >= 0
      BY <2>1, <3>2, CancelFactor
    <3> QED BY <1>3, <2>1, <2>3, <3>3 DEF AtMost
  <2>4. CASE ~(e > 0)
    <3>1. -e \in Nat /\ (-e) * v[s] >= 0
      BY <2>1, <2>2, <2>4
    <3>2. (-e) * v[s] = -(e * v[s]) /\ e * v[s] \in Int
      BY <2>1
    <3>3. k * 0 >= k * n[s]
      BY <2>1, <3>1, <3>2
    <3>4. 0 >= n[s]
      BY <2>1, <3>3, CancelFactor
    <3> QED BY <1>3, <2>1, <2>4, <3>4 DEF AtMost
  <2> QED BY <2>3, <2>4
<1>12. SmallResidual(x, T, tie) /\ NoNegativeWeight(x, T, tie)
  BY <1>5, <1>10, <1>11 DEF SmallResidual, NoNegativeWeight, Weighted, bound
<1> QED BY <1>5, <1>12 DEF Fits

\* The number of states and rows is among the widths that are tried.
LEMMA WidthIsTried ==
    ASSUME FamilyTyped, NEW T \in SUBSET States, T # {}, NEW R \in SUBSET Rows,
           Cardinality(R) = Cardinality(T)
    PROVE  Cardinality(T) \in Widths
<1> DEFINE a == Len(family.states)
           b == Len(price) + 1
           n == Cardinality(T)
           m == Len(family.states[1])
<1>1. /\ a \in Nat /\ m \in Nat /\ States = 1..a /\ Contracts = 1..m
      /\ IsFiniteSet(States) /\ IsFiniteSet(Rows)
  BY NumbersTyped
<1>2. Len(price) = m
  <2>1. price \in [1..m -> Int]
    BY DEF FamilyTyped
  <2> QED BY <1>1, <2>1
<1>3. Cardinality(States) = a
  BY <1>1, FS_Interval
<1>4. Cardinality(Rows) = b
  <2>1. Rows = 0..m
    BY <1>1 DEF Rows
  <2>2. Cardinality(0..m) = m - 0 + 1
    BY <1>1, FS_Interval
  <2> QED BY <1>1, <1>2, <2>1, <2>2
<1>5. n <= a /\ n <= b /\ n \in Nat
  <2>1. Cardinality(T) <= Cardinality(States) /\ Cardinality(R) <= Cardinality(Rows)
    BY <1>1, FS_Subset
  <2>2. IsFiniteSet(T)
    BY <1>1, FS_Subset
  <2> QED BY <1>3, <1>4, <2>1, <2>2, FS_CardinalityType
<1>6. n # 0
  <2>1. IsFiniteSet(T)
    BY <1>1, FS_Subset
  <2> QED BY <2>1, FS_EmptySet
<1>7. a \in Int /\ b \in Int
  BY <1>1, <1>2
<1> HIDE DEF a, b, n
<1>8. Min({a, b}) \in {a, b}
  <2>1. {a, b} \in SUBSET Int /\ IsFiniteSet({a, b}) /\ {a, b} # {}
    <3>1. {a, b} = {a} \cup {b} /\ IsFiniteSet({a}) /\ IsFiniteSet({b})
      BY FS_Singleton
    <3>2. IsFiniteSet({a} \cup {b})
      BY <3>1, FS_Union
    <3>3. IsFiniteSet({a, b})
      BY <3>1, <3>2
    <3> QED BY <1>7, <3>3
  <2> QED BY <2>1, MinIsLeast
<1>9. n \in 1..Min({a, b})
  BY <1>1, <1>5, <1>6, <1>7, <1>8
<1> QED BY <1>9 DEF Widths, a, b, n

\* So the hull has every mixture, however a last bit falls.
LEMMA MixtureInHull ==
    ASSUME FamilyTyped, NEW v, NEW k, NEW S, Supports(v, k, S), NEW tie
    PROVE  InHull(tie)
<1>1. PICK w, j, T : Supports(w, j, T) /\ ~Dependent(T, Rows)
  BY IndependentSupport
<1>2. T \in SUBSET States
  BY <1>1 DEF Supports
<1>3. PICK R \in SUBSET Rows : Cardinality(R) = Cardinality(T) /\ ~Dependent(T, R)
  BY <1>1, <1>2, IndependentRows
<1>4. Fits(T, R, tie)
  BY <1>1, <1>3, MixtureFits
<1>5. T # {}
  <2>1. ASSUME T = {} PROVE FALSE
    <3>1. 0 \in Rows /\ Rhs(0) = Unit /\ Unit \in Nat \ {0} /\ j \in Nat \ {0}
      BY <1>1, UnitAssumption DEF Rows, Rhs, Supports
    <3>2. Weighted(w, 0, {}) = Unit * j
      BY <1>1, <2>1, <3>1 DEF Supports
    <3> DEFINE f == [s \in {} |-> w[s] * Entry(0, s)]
    <3>3. \A s \in {} : f[s] = 0
      OBVIOUS
    <3> HIDE DEF f
    <3>4. Sum(f, {}) = 0
      BY <3>3, FS_EmptySet, SumZero
    <3>5. Unit * j = 0
      BY <3>2, <3>4 DEF Weighted, f
    <3> QED BY <3>1, <3>5
  <2> QED BY <2>1
<1>6. Cardinality(T) \in Widths
  BY <1>2, <1>3, <1>5, WidthIsTried
<1>7. T \in kSubset(Cardinality(T), States) /\ R \in kSubset(Cardinality(T), Rows)
  BY <1>2, <1>3 DEF kSubset
<1> QED BY <1>4, <1>6, <1>7 DEF InHull

\* A mixture of the states, in parts, is one with weights in parts of Unit.
LEMMA MixtureSupports ==
    ASSUME FamilyTyped, NEW w \in Weights(Len(family.states)), price = Mixed(family.states, w)
    PROVE  \E v : Supports(v, 1, States)
<1> DEFINE m == Unit \div Parts
           v == [s \in States |-> m * w[s]]
<1>1. /\ States = 1..Len(family.states) /\ IsFiniteSet(States)
      /\ Contracts = 1..Len(family.states[1]) /\ 1 \in States
      /\ \A s \in States : family.states[s] \in [Contracts -> Int]
  <2>1. /\ Len(family.states) \in Nat \ {0} /\ States = 1..Len(family.states)
    BY NumbersTyped
  <2> QED BY <2>1, NumbersTyped
<1>2. m \in Nat /\ m * Parts = Unit
  <2> DEFINE u == Unit
             p == Parts
  <2>1. u \in Nat /\ p \in Nat \ {0} /\ u % p = 0
    BY UnitAssumption
  <2> HIDE DEF u, p
  <2>2. u \div p \in Nat /\ u = p * (u \div p) + (u % p)
    BY <2>1, Z3
  <2>3. (u \div p) * p = p * (u \div p)
    BY <2>1, <2>2
  <2> QED BY <2>1, <2>2, <2>3 DEF u, p
<1>3. /\ w \in [States -> Nat] /\ Sum(w, States) = Parts /\ Ints(w, States)
  <2>1. Parts \in Nat
    BY UnitAssumption
  <2> QED BY <1>1, <2>1 DEF Weights, Ints
<1> HIDE DEF m
<1>4. v \in [States -> Nat] /\ \A s \in States : v[s] = m * w[s]
  <2>1. ASSUME NEW s \in States PROVE m * w[s] \in Nat
    <3>1. w[s] \in Nat
      BY <1>3
    <3> QED BY <1>2, <3>1
  <2> QED BY <2>1
<1> HIDE DEF v
<1>5. Weighted(v, 0, States) = Rhs(0) * 1
  <2> DEFINE f == [s \in States |-> v[s] * Entry(0, s)]
  <2>1. ASSUME NEW s \in States PROVE f[s] = m * w[s] + 0 * w[s]
    <3>1. w[s] \in Int /\ Entry(0, s) = 1 /\ v[s] = m * w[s]
      BY <1>3, <1>4 DEF Entry
    <3>2. m * w[s] \in Int /\ 0 * w[s] = 0
      BY <1>2, <3>1
    <3> QED BY <3>1, <3>2
  <2> HIDE DEF f
  <2>2. Combines(f, m, w, 0, w, States)
    BY <2>1 DEF Combines
  <2>3. Sum(f, States) = m * Sum(w, States) + 0 * Sum(w, States)
    BY <1>1, <1>2, <1>3, <2>2, SumLinear
  <2>4. Parts \in Int /\ Unit \in Int
    BY UnitAssumption
  <2>5. Sum(f, States) = Unit
    BY <1>2, <1>3, <2>3, <2>4
  <2> QED BY <2>4, <2>5 DEF Weighted, Rhs, f
<1>6. ASSUME NEW c \in Contracts PROVE Weighted(v, c, States) = Rhs(c) * 1
  <2> DEFINE f == [s \in States |-> v[s] * Entry(c, s)]
             g == [s \in States |-> w[s] * family.states[s][c]]
  <2>1. c # 0 /\ c \in Rows
    BY NumbersTyped DEF Rows
  <2>2. ASSUME NEW s \in States PROVE g[s] \in Int /\ f[s] = m * g[s] + 0 * g[s]
    <3> DEFINE e == family.states[s][c]
    <3>1. w[s] \in Int /\ e \in Int /\ Entry(c, s) = e /\ v[s] = m * w[s]
      BY <1>1, <1>3, <1>4, <2>1 DEF Entry
    <3>2. f[s] = (m * w[s]) * e /\ g[s] = w[s] * e
      BY <3>1
    <3> HIDE DEF e, f, g
    <3>3. (m * w[s]) * e = m * (w[s] * e) /\ w[s] * e \in Int /\ m * (w[s] * e) \in Int
      BY <1>2, <3>1
    <3> QED BY <3>2, <3>3
  <2>3. price[c] = Sum(g, States) * m
    <3>1. DOMAIN family.states[1] = Contracts
      BY <1>1
    <3> QED BY <3>1 DEF Mixed, States, m
  <2> HIDE DEF f, g
  <2>4. Combines(f, m, g, 0, g, States) /\ Ints(g, States)
    BY <2>2 DEF Combines, Ints
  <2>5. Sum(f, States) = m * Sum(g, States) + 0 * Sum(g, States) /\ Sum(g, States) \in Int
    BY <1>1, <1>2, <2>4, SumLinear, SumLaws
  <2>6. Sum(f, States) = Sum(g, States) * m /\ Sum(g, States) * m \in Int
    BY <1>2, <2>5
  <2> QED BY <2>1, <2>3, <2>6 DEF Weighted, Rhs, f
<1>7. Supports(v, 1, States)
  BY <1>4, <1>5, <1>6 DEF Supports, Rows
<1> QED BY <1>7

\* Of a mixture, a contract that pays no more than another in every state costs no more.
LEMMA PriceOrder ==
    ASSUME FamilyTyped, NEW v, Supports(v, 1, States), NEW a \in Contracts, NEW b \in Contracts,
           \A s \in States : family.states[s][a] <= family.states[s][b]
    PROVE  price[a] \in Int /\ price[b] \in Int /\ price[a] <= price[b]
<1> DEFINE f == [s \in States |-> v[s] * Entry(a, s)]
           g == [s \in States |-> v[s] * Entry(b, s)]
<1>1. IsFiniteSet(States) /\ a # 0 /\ b # 0 /\ a \in Rows /\ b \in Rows /\ v \in [States -> Nat]
  BY NumbersTyped DEF Rows, Supports
<1>2. Ints(v, States)
  BY <1>1 DEF Ints
<1>3. Ints(f, States) /\ Ints(g, States)
  <2>1. States \in SUBSET States
    OBVIOUS
  <2> QED BY <1>1, <1>2, <2>1, WeightedTyped
<1>4. ASSUME NEW s \in States PROVE f[s] <= g[s]
  <2> DEFINE p == family.states[s][a]
             q == family.states[s][b]
             n == v[s]
  <2>1. p \in Int /\ q \in Int /\ p <= q /\ n \in Nat /\ f[s] = n * p /\ g[s] = n * q
    BY <1>1, NumbersTyped DEF Entry
  <2> HIDE DEF p, q, n, f, g
  <2>2. q - p \in Nat /\ \A m \in Nat, i \in Nat : m * i >= 0
    BY <2>1
  <2>3. n * (q - p) >= 0 /\ n * (q - p) = n * q - n * p /\ n * q \in Int /\ n * p \in Int
    BY <2>1, <2>2
  <2> QED BY <2>1, <2>3
<1> HIDE DEF f, g
<1>5. Sum(f, States) <= Sum(g, States)
  BY <1>1, <1>3, <1>4, SumMonotone
<1>6. Sum(f, States) = price[a] * 1 /\ Sum(g, States) = price[b] * 1
      /\ price[a] \in Int /\ price[b] \in Int
  <2>1. Weighted(v, a, States) = Rhs(a) * 1 /\ Weighted(v, b, States) = Rhs(b) * 1
    BY <1>1 DEF Supports
  <2>2. Rhs(a) = price[a] /\ Rhs(b) = price[b] /\ Rhs(a) \in Int /\ Rhs(b) \in Int
    BY <1>1, NumbersTyped DEF Rhs
  <2> QED BY <2>1, <2>2 DEF Weighted, f, g
<1> QED BY <1>5, <1>6

\* The prices of a mixture add up to the mixture of what the contracts pay together.
LEMMA TotalIsMixed ==
    ASSUME FamilyTyped, NEW v, Supports(v, 1, States)
    PROVE  LET paid == [s \in States |-> Sum(family.states[s], Contracts)]
               g == [s \in States |-> v[s] * paid[s]]
           IN  /\ Ints(paid, States) /\ Ints(g, States)
               /\ Total = Sum(g, States)
<1> DEFINE paid == [s \in States |-> Sum(family.states[s], Contracts)]
           g == [s \in States |-> v[s] * paid[s]]
           h == [c \in Contracts |-> 1]
           f == [c \in Contracts |-> h[c] * Weighted(v, c, States)]
<1>1. /\ IsFiniteSet(States) /\ IsFiniteSet(Contracts) /\ v \in [States -> Int]
      /\ h \in Portfolios /\ States \in SUBSET States
  BY NumbersTyped DEF Supports, Portfolios
<1>2. Sum(f, Contracts) = Sum([s \in States |-> v[s] * Payoff(h, s)], States)
  BY <1>1, MixedPayoff
<1>3. ASSUME NEW s \in States PROVE paid[s] \in Int /\ Payoff(h, s) = paid[s] /\ g[s] \in Int
  <2> DEFINE u == family.states[s]
             p == [c \in Contracts |-> h[c] * u[c]]
  <2>1. u \in [Contracts -> Int]
    BY NumbersTyped
  <2>2. Ints(u, Contracts) /\ \A c \in Contracts : p[c] = u[c]
    BY <2>1 DEF Ints
  <2>3. paid[s] = Sum(u, Contracts) /\ Payoff(h, s) = Sum(p, Contracts)
    BY DEF Payoff
  <2> HIDE DEF u, p
  <2>4. Sum(p, Contracts) = Sum(u, Contracts) /\ Sum(u, Contracts) \in Int
    BY <1>1, <2>2, SumSame, SumLaws
  <2>5. v[s] \in Int /\ g[s] = v[s] * paid[s]
    BY <1>1
  <2> HIDE DEF paid, g
  <2> QED BY <2>3, <2>4, <2>5
<1>4. [s \in States |-> v[s] * Payoff(h, s)] = g
  BY <1>3
<1>5. ASSUME NEW c \in Contracts PROVE price[c] \in Int /\ f[c] = price[c]
  <2>1. c \in Rows /\ Rhs(c) = price[c] /\ Rhs(c) \in Int
    BY NumbersTyped DEF Rows, Rhs
  <2>2. Weighted(v, c, States) = Rhs(c) * 1
    BY <2>1 DEF Supports
  <2> QED BY <2>1, <2>2
<1> HIDE DEF f, g, paid, h
<1>6. Ints(price, Contracts)
  BY <1>5 DEF Ints
<1>7. Sum(f, Contracts) = Sum(price, Contracts)
  BY <1>1, <1>5, <1>6, SumSame
<1>8. Total = Sum(g, States)
  BY <1>2, <1>4, <1>7 DEF Total
<1> QED BY <1>3, <1>8 DEF Ints, g, paid

\* If the states are what the type says of the contracts, a mixture keeps the type's bound.
LEMMA MixtureKeepsBound ==
    ASSUME FamilyTyped, NEW v, Supports(v, 1, States), Honoured, ~Blocked, NEW tie
    PROVE  WithinBound(tie)
<1> DEFINE paid == [s \in States |-> Sum(family.states[s], Contracts)]
           g == [s \in States |-> v[s] * paid[s]]
           f == [s \in States |-> v[s] * Entry(0, s)]
<1>1. /\ IsFiniteSet(States) /\ v \in [States -> Nat] /\ Ints(v, States)
      /\ Tolerance \in Nat \ {0} /\ Unit \in Nat
  <2>1. IsFiniteSet(States) /\ v \in [States -> Nat]
    BY NumbersTyped DEF Supports
  <2> QED BY <2>1, UnitAssumption DEF Ints
<1>2. Ints(paid, States) /\ Ints(g, States) /\ Total = Sum(g, States)
  BY TotalIsMixed
<1>3. Sum(f, States) = Unit /\ \A s \in States : f[s] = v[s] /\ v[s] \in Nat
  <2>1. Weighted(v, 0, States) = Rhs(0) * 1 /\ Rhs(0) = Unit
    BY DEF Supports, Rows, Rhs
  <2>2. Weighted(v, 0, States) = Sum(f, States)
    BY DEF Weighted
  <2>3. \A s \in States : f[s] = v[s] /\ v[s] \in Nat
    BY <1>1 DEF Entry
  <2> QED BY <1>1, <2>1, <2>2, <2>3
<1>4. \A s \in States : paid[s] = Sum(family.states[s], Contracts) /\ g[s] = v[s] * paid[s]
  OBVIOUS
<1> HIDE DEF f, g, paid
<1>5. Ints(f, States) /\ Total \in Int
  <2>1. Ints(f, States)
    BY <1>3 DEF Ints
  <2> QED BY <1>1, <1>2, <2>1, SumLaws
<1>6. 3 <= Len(price) /\ Len(price) \in Nat /\ Contracts = 1..Len(price)
  <2>1. Len(price) \in 3..8
    BY DEF Blocked
  <2>2. Contracts = 1..Len(family.states[1]) /\ Len(family.states[1]) \in Nat
    BY NumbersTyped
  <2>3. price \in [1..Len(family.states[1]) -> Int]
    BY DEF FamilyTyped
  <2>4. Len(price) = Len(family.states[1])
    BY <2>2, <2>3
  <2> DEFINE n == Len(price)
  <2> HIDE DEF n
  <2>5. n \in 3..8 /\ Contracts = 1..n
    BY <2>1, <2>2, <2>4 DEF n
  <2>6. 3 <= n /\ n \in Nat
    BY <2>5
  <2> QED BY <2>5, <2>6 DEF n
<1>7. CASE family.type = "exhaustive_group"
  <2>1. \A s \in States : paid[s] = 1
    BY <1>4, <1>7 DEF Honoured
  <2>2. \A s \in States : g[s] = f[s]
    BY <1>3, <1>4, <2>1
  <2>3. Sum(g, States) = Sum(f, States)
    BY <1>1, <1>5, <2>2, SumSame
  <2>4. Total - Unit = 0
    BY <1>1, <1>2, <1>3, <2>3
  <2>5. AtMost(Size(Total - Unit), Tolerance, tie)
    BY <1>1, <2>4 DEF AtMost, Size
  <2> QED BY <1>7, <2>5 DEF WithinBound
<1>8. CASE family.type = "mutually_exclusive_group"
  <2>1. \A s \in States : paid[s] <= 1
    BY <1>4, <1>8 DEF Honoured
  <2>2. ASSUME NEW s \in States PROVE g[s] <= f[s]
    <3> DEFINE n == v[s]
               p == paid[s]
    <3>1. n \in Nat /\ p \in Int /\ p <= 1 /\ g[s] = n * p /\ f[s] = n
      BY <1>2, <1>3, <1>4, <2>1 DEF Ints
    <3> HIDE DEF n, p
    <3>2. 1 - p \in Nat /\ \A m \in Nat, i \in Nat : m * i >= 0
      BY <3>1
    <3>3. n * (1 - p) >= 0 /\ n * (1 - p) = n - n * p /\ n * p \in Int
      BY <3>1, <3>2
    <3> QED BY <3>1, <3>3
  <2>3. Sum(g, States) <= Sum(f, States)
    BY <1>1, <1>2, <1>5, <2>2, SumMonotone
  <2>4. Total - Unit <= 0
    BY <1>1, <1>2, <1>3, <1>5, <2>3
  <2>5. AtMost(Total - Unit, Tolerance, tie)
    BY <1>1, <1>5, <2>4 DEF AtMost
  <2> QED BY <1>8, <2>5 DEF WithinBound
<1>9. CASE family.type = "child_parent"
  <2>1. 1 \in Contracts /\ 2 \in Contracts
    BY <1>6
  <2>2. \A s \in States : family.states[s][1] <= family.states[s][2]
    BY <1>9 DEF Honoured
  <2>3. price[1] \in Int /\ price[2] \in Int /\ price[1] <= price[2]
    BY <2>1, <2>2, PriceOrder
  <2>4. AtMost(price[1] - price[2], Tolerance, tie)
    BY <1>1, <2>3 DEF AtMost
  <2> QED BY <1>9, <2>4 DEF WithinBound
<1>10. CASE family.type = "threshold_ladder"
  <2>1. ASSUME NEW c \in Contracts \ {Len(price)}
        PROVE  AtMost(price[c] - price[c + 1], Tolerance, tie)
    <3>1. c \in Contracts /\ c + 1 \in Contracts
      BY <1>6
    <3>2. \A s \in States : family.states[s][c] <= family.states[s][c + 1]
      BY <1>10, <2>1 DEF Honoured
    <3>3. price[c] \in Int /\ price[c + 1] \in Int /\ price[c] <= price[c + 1]
      BY <3>1, <3>2, PriceOrder
    <3> QED BY <1>1, <3>3 DEF AtMost
  <2> QED BY <1>10, <2>1 DEF WithinBound
<1>11. family.type \in Types
  BY DEF Blocked
<1> QED BY <1>7, <1>8, <1>9, <1>10, <1>11 DEF Types

-------------------------------------------------------------------------------
\* What holds in every state, of mixtures: they are mixtures, and an infeasible verdict is
\* of a family that was not blocked, and comes from the hull or from the bound.
MixtureInv ==
    /\ mixture => \E w \in Weights(Len(family.states)) : price = Mixed(family.states, w)
    /\ verdict = "infeasible" =>
          ~Blocked /\ \E tie \in BOOLEAN : ~(InHull(tie) /\ WithinBound(tie))

\* So are the bound and what blocks the diagnostic.
LEMMA BoundUnchanged ==
    ASSUME family' = family, price' = price, NEW tie
    PROVE  WithinBound(tie)' = WithinBound(tie) /\ Blocked' = Blocked
<1>1. Contracts' = Contracts /\ Total' = Total
  BY DEF Contracts, Total
<1> QED BY <1>1 DEF WithinBound, Blocked

\* What stays the same keeps it.
LEMMA MixtureUnchanged ==
    ASSUME family' = family, price' = price, mixture' = mixture, verdict' = verdict, MixtureInv
    PROVE  MixtureInv'
<1>1. mixture' => \E w \in Weights(Len(family'.states)) : price' = Mixed(family'.states, w)
  BY DEF MixtureInv
<1>2. ASSUME verdict' = "infeasible"
      PROVE  ~Blocked' /\ \E tie \in BOOLEAN : ~(InHull(tie)' /\ WithinBound(tie)')
  <2>1. PICK tie \in BOOLEAN : ~(InHull(tie) /\ WithinBound(tie))
    BY <1>2 DEF MixtureInv
  <2>2. ~(InHull(tie)' /\ WithinBound(tie)') /\ ~Blocked'
    BY <1>2, <2>1, HullUnchanged, BoundUnchanged DEF MixtureInv
  <2> QED BY <2>2
<1> QED BY <1>1, <1>2 DEF MixtureInv

\* Square subsystems are enough: by the time the diagnostic calls prices infeasible it has
\* tried one that finds any mixture there is (_convex_hull_feasible), and the bound of the
\* type cannot refuse a mixture of states that keep it (_family_violations).
THEOREM MixturesAreNeverRefused == Spec => []MixturesAreFeasible
<1> DEFINE Inv == FamilyInv /\ MixtureInv
<1>1. Init => Inv
  <2> SUFFICES ASSUME Init PROVE Inv
    OBVIOUS
  <2>1. FamilyInv
    BY InitFamilyInv
  <2>2. MixtureInv
    BY DEF Init, MixtureInv
  <2> QED BY <2>1, <2>2
<1>2. Inv /\ [Next]_vars => Inv'
  <2> SUFFICES ASSUME Inv, [Next]_vars PROVE Inv'
    OBVIOUS
  <2>1. FamilyInv'
    BY FamilyInvKept
  <2>2. CASE Diagnose
    <3>1. /\ family' = family /\ price' = price /\ mixture' = mixture
          /\ verdict' \in Outcomes
      BY <2>2 DEF Diagnose
    <3>2. mixture' => \E w \in Weights(Len(family'.states)) : price' = Mixed(family'.states, w)
      BY <3>1 DEF MixtureInv
    <3>3. ASSUME verdict' = "infeasible"
          PROVE  ~Blocked' /\ \E tie \in BOOLEAN : ~(InHull(tie)' /\ WithinBound(tie)')
      <4>1. ~Blocked /\ \E tie \in BOOLEAN : ~(InHull(tie) /\ WithinBound(tie))
        BY <3>1, <3>3 DEF Outcomes
      <4>2. PICK tie \in BOOLEAN : ~(InHull(tie) /\ WithinBound(tie))
        BY <4>1
      <4>3. ~(InHull(tie)' /\ WithinBound(tie)') /\ ~Blocked'
        BY <3>1, <4>1, <4>2, HullUnchanged, BoundUnchanged
      <4> QED BY <4>3
    <3>4. MixtureInv'
      BY <3>2, <3>3 DEF MixtureInv
    <3> QED BY <2>1, <3>4
  <2>3. CASE UNCHANGED vars
    <3>1. MixtureInv'
      BY <2>3, MixtureUnchanged DEF vars
    <3> QED BY <2>1, <3>1
  <2> QED BY <2>2, <2>3 DEF Next
<1>3. Inv => MixturesAreFeasible
  <2> SUFFICES ASSUME Inv, verdict = "infeasible", mixture, Honoured PROVE FALSE
    BY DEF MixturesAreFeasible
  <2>1. FamilyTyped /\ ~Blocked
    BY DEF FamilyInv, MixtureInv
  <2>2. PICK tie \in BOOLEAN : ~(InHull(tie) /\ WithinBound(tie))
    BY DEF MixtureInv
  <2>3. PICK w \in Weights(Len(family.states)) : price = Mixed(family.states, w)
    BY DEF MixtureInv
  <2>4. PICK v : Supports(v, 1, States)
    BY <2>1, <2>3, MixtureSupports
  <2>5. InHull(tie)
    BY <2>1, <2>4, MixtureInHull
  <2>6. WithinBound(tie)
    BY <2>1, <2>4, MixtureKeepsBound
  <2> QED BY <2>2, <2>5, <2>6
<1> QED BY <1>1, <1>2, <1>3, PTL DEF Spec

===============================================================================
