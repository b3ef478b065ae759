----------------------------- MODULE SumTheorems -----------------------------
(***************************************************************************)
(* Facts about SumFunctionOnSet, the sums the services compute over the    *)
(* rows of a table.  The library's induction principles take the property  *)
(* as an operator; the one below takes it as a set of sets, which a proof  *)
(* can instantiate.                                                        *)
(***************************************************************************)
EXTENDS FiniteSetTheorems, TLAPS

\* A set of subsets of a finite set that has the empty set, and has every other subset
\* when it has that subset without one of its elements, has them all.
LEMMA SubsetInduction ==
  ASSUME NEW S, IsFiniteSet(S), NEW P \in SUBSET (SUBSET S), {} \in P,
         \A T \in SUBSET S : T # {} => \E x \in T : T \ {x} \in P => T \in P
  PROVE  P = SUBSET S
<1> DEFINE Rest == (SUBSET S) \ P
<1> SUFFICES ASSUME Rest # {} PROVE FALSE
  OBVIOUS
<1>1. IsWellFoundedOn(StrictSubsetOrdering(S), SUBSET S)
  <2>1. FiniteSubsetsOf(S) = SUBSET S
    BY FS_FiniteSubsetsOfFinite
  <2>2. IsWellFoundedOn(StrictSubsetOrdering(S), FiniteSubsetsOf(S))
    BY FS_StrictSubsetOrderingWellFounded, Zenon
  <2> QED
    BY <2>1, <2>2, Zenon
<1>2. Rest \subseteq SUBSET S
  OBVIOUS
<1> HIDE DEF Rest
<1>3. PICK T \in Rest : \A U \in Rest : ~(<<U, T>> \in StrictSubsetOrdering(S))
  <2>1. ASSUME NEW R, IsWellFoundedOn(R, SUBSET S)
        PROVE  \E T \in Rest : \A U \in Rest : ~(<<U, T>> \in R)
    BY <1>2, <2>1, WFMin
  <2> QED
    BY <1>1, <2>1
<1>4. T \in SUBSET S /\ T # {} /\ T \notin P
  <2>1. T \in SUBSET S /\ T \notin P
    BY Zenon DEF Rest
  <2>2. T # {}
    BY <2>1, Zenon
  <2> QED
    BY <2>1, <2>2
<1>5. PICK x \in T : T \ {x} \in P => T \in P
  BY <1>4
<1>6. T \ {x} \in Rest /\ T \ {x} # T
  BY <1>4, <1>5 DEF Rest
<1>7. <<T \ {x}, T>> \in StrictSubsetOrdering(S)
  BY <1>4, <1>6 DEF StrictSubsetOrdering
<1> QED
  BY <1>3, <1>6, <1>7

\* g is the sum of f over the subsets of S, whatever the order of the summands.
IsSum(g, f, S) ==
  /\ g \in [SUBSET S -> Int]
  /\ g[{}] = 0
  /\ \A T \in SUBSET S : \A x \in T : g[T] = f[x] + g[T \ {x}]

\* There is such a sum.
LEMMA SumExists ==
  ASSUME NEW S, IsFiniteSet(S), NEW f, \A x \in S : f[x] \in Int
  PROVE  \E g : IsSum(g, f, S)
<1> DEFINE P == {T \in SUBSET S : \E g : IsSum(g, f, T)}
<1>1. {} \in P
  <2>1. IsSum([T \in {{}} |-> 0], f, {})
    BY DEF IsSum
  <2> QED
    BY <2>1
<1>2. ASSUME NEW U \in SUBSET S, NEW a \in U, U \ {a} \in P PROVE U \in P
  <2>1. PICK g : IsSum(g, f, U \ {a})
    BY <1>2
  <2> DEFINE h == [T \in SUBSET U |-> IF a \in T THEN f[a] + g[T \ {a}] ELSE g[T]]
  <2>2. \A T \in SUBSET U : a \notin T => T \in SUBSET (U \ {a})
    OBVIOUS
  <2>3. \A T \in SUBSET U : T \ {a} \in SUBSET (U \ {a})
    OBVIOUS
  <2>4. h \in [SUBSET U -> Int]
    BY <2>1, <2>2, <2>3 DEF IsSum
  <2>5. h[{}] = 0
    BY <2>1 DEF IsSum
  <2>6. ASSUME NEW T \in SUBSET U, NEW x \in T PROVE h[T] = f[x] + h[T \ {x}]
    <3>1. CASE x = a
      BY <2>3, <3>1
    <3>2. CASE x # a /\ a \in T
      <4> DEFINE v == g[(T \ {x}) \ {a}]
      <4>1. g[T \ {a}] = f[x] + g[(T \ {a}) \ {x}]
        BY <2>1, <2>3, <3>2 DEF IsSum
      <4>2. (T \ {a}) \ {x} = (T \ {x}) \ {a}
        OBVIOUS
      <4>3. h[T] = f[a] + (f[x] + v)
        BY <3>2, <4>1, <4>2
      <4>4. T \ {x} \in SUBSET U /\ a \in T \ {x}
        BY <3>2
      <4>5. h[T \ {x}] = f[a] + v
        BY <4>4
      <4>6. f[a] \in Int /\ f[x] \in Int /\ v \in Int
        BY <2>1, <2>3, <4>4 DEF IsSum
      <4> HIDE DEF h, v
      <4> QED
        BY <4>3, <4>5, <4>6
    <3>3. CASE a \notin T
      <4>1. g[T] = f[x] + g[T \ {x}]
        BY <2>1, <2>2, <3>3 DEF IsSum
      <4>2. h[T] = g[T] /\ T \ {x} \in SUBSET U /\ a \notin T \ {x}
        BY <3>3
      <4>3. h[T \ {x}] = g[T \ {x}]
        BY <4>2
      <4> QED
        BY <4>1, <4>2, <4>3
    <3> QED
      BY <3>1, <3>2, <3>3
  <2>7. IsSum(h, f, U)
    BY <2>4, <2>5, <2>6 DEF IsSum
  <2> QED
    BY <2>7
<1>3. P \in SUBSET (SUBSET S)
  OBVIOUS
<1> HIDE DEF P
<1>4. P = SUBSET S
  <2>1. \A T \in SUBSET S : T # {} => \E x \in T : T \ {x} \in P => T \in P
    BY <1>2
  <2> QED
    BY <1>1, <1>3, <2>1, SubsetInduction
<1> QED
  BY <1>4 DEF P

\* SumFunctionOnSet computes it.
LEMMA FoldIsSum ==
  ASSUME NEW S, IsFiniteSet(S), NEW f, NEW g, IsSum(g, f, S)
  PROVE  SumFunctionOnSet(f, S) = g[S]
<1> DEFINE Pick(T)   == CHOOSE x \in T : TRUE
           Follows(h) == h = [T \in SUBSET S |-> IF T = {} THEN 0 ELSE f[Pick(T)] + h[T \ {Pick(T)}]]
           iter       == CHOOSE h : Follows(h)
<1>1. SumFunctionOnSet(f, S) = iter[S]
  BY DEF SumFunctionOnSet, FoldFunctionOnSet, MapThenFoldSet
<1>2. \A T \in SUBSET S : T # {} => Pick(T) \in T
  OBVIOUS
<1> HIDE DEF Pick
<1>3. Follows(g)
  BY <1>2 DEF IsSum
<1>4. Follows(iter)
  BY <1>3
<1> HIDE DEF iter
<1> DEFINE P == {T \in SUBSET S : iter[T] = g[T]}
<1>5. {} \in P
  BY <1>4 DEF IsSum
<1>6. ASSUME NEW T \in SUBSET S, T # {} PROVE \E x \in T : T \ {x} \in P => T \in P
  <2>1. iter[T] = f[Pick(T)] + iter[T \ {Pick(T)}] /\ g[T] = f[Pick(T)] + g[T \ {Pick(T)}]
    BY <1>2, <1>4, <1>6 DEF IsSum
  <2> QED
    BY <1>2, <1>6, <2>1
<1>7. P \in SUBSET (SUBSET S)
  OBVIOUS
<1> HIDE DEF P
<1>8. P = SUBSET S
  BY <1>5, <1>6, <1>7, SubsetInduction
<1> QED
  BY <1>1, <1>8 DEF P

-----------------------------------------------------------------------------
\* What the sum of integers over a finite set is: a number, 0 for no summand, and each
\* summand added to the sum of the others.
LEMMA SumOfAll ==
  ASSUME NEW S, IsFiniteSet(S), NEW f, \A x \in S : f[x] \in Int
  PROVE  /\ SumFunctionOnSet(f, S) \in Int
         /\ S = {} => SumFunctionOnSet(f, S) = 0
         /\ \A x \in S : SumFunctionOnSet(f, S) = f[x] + SumFunctionOnSet(f, S \ {x})
<1>1. PICK g : IsSum(g, f, S)
  BY SumExists
<1>2. SumFunctionOnSet(f, S) = g[S]
  BY <1>1, FoldIsSum
<1>3. ASSUME NEW x \in S PROVE SumFunctionOnSet(f, S \ {x}) = g[S \ {x}]
  <2>1. IsFiniteSet(S \ {x})
    BY FS_RemoveElement
  <2> DEFINE h == [T \in SUBSET (S \ {x}) |-> g[T]]
  <2>2. IsSum(h, f, S \ {x}) /\ h[S \ {x}] = g[S \ {x}]
    BY <1>1 DEF IsSum
  <2> HIDE DEF h
  <2> QED
    BY <2>1, <2>2, FoldIsSum
<1> QED
  BY <1>1, <1>2, <1>3 DEF IsSum

\* Sums of functions that agree are equal.
LEMMA SumOfEqual ==
  ASSUME NEW S, IsFiniteSet(S), NEW f, NEW e, \A x \in S : f[x] \in Int /\ e[x] = f[x]
  PROVE  SumFunctionOnSet(e, S) = SumFunctionOnSet(f, S)
<1>1. PICK g : IsSum(g, f, S)
  BY SumExists
<1>2. IsSum(g, e, S)
  BY <1>1 DEF IsSum
<1> QED
  BY <1>1, <1>2, FoldIsSum

\* When one summand changes, the sum changes by the same amount.
LEMMA SumOfUpdate ==
  ASSUME NEW S, IsFiniteSet(S), NEW f, NEW e, NEW y \in S, NEW d \in Int,
         \A x \in S : f[x] \in Int,
         e[y] = f[y] + d,
         \A x \in S \ {y} : e[x] = f[x]
  PROVE  SumFunctionOnSet(e, S) = SumFunctionOnSet(f, S) + d
<1>1. \A x \in S : e[x] \in Int
  OBVIOUS
<1>2. IsFiniteSet(S \ {y})
  BY FS_RemoveElement
<1>3. SumFunctionOnSet(e, S \ {y}) = SumFunctionOnSet(f, S \ {y})
  BY <1>2, SumOfEqual
<1>4. SumFunctionOnSet(e, S) = e[y] + SumFunctionOnSet(e, S \ {y})
  BY <1>1, SumOfAll
<1>5. SumFunctionOnSet(f, S) = f[y] + SumFunctionOnSet(f, S \ {y})
  BY SumOfAll
<1>6. SumFunctionOnSet(f, S \ {y}) \in Int /\ f[y] \in Int
  BY <1>2, SumOfAll
<1> QED
  BY <1>3, <1>4, <1>5, <1>6

\* A new summand is added.
LEMMA SumOfMore ==
  ASSUME NEW S, IsFiniteSet(S), NEW f, NEW y, y \notin S, \A x \in S \cup {y} : f[x] \in Int
  PROVE  SumFunctionOnSet(f, S \cup {y}) = SumFunctionOnSet(f, S) + f[y]
<1>1. IsFiniteSet(S \cup {y}) /\ (S \cup {y}) \ {y} = S
  BY FS_AddElement
<1>2. SumFunctionOnSet(f, S \cup {y}) = f[y] + SumFunctionOnSet(f, (S \cup {y}) \ {y})
  BY <1>1, SumOfAll
<1>3. SumFunctionOnSet(f, (S \cup {y}) \ {y}) = SumFunctionOnSet(f, S)
  BY <1>1, Zenon
<1>4. SumFunctionOnSet(f, S) \in Int /\ f[y] \in Int
  BY SumOfAll
<1> QED
  BY <1>2, <1>3, <1>4

\* The sum over a part, when no summand is negative, is no larger than the whole.
LEMMA SumOfPart ==
  ASSUME NEW S, IsFiniteSet(S), NEW f, \A x \in S : f[x] \in Nat, NEW T \in SUBSET S
  PROVE  SumFunctionOnSet(f, T) <= SumFunctionOnSet(f, S)
<1> DEFINE P == {U \in SUBSET S : T \subseteq U => SumFunctionOnSet(f, T) <= SumFunctionOnSet(f, U)}
<1>1. IsFiniteSet(T) /\ SumFunctionOnSet(f, T) \in Int
  BY FS_Subset, SumOfAll
<1>2. {} \in P
  <2>1. T \subseteq {} => T = {}
    OBVIOUS
  <2> QED
    BY <1>1, <2>1
<1>3. ASSUME NEW U \in SUBSET S, U # {} PROVE \E x \in U : U \ {x} \in P => U \in P
  <2>1. CASE U \subseteq T
    <3>1. T \subseteq U => T = U
      BY <2>1
    <3>2. U \in P
      BY <1>1, <3>1
    <3> HIDE DEF P
    <3> QED
      BY <1>3, <3>2
  <2>2. CASE ~(U \subseteq T)
    <3>1. PICK x \in U : x \notin T
      BY <2>2
    <3>2. IsFiniteSet(U) /\ \A z \in U : f[z] \in Int
      BY FS_Subset
    <3>3. SumFunctionOnSet(f, U) = f[x] + SumFunctionOnSet(f, U \ {x})
      <4> HIDE DEF P
      <4> QED
        BY <3>2, SumOfAll
    <3>4. IsFiniteSet(U \ {x}) /\ \A z \in U \ {x} : f[z] \in Int
      BY <3>2, FS_RemoveElement
    <3>5. SumFunctionOnSet(f, U \ {x}) \in Int /\ f[x] \in Nat
      <4> HIDE DEF P
      <4> QED
        BY <3>4, SumOfAll
    <3>6. ASSUME U \ {x} \in P PROVE U \in P
      <4>1. SUFFICES ASSUME T \subseteq U PROVE SumFunctionOnSet(f, T) <= SumFunctionOnSet(f, U)
        OBVIOUS
      <4>2. SumFunctionOnSet(f, T) <= SumFunctionOnSet(f, U \ {x})
        BY <3>1, <3>6, <4>1
      <4> HIDE DEF P
      <4> QED
        BY <1>1, <3>3, <3>5, <4>2
    <3> HIDE DEF P
    <3> QED
      BY <3>1, <3>6
  <2> QED
    BY <2>1, <2>2
<1>4. P \in SUBSET (SUBSET S)
  OBVIOUS
<1> HIDE DEF P
<1>5. P = SUBSET S
  BY <1>2, <1>3, <1>4, SubsetInduction
<1> QED
  BY <1>5 DEF P

\* Summands that are zero may be left out.
LEMMA SumOfSupport ==
  ASSUME NEW S, IsFiniteSet(S), NEW f, \A x \in S : f[x] \in Int,
         NEW T \in SUBSET S, \A x \in S \ T : f[x] = 0
  PROVE  SumFunctionOnSet(f, S) = SumFunctionOnSet(f, T)
<1> DEFINE P == {U \in SUBSET S : T \subseteq U => SumFunctionOnSet(f, U) = SumFunctionOnSet(f, T)}
<1>1. IsFiniteSet(T) /\ SumFunctionOnSet(f, T) \in Int
  BY FS_Subset, SumOfAll
<1>2. {} \in P
  <2>1. T \subseteq {} => T = {}
    OBVIOUS
  <2> QED
    BY <1>1, <2>1
<1>3. ASSUME NEW U \in SUBSET S, U # {} PROVE \E x \in U : U \ {x} \in P => U \in P
  <2>1. CASE U \subseteq T
    <3>1. T \subseteq U => T = U
      BY <2>1
    <3>2. U \in P
      BY <1>1, <3>1
    <3> HIDE DEF P
    <3> QED
      BY <1>3, <3>2
  <2>2. CASE ~(U \subseteq T)
    <3>1. PICK x \in U : x \notin T
      BY <2>2
    <3>2. IsFiniteSet(U) /\ \A z \in U : f[z] \in Int
      BY FS_Subset
    <3>3. SumFunctionOnSet(f, U) = f[x] + SumFunctionOnSet(f, U \ {x})
      <4> HIDE DEF P
      <4> QED
        BY <3>2, SumOfAll
    <3>4. f[x] = 0
      BY <3>1
    <3>5. ASSUME U \ {x} \in P PROVE U \in P
      <4>1. SUFFICES ASSUME T \subseteq U PROVE SumFunctionOnSet(f, U) = SumFunctionOnSet(f, T)
        OBVIOUS
      <4>2. SumFunctionOnSet(f, U \ {x}) = SumFunctionOnSet(f, T)
        BY <3>1, <3>5, <4>1
      <4> HIDE DEF P
      <4> QED
        BY <1>1, <3>3, <3>4, <4>2
    <3> HIDE DEF P
    <3> QED
      BY <3>1, <3>5
  <2> QED
    BY <2>1, <2>2
<1>4. P \in SUBSET (SUBSET S)
  OBVIOUS
<1> HIDE DEF P
<1>5. P = SUBSET S
  BY <1>2, <1>3, <1>4, SubsetInduction
<1> QED
  BY <1>5 DEF P

\* Zeros add up to zero.
LEMMA SumOfZero ==
  ASSUME NEW S, IsFiniteSet(S), NEW f, \A x \in S : f[x] = 0
  PROVE  SumFunctionOnSet(f, S) = 0
<1> DEFINE g == [T \in SUBSET S |-> 0]
<1>1. IsSum(g, f, S) /\ g[S] = 0
  BY DEF IsSum
<1> HIDE DEF g
<1> QED
  BY <1>1, FoldIsSum

\* The sum over the image of a set, when no two elements have the same image, is the
\* sum over the set.
LEMMA SumOfImage ==
  ASSUME NEW S, IsFiniteSet(S), NEW f, \A x \in S : f[x] \in Int,
         NEW m, \A x, y \in S : m[x] = m[y] => x = y,
         NEW e, \A x \in S : e[m[x]] = f[x],
         NEW J, \A x \in S : m[x] \in J, \A z \in J : \E x \in S : z = m[x]
  PROVE  IsFiniteSet(J) /\ SumFunctionOnSet(e, J) = SumFunctionOnSet(f, S)
<1> DEFINE Image(T) == {m[x] : x \in T}
           P == {T \in SUBSET S : /\ IsFiniteSet(Image(T))
                                  /\ SumFunctionOnSet(e, Image(T)) = SumFunctionOnSet(f, T)}
<1>1. {} \in P
  <2>1. Image({}) = {}
    OBVIOUS
  <2>2. IsFiniteSet({}) /\ SumFunctionOnSet(e, {}) = 0 /\ SumFunctionOnSet(f, {}) = 0
    BY FS_EmptySet, SumOfAll
  <2> QED
    BY <2>1, <2>2
<1>2. ASSUME NEW T \in SUBSET S, NEW y \in T, T \ {y} \in P PROVE T \in P
  <2> DEFINE I == Image(T \ {y})
  <2>1. Image(T) = I \cup {m[y]}
    OBVIOUS
  <2>2. m[y] \notin I
    OBVIOUS
  <2>3. IsFiniteSet(I) /\ SumFunctionOnSet(e, I) = SumFunctionOnSet(f, T \ {y})
    BY <1>2
  <2>4. \A z \in I \cup {m[y]} : e[z] \in Int
    OBVIOUS
  <2>5. e[m[y]] = f[y]
    OBVIOUS
  <2>6. \A x \in T : f[x] \in Int
    OBVIOUS
  <2>7. IsFiniteSet(T)
    BY FS_Subset
  <2> HIDE DEF P, I, Image
  <2>8. IsFiniteSet(I \cup {m[y]})
    BY <2>3, FS_AddElement
  <2>9. SumFunctionOnSet(e, I \cup {m[y]}) = SumFunctionOnSet(e, I) + e[m[y]]
    BY ONLY <2>2, <2>3, <2>4, SumOfMore
  <2>10. SumFunctionOnSet(f, T) = f[y] + SumFunctionOnSet(f, T \ {y})
    BY <2>6, <2>7, SumOfAll
  <2>11. IsFiniteSet(T \ {y})
    BY <2>7, FS_RemoveElement
  <2>12. SumFunctionOnSet(f, T \ {y}) \in Int /\ f[y] \in Int
    BY <2>6, <2>11, SumOfAll
  <2>13. SumFunctionOnSet(e, I \cup {m[y]}) = SumFunctionOnSet(f, T)
    <3>1. SumFunctionOnSet(e, I \cup {m[y]}) = SumFunctionOnSet(f, T \ {y}) + f[y]
      BY <2>3, <2>5, <2>9
    <3> QED
      BY <2>10, <2>12, <3>1
  <2>14. IsFiniteSet(Image(T)) /\ SumFunctionOnSet(e, Image(T)) = SumFunctionOnSet(f, T)
    BY <2>1, <2>8, <2>13, Zenon
  <2> QED
    BY <2>14 DEF P
<1>3. P \in SUBSET (SUBSET S)
  OBVIOUS
<1>4. \A T \in SUBSET S : T # {} => \E y \in T : T \ {y} \in P => T \in P
  <2> HIDE DEF P
  <2> QED
    BY <1>2
<1> HIDE DEF P
<1>5. P = SUBSET S
  BY ONLY IsFiniteSet(S), <1>1, <1>3, <1>4, SubsetInduction
<1>6. S \in P
  BY <1>5
<1>7. IsFiniteSet(Image(S)) /\ SumFunctionOnSet(e, Image(S)) = SumFunctionOnSet(f, S)
  <2> HIDE DEF Image
  <2> QED
    BY <1>6 DEF P
<1>8. Image(S) = J
  OBVIOUS
<1> QED
  BY <1>7, <1>8, Zenon

\* A bound on every summand that is linear in another summand bounds the sum.
LEMMA SumOfBounds ==
  ASSUME NEW S, IsFiniteSet(S), NEW k \in Int, NEW m \in Int, NEW d \in Int,
         NEW f, \A x \in S : f[x] \in Int,
         NEW e, \A x \in S : e[x] \in Int,
         \A x \in S : k * f[x] <= m * e[x] + d
  PROVE  k * SumFunctionOnSet(f, S) <= m * SumFunctionOnSet(e, S) + d * Cardinality(S)
<1> DEFINE P == {T \in SUBSET S :
                   k * SumFunctionOnSet(f, T) <= m * SumFunctionOnSet(e, T) + d * Cardinality(T)}
<1>1. {} \in P
  <2>1. SumFunctionOnSet(f, {}) = 0 /\ SumFunctionOnSet(e, {}) = 0 /\ Cardinality({}) = 0
    BY FS_EmptySet, SumOfAll
  <2> QED
    BY <2>1
<1>2. ASSUME NEW T \in SUBSET S, NEW y \in T, T \ {y} \in P PROVE T \in P
  <2> DEFINE U == T \ {y}
  <2>1. k * SumFunctionOnSet(f, U) <= m * SumFunctionOnSet(e, U) + d * Cardinality(U)
    BY <1>2
  <2>2. /\ IsFiniteSet(T) /\ (\A x \in T : f[x] \in Int) /\ \A x \in T : e[x] \in Int
        /\ IsFiniteSet(U) /\ (\A x \in U : f[x] \in Int) /\ \A x \in U : e[x] \in Int
    BY FS_Subset
  <2>3. k * f[y] <= m * e[y] + d /\ f[y] \in Int /\ e[y] \in Int
    OBVIOUS
  <2>4. Cardinality(T) = Cardinality(U) + 1 /\ Cardinality(U) \in Int
    BY <2>2, FS_RemoveElement, FS_CardinalityType
  <2>5. /\ SumFunctionOnSet(f, T) = f[y] + SumFunctionOnSet(f, U)
        /\ SumFunctionOnSet(e, T) = e[y] + SumFunctionOnSet(e, U)
    BY ONLY y \in T, <2>2, SumOfAll
  <2> HIDE DEF P, U
  <2>6. SumFunctionOnSet(f, U) \in Int /\ SumFunctionOnSet(e, U) \in Int
    BY ONLY <2>2, SumOfAll
  <2>7. /\ \A a, b, c \in Int : a * (b + c) = a * b + a * c
        /\ \A a, b \in Int : a * b \in Int
    OBVIOUS
  <2>8. k * SumFunctionOnSet(f, T) <= m * SumFunctionOnSet(e, T) + d * Cardinality(T)
    <3>1. k * SumFunctionOnSet(f, T) = k * f[y] + k * SumFunctionOnSet(f, U)
      BY ONLY k \in Int, <2>3, <2>5, <2>6, <2>7
    <3>2. m * SumFunctionOnSet(e, T) = m * e[y] + m * SumFunctionOnSet(e, U)
      BY ONLY m \in Int, <2>3, <2>5, <2>6, <2>7
    <3>3. d * Cardinality(T) = d * Cardinality(U) + d
      BY ONLY d \in Int, <2>4
    <3>4. /\ k * f[y] \in Int /\ k * SumFunctionOnSet(f, U) \in Int
          /\ m * e[y] \in Int /\ m * SumFunctionOnSet(e, U) \in Int /\ d * Cardinality(U) \in Int
      BY ONLY k \in Int, m \in Int, d \in Int, <2>3, <2>4, <2>6, <2>7
    <3>5. ASSUME NEW a \in Int, NEW b \in Int, NEW c \in Int, NEW p \in Int, NEW q \in Int,
                 a <= b + d, c <= p + q
          PROVE  a + c <= b + p + (q + d)
      BY <3>5
    <3> QED
      BY ONLY d \in Int, <2>1, <2>3, <3>1, <3>2, <3>3, <3>4, <3>5
  <2> QED
    BY <2>8 DEF P
<1>3. P \in SUBSET (SUBSET S)
  OBVIOUS
<1>4. \A T \in SUBSET S : T # {} => \E y \in T : T \ {y} \in P => T \in P
  <2> HIDE DEF P
  <2> QED
    BY <1>2
<1> HIDE DEF P
<1>5. P = SUBSET S
  BY ONLY IsFiniteSet(S), <1>1, <1>3, <1>4, SubsetInduction
<1>6. S \in P
  BY <1>5
<1> QED
  BY <1>6 DEF P
==============================================================================
