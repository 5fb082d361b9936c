----------------------------- MODULE FiniteOrders -----------------------------
(***************************************************************************)
(* Facts about finite sets, orders, sequences and sums that the proofs of  *)
(* more than one component rest on.                                        *)
(***************************************************************************)
EXTENDS Functions, FiniteSetTheorems, SequenceTheorems, WellFoundedInduction, TLAPS

\* A finite set has a first element in every total order.
LEMMA FirstInOrder ==
    ASSUME NEW S, IsFiniteSet(S), S # {}, NEW R,
           \A x, y \in S : x = y \/ <<x, y>> \in R \/ <<y, x>> \in R,
           \A x, y, z \in S : <<x, y>> \in R /\ <<y, z>> \in R => <<x, z>> \in R
    PROVE  \E m \in S : \A n \in S \ {m} : <<m, n>> \in R
<1>. DEFINE First(T, m) == \A n \in T \ {m} : <<m, n>> \in R
            Bad == {T \in SUBSET S : T # {} /\ ~\E m \in T : First(T, m)}
<1>1. SUFFICES ASSUME Bad # {} PROVE FALSE
  OBVIOUS
<1>2. Bad \subseteq FiniteSubsetsOf(S)
  BY FS_FiniteSubsetsOfFinite
<1>3. PICK T \in Bad : \A U \in Bad : <<U, T>> \notin StrictSubsetOrdering(S)
  <2>. HIDE DEF Bad
  <2>. QED
    BY <1>1, <1>2, WFMin, FS_StrictSubsetOrderingWellFounded
<1>4. PICK x \in T : TRUE
  OBVIOUS
<1>5. T \ {x} \notin Bad
  <2>1. <<T \ {x}, T>> \in StrictSubsetOrdering(S)
    BY <1>4 DEF StrictSubsetOrdering
  <2>. QED
    BY <1>3, <2>1
<1>6. CASE T = {x}
  BY <1>6
<1>7. CASE T # {x}
  <2>1. PICK m \in T \ {x} : First(T \ {x}, m)
    BY <1>4, <1>5, <1>7
  <2>2. CASE <<m, x>> \in R
    <3>1. First(T, m)
      BY <2>1, <2>2
    <3>. QED
      BY <3>1
  <2>3. CASE <<x, m>> \in R
    <3>1. \A n \in T \ {x} : <<x, n>> \in R
      <4>1. TAKE n \in T \ {x}
      <4>2. CASE n = m
        BY <2>3, <4>2
      <4>3. CASE n # m
        BY <2>1, <2>3, <4>3, <1>4
      <4>. QED
        BY <4>2, <4>3
    <3>2. First(T, x)
      BY <3>1
    <3>. QED
      BY <1>4, <3>2
  <2>. QED
    BY <2>1, <2>2, <2>3, <1>4
<1>. QED
  BY <1>6, <1>7

\* Append() adds its argument behind the last position.
LEMMA AppendIsFunction ==
    ASSUME NEW S, NEW s \in Seq(S), NEW v \in S
    PROVE  Append(s, v) = [m \in 1..(Len(s) + 1) |-> IF m = Len(s) + 1 THEN v ELSE s[m]]
<1>. DEFINE t == [m \in 1..(Len(s) + 1) |-> IF m = Len(s) + 1 THEN v ELSE s[m]]
<1>1. Len(s) \in Nat /\ \A m \in 1..Len(s) : s[m] \in S
  OBVIOUS
<1>2. t \in Seq(S) /\ Len(t) = Len(s) + 1
  BY <1>1
<1>3. /\ Append(s, v) \in Seq(S) /\ Len(Append(s, v)) = Len(s) + 1
      /\ \A m \in 1..Len(s) : Append(s, v)[m] = s[m]
      /\ Append(s, v)[Len(s) + 1] = v
  OBVIOUS
<1>4. \A m \in 1..(Len(s) + 1) : Append(s, v)[m] = t[m]
  BY <1>1, <1>3
<1>. HIDE DEF t
<1>5. Append(s, v) = t
  BY <1>2, <1>3, <1>4, SeqEqual
<1>. QED
  BY <1>5 DEF t

\* A function on 1..n is a sequence of what it returns.
LEMMA FunctionIsSeq ==
    ASSUME NEW T, NEW n \in Nat, NEW f, f = [m \in 1..n |-> f[m]], \A m \in 1..n : f[m] \in T
    PROVE  f \in Seq(T)
<1>1. f \in [1..n -> T]
  OBVIOUS
<1>. QED
  BY <1>1

\* A finite set of numbers has a least element.
LEMMA LeastNumber ==
    \A D : D \subseteq Int /\ IsFiniteSet(D) /\ D # {} => \E x \in D : \A y \in D : x <= y
<1>1. SUFFICES ASSUME NEW D PROVE D \subseteq Int /\ IsFiniteSet(D) /\ D # {} =>
                                      \E x \in D : \A y \in D : x <= y
  OBVIOUS
<1>. DEFINE R == {p \in D \X D : p[1] < p[2]}
<1>2. ASSUME D \subseteq Int PROVE \A x, y \in D : x = y \/ <<x, y>> \in R \/ <<y, x>> \in R
  BY <1>2
<1>3. ASSUME D \subseteq Int
      PROVE  \A x, y, z \in D : <<x, y>> \in R /\ <<y, z>> \in R => <<x, z>> \in R
  BY <1>3
<1>4. ASSUME D \subseteq Int, NEW x \in D, \A y \in D \ {x} : <<x, y>> \in R
      PROVE  \A y \in D : x <= y
  <2>1. x \in Int /\ \A y \in D \ {x} : y \in Int /\ x < y
    BY <1>4
  <2>2. x <= x
    BY <2>1
  <2>3. \A y \in D \ {x} : x <= y
    BY <2>1
  <2>. QED
    BY <2>2, <2>3
<1>5. ASSUME D \subseteq Int, IsFiniteSet(D), D # {}
      PROVE  \E x \in D : \A y \in D \ {x} : <<x, y>> \in R
  <2>1. \A x, y \in D : x = y \/ <<x, y>> \in R \/ <<y, x>> \in R
    BY <1>2, <1>5
  <2>2. \A x, y, z \in D : <<x, y>> \in R /\ <<y, z>> \in R => <<x, z>> \in R
    BY <1>3, <1>5
  <2>3. IsFiniteSet(D) /\ D # {}
    BY <1>5
  <2>. HIDE DEF R
  <2>. QED
    BY <2>1, <2>2, <2>3, FirstInOrder, Zenon
<1>. QED
  BY <1>4, <1>5

\* A set of subsets of a finite set has one of which no proper subset is in it.
LEMMA SmallestSubset ==
    ASSUME NEW S, IsFiniteSet(S), NEW B, B \subseteq SUBSET S, B # {}
    PROVE  \E T \in B : T \in SUBSET S /\ \A U \in SUBSET T : U # T => U \notin B
<1>1. B \subseteq FiniteSubsetsOf(S)
  BY FS_FiniteSubsetsOfFinite
<1>2. PICK T \in B : \A U \in B : <<U, T>> \notin StrictSubsetOrdering(S)
  BY <1>1, WFMin, FS_StrictSubsetOrderingWellFounded
<1>3. ASSUME NEW U \in SUBSET T, U # T, U \in B PROVE FALSE
  <2>1. <<U, T>> \in StrictSubsetOrdering(S)
    BY <1>3 DEF StrictSubsetOrdering
  <2>. QED
    BY <1>2, <1>3, <2>1
<1>. QED
  BY <1>2, <1>3

-----------------------------------------------------------------------------
(* Sums over finite sets.                                                  *)

\* An element that a sum takes first.
AnyOf(T) == CHOOSE x \in T : TRUE

\* g gives the sum of f over each subset of T.
Sums(g, f, T) ==
    g = [U \in SUBSET T |-> IF U = {} THEN 0 ELSE f[AnyOf(U)] + g[U \ {AnyOf(U)}]]

\* The element is one of the set.
LEMMA AnyIsIn == ASSUME NEW T, T # {} PROVE AnyOf(T) \in T
  BY DEF AnyOf

\* What is a sum over the subsets of T is one over those of a part of T.
LEMMA SumsOfPart ==
    ASSUME NEW f, NEW T, NEW g, Sums(g, f, T), NEW W \in SUBSET T
    PROVE  Sums([U \in SUBSET W |-> g[U]], f, W)
<1>. DEFINE h == [U \in SUBSET W |-> g[U]]
<1>1. ASSUME NEW U \in SUBSET W
      PROVE  h[U] = IF U = {} THEN 0 ELSE f[AnyOf(U)] + h[U \ {AnyOf(U)}]
  <2>1. U \in SUBSET T /\ h[U] = g[U] /\ h[U \ {AnyOf(U)}] = g[U \ {AnyOf(U)}]
    OBVIOUS
  <2>. QED
    BY <2>1 DEF Sums
<1>. QED
  BY <1>1 DEF Sums

\* There is one such g at most.
LEMMA SumsAgree ==
    ASSUME NEW f, NEW T, IsFiniteSet(T), NEW g, Sums(g, f, T), NEW h, Sums(h, f, T)
    PROVE  g[T] = h[T]
<1>. DEFINE B == {U \in SUBSET T : g[U] # h[U]}
<1>1. SUFFICES ASSUME B # {} PROVE FALSE
  OBVIOUS
<1>2. PICK U \in B : U \in SUBSET T /\ \A W \in SUBSET U : W # U => W \notin B
  <2>. HIDE DEF B
  <2>1. B \subseteq SUBSET T
    BY DEF B
  <2>. QED
    BY <1>1, <2>1, SmallestSubset
<1>3. /\ U \in SUBSET T
      /\ g[U] = IF U = {} THEN 0 ELSE f[AnyOf(U)] + g[U \ {AnyOf(U)}]
      /\ h[U] = IF U = {} THEN 0 ELSE f[AnyOf(U)] + h[U \ {AnyOf(U)}]
  BY DEF Sums
<1>4. U # {} /\ AnyOf(U) \in U
  BY <1>2, <1>3, AnyIsIn
<1>5. g[U \ {AnyOf(U)}] = h[U \ {AnyOf(U)}]
  BY <1>2, <1>3, <1>4
<1>. QED
  BY <1>2, <1>3, <1>5

\* There is one.
LEMMA SumsExist ==
    ASSUME NEW f, NEW T, IsFiniteSet(T)
    PROVE  \E g : Sums(g, f, T)
<1>. DEFINE B == {U \in SUBSET T : ~\E g : Sums(g, f, U)}
<1>1. SUFFICES ASSUME B # {} PROVE FALSE
  OBVIOUS
<1>2. PICK S \in B : S \in SUBSET T /\ \A W \in SUBSET S : W # S => W \notin B
  <2>. HIDE DEF B
  <2>1. B \subseteq SUBSET T
    BY DEF B
  <2>. QED
    BY <1>1, <2>1, SmallestSubset
<1>. DEFINE Value(W) == CHOOSE v : \E h : Sums(h, f, W) /\ v = h[W]
            k == [U \in SUBSET S |-> IF U = {} THEN 0 ELSE f[AnyOf(U)] + Value(U \ {AnyOf(U)})]
<1>3. ASSUME NEW W \in SUBSET S PROVE IsFiniteSet(W)
  BY <1>2, FS_Subset
<1>4. ASSUME NEW W \in SUBSET S, NEW h, Sums(h, f, W) PROVE Value(W) = h[W]
  <2>1. \E v : \E g : Sums(g, f, W) /\ v = g[W]
    BY <1>4
  <2>2. PICK g : Sums(g, f, W) /\ Value(W) = g[W]
    BY <2>1
  <2>. QED
    BY <1>3, <1>4, <2>2, SumsAgree
<1>5. ASSUME NEW W \in SUBSET S, W # S PROVE k[W] = Value(W)
  <2>1. PICK h : Sums(h, f, W)
    BY <1>2, <1>5
  <2>2. h[W] = IF W = {} THEN 0 ELSE f[AnyOf(W)] + h[W \ {AnyOf(W)}]
    BY <2>1 DEF Sums
  <2>3. Value(W \ {AnyOf(W)}) = h[W \ {AnyOf(W)}]
    <3>. DEFINE V == W \ {AnyOf(W)}
                p == [U \in SUBSET V |-> h[U]]
    <3>1. V \in SUBSET W /\ V \in SUBSET S /\ p[V] = h[V]
      OBVIOUS
    <3>2. Sums(p, f, V)
      BY <2>1, <3>1, SumsOfPart
    <3>. HIDE DEF V, p, Value
    <3>3. Value(V) = h[V]
      BY <1>4, <3>1, <3>2
    <3>. QED
      BY <3>3 DEF V
  <2>4. Value(W) = h[W]
    BY <1>4, <2>1
  <2>5. k[W] = IF W = {} THEN 0 ELSE f[AnyOf(W)] + Value(W \ {AnyOf(W)})
    OBVIOUS
  <2>. QED
    BY <2>2, <2>3, <2>4, <2>5
<1>6. Sums(k, f, S)
  <2>. HIDE DEF Value
  <2>1. ASSUME NEW U \in SUBSET S
        PROVE  k[U] = IF U = {} THEN 0 ELSE f[AnyOf(U)] + k[U \ {AnyOf(U)}]
    <3>1. k[U] = IF U = {} THEN 0 ELSE f[AnyOf(U)] + Value(U \ {AnyOf(U)})
      OBVIOUS
    <3>2. U # {} => k[U \ {AnyOf(U)}] = Value(U \ {AnyOf(U)})
      BY <1>5, AnyIsIn
    <3>. HIDE DEF k
    <3>. QED
      BY <3>1, <3>2
  <2>2. k = [U \in SUBSET S |-> k[U]]
    OBVIOUS
  <2>. HIDE DEF k
  <2>. QED
    BY <2>1, <2>2 DEF Sums
<1>. QED
  BY <1>2, <1>6

\* A sum over a finite set, element by element.
LEMMA SumAny ==
    ASSUME NEW f, NEW T, IsFiniteSet(T)
    PROVE  /\ SumFunctionOnSet(f, {}) = 0
           /\ T # {} => SumFunctionOnSet(f, T)
                            = f[AnyOf(T)] + SumFunctionOnSet(f, T \ {AnyOf(T)})
<1>1. ASSUME NEW W, IsFiniteSet(W), NEW h, Sums(h, f, W) PROVE SumFunctionOnSet(f, W) = h[W]
  <2>1. SumFunctionOnSet(f, W) = (CHOOSE g : Sums(g, f, W))[W]
    BY DEF SumFunctionOnSet, FoldFunctionOnSet, MapThenFoldSet, Sums, AnyOf
  <2>2. Sums(CHOOSE g : Sums(g, f, W), f, W)
    BY <1>1
  <2>. QED
    BY <1>1, <2>1, <2>2, SumsAgree
<1>2. PICK g : Sums(g, f, T)
  BY SumsExist
<1>3. \A W \in SUBSET T : SumFunctionOnSet(f, W) = g[W]
  <2>1. TAKE W \in SUBSET T
  <2>. DEFINE h == [U \in SUBSET W |-> g[U]]
  <2>2. Sums(h, f, W)
    BY <1>2, SumsOfPart
  <2>3. IsFiniteSet(W) /\ h[W] = g[W]
    BY FS_Subset
  <2>. HIDE DEF h
  <2>. QED
    BY <1>1, <2>2, <2>3
<1>4. g[{}] = 0 /\ (T # {} => g[T] = f[AnyOf(T)] + g[T \ {AnyOf(T)}])
  BY <1>2 DEF Sums
<1>. QED
  BY <1>3, <1>4

\* A sum of numbers is a number.
LEMMA SumIsInt ==
    ASSUME NEW f, NEW T, IsFiniteSet(T), \A x \in T : f[x] \in Int
    PROVE  SumFunctionOnSet(f, T) \in Int
<1>. DEFINE B == {U \in SUBSET T : SumFunctionOnSet(f, U) \notin Int}
<1>1. SUFFICES ASSUME B # {} PROVE FALSE
  OBVIOUS
<1>2. PICK U \in B : U \in SUBSET T /\ \A W \in SUBSET U : W # U => W \notin B
  <2>. HIDE DEF B
  <2>1. B \subseteq SUBSET T
    BY DEF B
  <2>. QED
    BY <1>1, <2>1, SmallestSubset
<1>3. IsFiniteSet(U)
  BY FS_Subset
<1>4. U # {} /\ AnyOf(U) \in U
  <2>1. SumFunctionOnSet(f, {}) = 0 /\ (U = {} => SumFunctionOnSet(f, U) = SumFunctionOnSet(f, {}))
    BY <1>3, SumAny, Zenon
  <2>. QED
    BY <1>2, <2>1, AnyIsIn
<1>5. SumFunctionOnSet(f, U \ {AnyOf(U)}) \in Int
  BY <1>2, <1>4
<1>6. SumFunctionOnSet(f, U) = f[AnyOf(U)] + SumFunctionOnSet(f, U \ {AnyOf(U)})
  BY <1>3, <1>4, SumAny
<1>. QED
  BY <1>2, <1>4, <1>5, <1>6

\* Any element may be taken first.
LEMMA SumWithout ==
    ASSUME NEW f, NEW T, IsFiniteSet(T), \A x \in T : f[x] \in Int, NEW y \in T
    PROVE  SumFunctionOnSet(f, T) = f[y] + SumFunctionOnSet(f, T \ {y})
<1>. DEFINE B == {U \in SUBSET T :
                    \E z \in U : SumFunctionOnSet(f, U) # f[z] + SumFunctionOnSet(f, U \ {z})}
<1>1. SUFFICES ASSUME B # {} PROVE FALSE
  OBVIOUS
<1>2. PICK U \in B : U \in SUBSET T /\ \A W \in SUBSET U : W # U => W \notin B
  <2>. HIDE DEF B
  <2>1. B \subseteq SUBSET T
    BY DEF B
  <2>. QED
    BY <1>1, <2>1, SmallestSubset
<1>3. PICK z \in U : SumFunctionOnSet(f, U) # f[z] + SumFunctionOnSet(f, U \ {z})
  BY <1>2
<1>4. PICK x \in U : x = AnyOf(U)
  BY <1>3, AnyIsIn
<1>5. \A W \in SUBSET U : IsFiniteSet(W) /\ SumFunctionOnSet(f, W) \in Int
  BY <1>2, FS_Subset, SumIsInt
<1>6. SumFunctionOnSet(f, U) = f[x] + SumFunctionOnSet(f, U \ {x})
  BY <1>4, <1>5, SumAny
<1>7. x # z
  BY <1>3, <1>6
<1>8. SumFunctionOnSet(f, U \ {x}) = f[z] + SumFunctionOnSet(f, (U \ {x}) \ {z})
  BY <1>2, <1>3, <1>4, <1>7
<1>9. SumFunctionOnSet(f, U \ {z}) = f[x] + SumFunctionOnSet(f, (U \ {z}) \ {x})
  BY <1>2, <1>3, <1>4, <1>7
<1>10. (U \ {x}) \ {z} = (U \ {z}) \ {x}
  OBVIOUS
<1>11. /\ f[x] \in Int /\ f[z] \in Int
       /\ SumFunctionOnSet(f, (U \ {x}) \ {z}) \in Int
  BY <1>2, <1>5
<1>12. \A a, b, c \in Int : a + (b + c) = b + (a + c)
  OBVIOUS
<1>13. SumFunctionOnSet(f, U \ {z}) = f[x] + SumFunctionOnSet(f, (U \ {x}) \ {z})
  BY <1>9, <1>10, Zenon
<1>14. f[x] + SumFunctionOnSet(f, U \ {x}) = f[z] + SumFunctionOnSet(f, U \ {z})
  BY <1>8, <1>11, <1>12, <1>13
<1>. QED
  BY <1>3, <1>6, <1>14

\* A sum of n numbers of at least a is at least n times a.
LEMMA SumAtLeast ==
    ASSUME NEW f, NEW T, IsFiniteSet(T), NEW a \in Int, \A x \in T : f[x] \in Int /\ f[x] >= a
    PROVE  SumFunctionOnSet(f, T) >= Cardinality(T) * a
<1>. DEFINE B == {U \in SUBSET T : ~(SumFunctionOnSet(f, U) >= Cardinality(U) * a)}
<1>1. SUFFICES ASSUME B # {} PROVE FALSE
  OBVIOUS
<1>2. PICK U \in B : U \in SUBSET T /\ \A W \in SUBSET U : W # U => W \notin B
  <2>. HIDE DEF B
  <2>1. B \subseteq SUBSET T
    BY DEF B
  <2>. QED
    BY <1>1, <2>1, SmallestSubset
<1>3. IsFiniteSet(U)
  BY FS_Subset
<1>4. U # {}
  <2>1. U = {} => Cardinality(U) = 0
    BY FS_EmptySet
  <2>2. SumFunctionOnSet(f, {}) = 0 /\ (U = {} => SumFunctionOnSet(f, U) = SumFunctionOnSet(f, {}))
    BY <1>3, SumAny, Zenon
  <2>3. U = {} => SumFunctionOnSet(f, U) >= Cardinality(U) * a
    <3>1. ASSUME NEW s, NEW c, s = 0, c = 0 PROVE s >= c * a
      BY <3>1
    <3>. QED
      BY <2>1, <2>2, <3>1
  <2>. QED
    BY <1>2, <2>3
<1>5. PICK x \in U : TRUE
  BY <1>4
<1>6. SumFunctionOnSet(f, U) = f[x] + SumFunctionOnSet(f, U \ {x})
  BY <1>3, SumWithout
<1>7. Cardinality(U \ {x}) = Cardinality(U) - 1 /\ Cardinality(U) \in Nat /\ IsFiniteSet(U \ {x})
  BY <1>3, FS_RemoveElement, FS_CardinalityType
<1>8. SumFunctionOnSet(f, U \ {x}) >= Cardinality(U \ {x}) * a
  BY <1>2
<1>9. (Cardinality(U) - 1) * a = Cardinality(U) * a - a
  BY <1>7
<1>10. SumFunctionOnSet(f, U \ {x}) \in Int /\ f[x] \in Int /\ f[x] >= a /\ Cardinality(U) * a \in Int
  BY <1>7, SumIsInt
<1>. QED
  BY <1>2, <1>6, <1>7, <1>8, <1>9, <1>10

\* A sum of numbers of which none is positive is not positive.
LEMMA SumNotPositive ==
    ASSUME NEW f, NEW T, IsFiniteSet(T), \A x \in T : f[x] \in Int /\ f[x] <= 0
    PROVE  SumFunctionOnSet(f, T) <= 0
<1>. DEFINE B == {U \in SUBSET T : ~(SumFunctionOnSet(f, U) <= 0)}
<1>1. SUFFICES ASSUME B # {} PROVE FALSE
  OBVIOUS
<1>2. PICK U \in B : U \in SUBSET T /\ \A W \in SUBSET U : W # U => W \notin B
  <2>. HIDE DEF B
  <2>1. B \subseteq SUBSET T
    BY DEF B
  <2>. QED
    BY <1>1, <2>1, SmallestSubset
<1>3. IsFiniteSet(U)
  BY FS_Subset
<1>4. U # {}
  <2>1. SumFunctionOnSet(f, {}) = 0 /\ (U = {} => SumFunctionOnSet(f, U) = SumFunctionOnSet(f, {}))
    BY <1>3, SumAny, Zenon
  <2>. QED
    BY <1>2, <2>1
<1>5. PICK x \in U : TRUE
  BY <1>4
<1>6. SumFunctionOnSet(f, U) = f[x] + SumFunctionOnSet(f, U \ {x})
  BY <1>3, SumWithout
<1>7. SumFunctionOnSet(f, U \ {x}) <= 0
  BY <1>2
<1>8. SumFunctionOnSet(f, U \ {x}) \in Int /\ f[x] \in Int /\ f[x] <= 0
  <2>1. IsFiniteSet(U \ {x})
    BY <1>3, FS_Subset
  <2>. QED
    BY <2>1, SumIsInt
<1>. QED
  BY <1>2, <1>6, <1>7, <1>8

\* The sum of f over T is not above that of g over U if f has the value of g wherever h
\* takes an element of U, to a different one for each, and nothing positive elsewhere.
LEMMA SumCompare ==
    ASSUME NEW f, NEW T, IsFiniteSet(T), \A x \in T : f[x] \in Int,
           NEW g, NEW U, IsFiniteSet(U), \A u \in U : g[u] \in Int,
           NEW h \in [U -> T], \A u, v \in U : h[u] = h[v] => u = v,
           \A u \in U : f[h[u]] = g[u],
           \A x \in T : (\A u \in U : h[u] # x) => f[x] <= 0
    PROVE  SumFunctionOnSet(f, T) <= SumFunctionOnSet(g, U)
<1>. DEFINE Rest(V) == {x \in T : \A u \in U \ V : h[u] # x}
            B == {V \in SUBSET U : ~(SumFunctionOnSet(f, Rest(V)) <= SumFunctionOnSet(g, V))}
<1>1. Rest(U) = T
  OBVIOUS
<1>2. SUFFICES ASSUME B # {} PROVE FALSE
  BY <1>1
<1>3. PICK V \in B : V \in SUBSET U /\ \A W \in SUBSET V : W # V => W \notin B
  <2>. HIDE DEF B
  <2>1. B \subseteq SUBSET U
    BY DEF B
  <2>. QED
    BY <1>2, <2>1, SmallestSubset
<1>4. \A W \in SUBSET U : /\ IsFiniteSet(W) /\ SumFunctionOnSet(g, W) \in Int
                          /\ IsFiniteSet(Rest(W)) /\ SumFunctionOnSet(f, Rest(W)) \in Int
  <2>1. TAKE W \in SUBSET U
  <2>2. IsFiniteSet(W) /\ \A u \in W : g[u] \in Int
    BY FS_Subset
  <2>3. Rest(W) \subseteq T
    OBVIOUS
  <2>4. IsFiniteSet(Rest(W)) /\ \A x \in Rest(W) : f[x] \in Int
    BY <2>3, FS_Subset
  <2>. HIDE DEF Rest
  <2>. QED
    BY <2>2, <2>4, SumIsInt
<1>5. CASE V = {}
  <2>. DEFINE R == Rest(V)
  <2>1. \A x \in R : f[x] \in Int /\ f[x] <= 0
    BY <1>5
  <2>2. IsFiniteSet(R)
    BY <1>3, <1>4
  <2>. HIDE DEF R
  <2>3. SumFunctionOnSet(f, R) <= 0
    BY <2>1, <2>2, SumNotPositive
  <2>4. SumFunctionOnSet(g, V) = 0
    BY <1>5, <2>2, SumAny
  <2>. QED
    BY <1>3, <2>3, <2>4 DEF R
<1>6. CASE V # {}
  <2>1. PICK v \in V : TRUE
    BY <1>6
  <2>2. h[v] \in Rest(V) /\ Rest(V \ {v}) = Rest(V) \ {h[v]} /\ f[h[v]] = g[v]
    BY <1>3, <2>1
  <2>3. ~(SumFunctionOnSet(f, Rest(V)) <= SumFunctionOnSet(g, V))
    BY <1>3
  <2>4. SumFunctionOnSet(f, Rest(V \ {v})) <= SumFunctionOnSet(g, V \ {v})
    BY <1>3, <2>1
  <2>5. SumFunctionOnSet(g, V) = g[v] + SumFunctionOnSet(g, V \ {v})
    <3>1. IsFiniteSet(V) /\ \A u \in V : g[u] \in Int
      BY <1>3, FS_Subset
    <3>. HIDE DEF Rest, B
    <3>. QED
      BY <2>1, <3>1, SumWithout
  <2>6. SumFunctionOnSet(f, Rest(V)) = f[h[v]] + SumFunctionOnSet(f, Rest(V) \ {h[v]})
    <3>1. IsFiniteSet(Rest(V)) /\ \A x \in Rest(V) : f[x] \in Int
      BY <1>3, <1>4
    <3>. HIDE DEF Rest
    <3>. QED
      BY <2>2, <3>1, SumWithout
  <2>7. /\ g[v] \in Int /\ SumFunctionOnSet(g, V \ {v}) \in Int
        /\ SumFunctionOnSet(f, Rest(V \ {v})) \in Int
    BY <1>3, <1>4, <2>1
  <2>8. SumFunctionOnSet(f, Rest(V)) = g[v] + SumFunctionOnSet(f, Rest(V \ {v}))
    BY <2>2, <2>6, Zenon
  <2>9. \A a, b, c \in Int : b <= c => a + b <= a + c
    OBVIOUS
  <2>. HIDE DEF Rest, B
  <2>. QED
    BY <2>3, <2>4, <2>5, <2>7, <2>8, <2>9
<1>. QED
  BY <1>5, <1>6

\* Sums over functions that agree are the same.
LEMMA SumsOfSame ==
    ASSUME NEW f, NEW g, NEW T, IsFiniteSet(T), \A x \in T : f[x] \in Int /\ g[x] = f[x]
    PROVE  SumFunctionOnSet(g, T) = SumFunctionOnSet(f, T)
<1>. DEFINE h == [x \in T |-> x]
<1>1. /\ h \in [T -> T] /\ \A u, v \in T : h[u] = h[v] => u = v
      /\ \A u \in T : f[h[u]] = g[u] /\ g[h[u]] = f[u] /\ f[u] \in Int /\ g[u] \in Int
      /\ \A x \in T : ~(\A u \in T : h[u] # x)
  OBVIOUS
<1>. HIDE DEF h
<1>2. SumFunctionOnSet(f, T) <= SumFunctionOnSet(g, T)
  BY <1>1, SumCompare
<1>3. SumFunctionOnSet(g, T) <= SumFunctionOnSet(f, T)
  BY <1>1, SumCompare
<1>4. SumFunctionOnSet(f, T) \in Int /\ SumFunctionOnSet(g, T) \in Int
  BY <1>1, SumIsInt
<1>. QED
  BY <1>2, <1>3, <1>4

\* The sum of the first n of m numbers: what the next one adds, and that the whole is no less.
LEMMA PrefixSums ==
    ASSUME NEW m \in Nat, NEW f, \A i \in 1..m : f[i] \in Nat, NEW n \in 0..m
    PROVE  /\ SumFunction([i \in 1..n |-> f[i]]) \in Nat
           /\ n = 0 => SumFunction([i \in 1..n |-> f[i]]) = 0
           /\ n < m => SumFunction([i \in 1..(n + 1) |-> f[i]])
                           = SumFunction([i \in 1..n |-> f[i]]) + f[n + 1]
           /\ SumFunction([i \in 1..n |-> f[i]]) <= SumFunction([i \in 1..m |-> f[i]])
<1>. DEFINE P(k) == SumFunctionOnSet(f, 1..k)
<1>1. ASSUME NEW k \in 0..m
      PROVE  /\ SumFunction([i \in 1..k |-> f[i]]) = P(k) /\ P(k) \in Nat
             /\ k = 0 => P(k) = 0
             /\ k < m => P(k + 1) = P(k) + f[k + 1]
  <2>1. /\ IsFiniteSet(1..k) /\ k \in Nat /\ \A i \in 1..k : i \in 1..m
    BY FS_Interval
  <2>2. \A i \in 1..k : f[i] \in Int /\ f[i] \in Nat /\ f[i] >= 0
    BY <2>1
  <2>3. SumFunction([i \in 1..k |-> f[i]]) = P(k)
    <3>. DEFINE g == [i \in 1..k |-> f[i]]
    <3>1. DOMAIN g = 1..k /\ \A i \in 1..k : g[i] = f[i]
      OBVIOUS
    <3>. HIDE DEF g
    <3>2. SumFunctionOnSet(g, 1..k) = P(k)
      BY <2>1, <2>2, <3>1, SumsOfSame
    <3>. QED
      BY <3>1, <3>2 DEF SumFunction, g
  <2>4. P(k) \in Nat
    <3>1. P(k) \in Int
      BY <2>1, <2>2, SumIsInt
    <3>2. P(k) >= Cardinality(1..k) * 0
      BY <2>1, <2>2, SumAtLeast
    <3>3. Cardinality(1..k) \in Nat
      BY <2>1, FS_CardinalityType
    <3>. HIDE DEF P
    <3>. QED
      BY <3>1, <3>2, <3>3
  <2>5. k = 0 => P(k) = 0
    <3>1. k = 0 => 1..k = {}
      OBVIOUS
    <3>2. SumFunctionOnSet(f, {}) = 0
      BY FS_EmptySet, SumAny
    <3>. QED
      BY <3>1, <3>2
  <2>6. ASSUME k < m PROVE P(k + 1) = P(k) + f[k + 1]
    <3>1. /\ IsFiniteSet(1..(k + 1)) /\ k + 1 \in 1..(k + 1) /\ k + 1 \in 1..m
          /\ (1..(k + 1)) \ {k + 1} = 1..k
      BY <2>1, <2>6, FS_Interval
    <3>2. \A i \in 1..(k + 1) : f[i] \in Int
      BY <2>2, <3>1
    <3>3. P(k + 1) = f[k + 1] + SumFunctionOnSet(f, (1..(k + 1)) \ {k + 1})
      BY <3>1, <3>2, SumWithout
    <3>4. P(k + 1) = f[k + 1] + P(k) /\ f[k + 1] \in Nat
      BY <3>1, <3>3
    <3>. HIDE DEF P
    <3>. QED
      BY <2>4, <3>4
  <2>. QED
    BY <2>3, <2>4, <2>5, <2>6
<1>. HIDE DEF P
<1>2. P(n) <= P(m)
  <2>. DEFINE D == {k \in n..m : ~(P(n) <= P(k))}
  <2>1. SUFFICES ASSUME D # {} PROVE FALSE
    <3>1. m \in n..m
      OBVIOUS
    <3>. QED
      BY <2>1, <3>1
  <2>2. D \subseteq Int /\ IsFiniteSet(D)
    <3>1. IsFiniteSet(n..m) /\ D \subseteq n..m
      BY FS_Interval
    <3>. QED
      BY <3>1, FS_Subset
  <2>3. PICK k \in D : \A y \in D : k <= y
    <3>. HIDE DEF D
    <3>. QED
      BY <2>1, <2>2, LeastNumber
  <2>4. k \in n..m /\ ~(P(n) <= P(k)) /\ k \in 0..m /\ n \in 0..m
    OBVIOUS
  <2>5. k # n /\ k - 1 \in n..m /\ k - 1 \in 0..m /\ k - 1 < m /\ k - 1 < k /\ (k - 1) + 1 = k
    <3>1. P(n) \in Nat
      BY <1>1
    <3>2. k # n
      BY <2>4, <3>1
    <3>. QED
      BY <2>4, <3>2
  <2>6. P(n) <= P(k - 1)
    <3>1. k - 1 \notin D
      <4>. HIDE DEF D
      <4>. QED
        BY <2>3, <2>4, <2>5
    <3>. QED
      BY <2>5, <3>1
  <2>7. P(k) = P(k - 1) + f[k] /\ P(k) \in Nat /\ P(k - 1) \in Nat /\ P(n) \in Nat /\ f[k] \in Nat
    <3>1. P((k - 1) + 1) = P(k - 1) + f[(k - 1) + 1]
      BY <1>1, <2>5
    <3>2. k \in 1..m
      BY <2>4, <2>5
    <3>. QED
      BY <1>1, <2>4, <2>5, <3>1, <3>2
  <2>. QED
    BY <2>4, <2>6, <2>7
<1>3. n + 1 \in 0..m \/ n = m
  OBVIOUS
<1>4. /\ SumFunction([i \in 1..n |-> f[i]]) = P(n) /\ P(n) \in Nat
      /\ n = 0 => P(n) = 0
      /\ n < m => P(n + 1) = P(n) + f[n + 1]
  BY <1>1
<1>5. SumFunction([i \in 1..m |-> f[i]]) = P(m)
  BY <1>1
<1>6. n < m => SumFunction([i \in 1..(n + 1) |-> f[i]]) = P(n + 1)
  BY <1>1, <1>3
<1>. QED
  BY <1>2, <1>4, <1>5, <1>6

-----------------------------------------------------------------------------
\* What a total order orders can be put in order.
LEMMA OrderedEnumeration ==
    ASSUME NEW S, IsFiniteSet(S), NEW R,
           \A x, y \in S : x = y \/ <<x, y>> \in R \/ <<y, x>> \in R,
           \A x, y, z \in S : <<x, y>> \in R /\ <<y, z>> \in R => <<x, z>> \in R
    PROVE  \E f \in Bijection(1..Cardinality(S), S) :
               \A i, j \in 1..Cardinality(S) : i < j => <<f[i], f[j]>> \in R
<1>. DEFINE Ordered(f, T) ==
                /\ f \in [1..Cardinality(T) -> T]
                /\ \A i, j \in 1..Cardinality(T) : f[i] = f[j] => i = j
                /\ \A t \in T : \E i \in 1..Cardinality(T) : f[i] = t
                /\ \A i, j \in 1..Cardinality(T) : i < j => <<f[i], f[j]>> \in R
            B == {T \in SUBSET S : ~\E f : Ordered(f, T)}
<1>1. SUFFICES ASSUME B # {} PROVE FALSE
  <2>1. PICK f : Ordered(f, S)
    BY <1>1
  <2>2. f \in Bijection(1..Cardinality(S), S)
    BY <2>1 DEF Bijection, Injection, Surjection, IsInjective
  <2>. QED
    BY <2>1, <2>2
<1>2. PICK T \in B : T \in SUBSET S /\ \A U \in SUBSET T : U # T => U \notin B
  <2>1. B \subseteq SUBSET S
    OBVIOUS
  <2>. HIDE DEF B
  <2>. QED
    BY <1>1, <2>1, SmallestSubset
<1>3. IsFiniteSet(T) /\ ~\E f : Ordered(f, T)
  BY <1>2, FS_Subset
<1>4. T # {}
  <2>1. SUFFICES ASSUME T = {} PROVE FALSE
    OBVIOUS
  <2>2. Cardinality(T) = 0
    BY <2>1, FS_EmptySet
  <2>3. Ordered([i \in 1..0 |-> i], T)
    BY <2>1, <2>2
  <2>. HIDE DEF Ordered
  <2>. QED
    BY <1>3, <2>3
<1>5. PICK m \in T : \A n \in T \ {m} : <<m, n>> \in R
  <2>1. \A x, y \in T : x = y \/ <<x, y>> \in R \/ <<y, x>> \in R
    BY <1>2
  <2>2. \A x, y, z \in T : <<x, y>> \in R /\ <<y, z>> \in R => <<x, z>> \in R
    BY <1>2
  <2>3. IsFiniteSet(T) /\ T # {}
    BY <1>3, <1>4
  <2>. HIDE DEF B, Ordered
  <2>. QED
    BY <2>1, <2>2, <2>3, FirstInOrder
<1>. DEFINE U == T \ {m}
            c == Cardinality(U)
<1>6. Cardinality(T) = c + 1 /\ c \in Nat
  BY <1>3, FS_RemoveElement, FS_CardinalityType, FS_Subset
<1>7. PICK g : Ordered(g, U)
  <2>1. U \in SUBSET T /\ U # T
    OBVIOUS
  <2>2. U \notin B
    BY <1>2, <2>1
  <2>3. U \in SUBSET S
    BY <1>2
  <2>. HIDE DEF Ordered, U
  <2>. QED
    BY <2>2, <2>3
<1>. DEFINE f == [i \in 1..(c + 1) |-> IF i = 1 THEN m ELSE g[i - 1]]
<1>8. /\ g \in [1..c -> U] /\ \A i, j \in 1..c : g[i] = g[j] => i = j
      /\ \A t \in U : \E i \in 1..c : g[i] = t
      /\ \A i, j \in 1..c : i < j => <<g[i], g[j]>> \in R
  BY <1>7
<1>9. m \notin U /\ T = U \cup {m}
  OBVIOUS
<1>10. \A n \in U : <<m, n>> \in R
  BY <1>5
<1>. HIDE DEF c, U
<1>11. f[1] = m /\ \A i \in 2..(c + 1) : i - 1 \in 1..c /\ f[i] = g[i - 1] /\ f[i] \in U
  BY <1>6, <1>8
<1>12. \A i \in 1..(c + 1) : i = 1 \/ i \in 2..(c + 1)
  BY <1>6
<1>13. f \in [1..(c + 1) -> T]
  BY <1>9, <1>11, <1>12
<1>. HIDE DEF f
<1>14. ASSUME NEW i \in 1..(c + 1), NEW j \in 1..(c + 1), f[i] = f[j] PROVE i = j
  <2>1. CASE i = 1 \/ j = 1
    BY <1>9, <1>11, <1>12, <1>14, <2>1
  <2>2. CASE i \in 2..(c + 1) /\ j \in 2..(c + 1)
    <3>1. i - 1 = j - 1
      BY <1>8, <1>11, <1>14, <2>2
    <3>. QED
      BY <2>2, <3>1
  <2>. QED
    BY <1>12, <2>1, <2>2
<1>15. ASSUME NEW t \in T PROVE \E i \in 1..(c + 1) : f[i] = t
  <2>1. CASE t = m
    BY <1>6, <1>11, <2>1
  <2>2. CASE t \in U
    <3>1. PICK i \in 1..c : g[i] = t
      BY <1>8, <2>2
    <3>2. i + 1 \in 2..(c + 1) /\ i + 1 - 1 = i /\ i + 1 \in 1..(c + 1)
      BY <1>6
    <3>. QED
      BY <1>11, <3>1, <3>2
  <2>. QED
    BY <1>9, <2>1, <2>2
<1>16. ASSUME NEW i \in 1..(c + 1), NEW j \in 1..(c + 1), i < j PROVE <<f[i], f[j]>> \in R
  <2>1. j \in 2..(c + 1)
    BY <1>6, <1>16
  <2>2. CASE i = 1
    BY <1>10, <1>11, <2>1, <2>2
  <2>3. CASE i \in 2..(c + 1)
    <3>1. i - 1 < j - 1
      BY <1>6, <1>16
    <3>. QED
      BY <1>8, <1>11, <2>1, <2>3, <3>1
  <2>. QED
    BY <1>12, <2>2, <2>3
<1>17. Ordered(f, T)
  BY <1>6, <1>13, <1>14, <1>15, <1>16
<1>. HIDE DEF Ordered
<1>. QED
  BY <1>3, <1>17
=============================================================================
