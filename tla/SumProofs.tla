------------------------------- MODULE SumProofs -------------------------------
(***************************************************************************)
(* Facts about SumFunctionOnSet for finite sets.  The library defines it   *)
(* by a recursive function on the subsets of a set; that there is such a   *)
(* function, and that any element may be taken out first, is proved here   *)
(* by looking at a least set for which it would fail.                      *)
(***************************************************************************)
EXTENDS Integers, Functions, FiniteSetTheorems, TLAPS

\* The element the library takes out of a set, and its recursion for the subsets of S.
Pick(T) == CHOOSE x \in T : TRUE
Sums(f, S, g) ==
    g = [T \in SUBSET S |-> IF T = {} THEN 0 ELSE f[Pick(T)] + g[T \ {Pick(T)}]]

\* What the library computes is its recursion's function on the subsets of S, at S.
LEMMA SumIsSums ==
    ASSUME NEW f, NEW S
    PROVE  SumFunctionOnSet(f, S) = (CHOOSE g : Sums(f, S, g))[S]
BY DEF SumFunctionOnSet, FoldFunctionOnSet, MapThenFoldSet, Sums, Pick

\* The element taken out of a set is one of its own.
LEMMA PickIn == \A T : T # {} => Pick(T) \in T
BY DEF Pick

\* Among subsets of a finite set there is one with none of them inside it.
LEMMA LeastSubset ==
    ASSUME NEW S, IsFiniteSet(S), NEW A, A \subseteq SUBSET S, A # {}
    PROVE  \E T \in A : \A U \in A : ~(U \subseteq T /\ U # T)
<1>1. FiniteSubsetsOf(S) = SUBSET S
    BY FS_FiniteSubsetsOfFinite
<1>2. IsWellFoundedOn(StrictSubsetOrdering(S), SUBSET S)
    BY <1>1, FS_StrictSubsetOrderingWellFounded
<1>3. PICK T \in A : \A U \in A : ~(<<U, T>> \in StrictSubsetOrdering(S))
    BY <1>2, WFMin
<1>4. \A U \in A : <<U, T>> \in (SUBSET S) \X (SUBSET S)
    OBVIOUS
<1> QED BY <1>3, <1>4 DEF StrictSubsetOrdering

\* The recursion determines its function,
LEMMA SumsUnique ==
    ASSUME NEW f, NEW S, IsFiniteSet(S), NEW g, NEW h, Sums(f, S, g), Sums(f, S, h)
    PROVE  g = h
<1> DEFINE A == {T \in SUBSET S : g[T] # h[T]}
<1>1. A = {}
  <2> SUFFICES ASSUME A # {} PROVE FALSE
      OBVIOUS
  <2>1. A \subseteq SUBSET S
      OBVIOUS
  <2> HIDE DEF A
  <2>2. PICK T \in A : \A U \in A : ~(U \subseteq T /\ U # T)
      BY <2>1, LeastSubset
  <2> USE DEF A
  <2> DEFINE U == T \ {Pick(T)}
  <2>3. CASE T = {}
      BY <2>3 DEF Sums
  <2>4. CASE T # {}
    <3>1. U \in SUBSET S /\ U \subseteq T /\ U # T
        BY <2>4, PickIn
    <3>2. g[U] = h[U]
        BY <2>2, <3>1
    <3> QED BY <2>4, <3>2 DEF Sums
  <2> QED BY <2>3, <2>4
<1>2. \A T \in SUBSET S : g[T] = h[T]
    BY <1>1
<1>3. /\ g = [T \in SUBSET S |-> g[T]]
      /\ h = [T \in SUBSET S |-> h[T]]
    BY DEF Sums
<1> QED BY <1>2, <1>3

\* restricts to any subset,
LEMMA SumsRestrict ==
    ASSUME NEW f, NEW S, NEW g, Sums(f, S, g), NEW V \in SUBSET S
    PROVE  Sums(f, V, [T \in SUBSET V |-> g[T]])
<1> DEFINE h == [T \in SUBSET V |-> g[T]]
<1>1. ASSUME NEW T \in SUBSET V
      PROVE  h[T] = IF T = {} THEN 0 ELSE f[Pick(T)] + h[T \ {Pick(T)}]
  <2>1. T \in SUBSET S /\ T \ {Pick(T)} \in SUBSET V
      OBVIOUS
  <2> QED BY <2>1 DEF Sums
<1>2. h = [T \in SUBSET V |-> h[T]]
    OBVIOUS
<1> HIDE DEF h
<1>3. h = [T \in SUBSET V |-> IF T = {} THEN 0 ELSE f[Pick(T)] + h[T \ {Pick(T)}]]
    BY <1>1, <1>2
<1> QED BY <1>3 DEF Sums, h

\* and has one: a least subset without would have one built from its own.
LEMMA SumsExist ==
    ASSUME NEW f, NEW S, IsFiniteSet(S)
    PROVE  \E g : Sums(f, S, g)
<1> DEFINE A == {T \in SUBSET S : ~\E g : Sums(f, T, g)}
           The(T) == CHOOSE g : Sums(f, T, g)
<1> SUFFICES ASSUME A # {} PROVE FALSE
    OBVIOUS
<1>1. PICK T \in A : \A U \in A : ~(U \subseteq T /\ U # T)
  <2>1. A \subseteq SUBSET S
      OBVIOUS
  <2> HIDE DEF A
  <2> QED BY <2>1, LeastSubset
<1>2. \A U \in SUBSET T : U # T => Sums(f, U, The(U))
    BY <1>1
<1>3. \A U \in SUBSET T : IsFiniteSet(U)
  <2>1. T \in SUBSET S
      OBVIOUS
  <2> QED BY <2>1, FS_Subset
<1> DEFINE g == [U \in SUBSET T |-> IF U = {} THEN 0
                                    ELSE f[Pick(U)] + The(U \ {Pick(U)})[U \ {Pick(U)}]]
\* What a smaller set's function says of a subset is what the subset's own says.
<1>4. ASSUME NEW U \in SUBSET T, U # T, NEW V \in SUBSET U
      PROVE  The(U)[V] = The(V)[V]
  <2>1. Sums(f, U, The(U)) /\ V # T
      BY <1>2, <1>4
  <2>2. Sums(f, V, The(V)) /\ IsFiniteSet(V)
      BY <1>2, <1>3, <2>1
  <2> HIDE DEF The
  <2>3. Sums(f, V, [W \in SUBSET V |-> The(U)[W]])
      BY <2>1, SumsRestrict
  <2>4. The(V) = [W \in SUBSET V |-> The(U)[W]]
      BY <2>2, <2>3, SumsUnique
  <2> QED BY <2>4
<1>5. ASSUME NEW U \in SUBSET T, U # T
      PROVE  g[U] = The(U)[U]
  <2>1. Sums(f, U, The(U))
      BY <1>2, <1>5
  <2> HIDE DEF The
  <2>2. CASE U = {}
      BY <2>1, <2>2 DEF Sums
  <2>3. CASE U # {}
    <3> DEFINE V == U \ {Pick(U)}
    <3>1. V \in SUBSET U /\ V \in SUBSET T
        OBVIOUS
    <3>2. The(U)[U] = f[Pick(U)] + The(U)[V]
        BY <2>1, <2>3 DEF Sums
    <3>3. The(U)[V] = The(V)[V]
        BY <1>4, <1>5, <3>1
    <3>4. g[U] = f[Pick(U)] + The(V)[V]
        BY <2>3
    <3> QED BY <3>2, <3>3, <3>4
  <2> QED BY <2>2, <2>3
<1>6. ASSUME NEW U \in SUBSET T, U # {}
      PROVE  g[U] = f[Pick(U)] + g[U \ {Pick(U)}]
  <2> DEFINE V == U \ {Pick(U)}
  <2>1. V \in SUBSET T /\ V # T
      BY <1>6, PickIn
  <2>2. g[V] = The(V)[V]
      BY <1>5, <2>1
  <2>3. g[U] = f[Pick(U)] + The(V)[V]
      BY <1>6
  <2> QED BY <2>2, <2>3
<1>7. g[{}] = 0 /\ g = [U \in SUBSET T |-> g[U]]
    OBVIOUS
<1> HIDE DEF g
<1>8. g = [U \in SUBSET T |-> IF U = {} THEN 0 ELSE f[Pick(U)] + g[U \ {Pick(U)}]]
    BY <1>6, <1>7
<1> QED BY <1>8 DEF Sums

-----------------------------------------------------------------------------

\* The library's sum follows its recursion,
LEMMA SumRecursion ==
    ASSUME NEW f, NEW S, IsFiniteSet(S)
    PROVE  SumFunctionOnSet(f, S) =
               IF S = {} THEN 0 ELSE f[Pick(S)] + SumFunctionOnSet(f, S \ {Pick(S)})
<1> DEFINE The(T) == CHOOSE g : Sums(f, T, g)
           U == S \ {Pick(S)}
<1>1. IsFiniteSet(U) /\ U \in SUBSET S
    BY FS_RemoveElement
<1>2. Sums(f, S, The(S)) /\ Sums(f, U, The(U))
    BY <1>1, SumsExist
<1>3. SumFunctionOnSet(f, S) = The(S)[S] /\ SumFunctionOnSet(f, U) = The(U)[U]
    BY SumIsSums
<1> HIDE DEF The
<1>4. The(S)[U] = The(U)[U]
  <2>1. Sums(f, U, [T \in SUBSET U |-> The(S)[T]])
      BY <1>1, <1>2, SumsRestrict
  <2>2. The(U) = [T \in SUBSET U |-> The(S)[T]]
      BY <1>1, <1>2, <2>1, SumsUnique
  <2> QED BY <2>2
<1>5. The(S)[S] = IF S = {} THEN 0 ELSE f[Pick(S)] + The(S)[U]
    BY <1>2 DEF Sums
<1> QED BY <1>3, <1>4, <1>5

\* is nothing for the empty set,
LEMMA SumEmpty == \A f : SumFunctionOnSet(f, {}) = 0
BY SumRecursion, FS_EmptySet

\* is a number when its terms are,
LEMMA SumType ==
    ASSUME NEW S, IsFiniteSet(S), NEW f, \A x \in S : f[x] \in Nat
    PROVE  SumFunctionOnSet(f, S) \in Nat
<1> DEFINE A == {T \in SUBSET S : SumFunctionOnSet(f, T) \notin Nat}
<1> SUFFICES ASSUME A # {} PROVE FALSE
    OBVIOUS
<1>1. A \subseteq SUBSET S
    OBVIOUS
<1> HIDE DEF A
<1>2. PICK T \in A : \A U \in A : ~(U \subseteq T /\ U # T)
    BY <1>1, LeastSubset
<1>3. T \in SUBSET S /\ IsFiniteSet(T)
    BY <1>1, FS_Subset
<1>4. T # {}
    BY SumEmpty DEF A
<1> DEFINE x == Pick(T)
           U == T \ {x}
<1>5. x \in T /\ U \in SUBSET S /\ U \subseteq T /\ U # T
    BY <1>3, <1>4, PickIn
<1>6. SumFunctionOnSet(f, U) \in Nat
    BY <1>2, <1>5 DEF A
<1>7. SumFunctionOnSet(f, T) = f[x] + SumFunctionOnSet(f, U)
    BY <1>3, <1>4, SumRecursion
<1>8. f[x] \in Nat
    BY <1>3, <1>5
<1> HIDE DEF x, U
<1>9. SumFunctionOnSet(f, T) \in Nat
    BY <1>6, <1>7, <1>8
<1> QED BY <1>9 DEF A

\* depends on the terms only,
LEMMA SumSame ==
    ASSUME NEW S, IsFiniteSet(S), NEW f, NEW h, \A x \in S : f[x] = h[x]
    PROVE  SumFunctionOnSet(f, S) = SumFunctionOnSet(h, S)
<1> DEFINE A == {T \in SUBSET S : SumFunctionOnSet(f, T) # SumFunctionOnSet(h, T)}
<1> SUFFICES ASSUME A # {} PROVE FALSE
    OBVIOUS
<1>1. A \subseteq SUBSET S
    OBVIOUS
<1> HIDE DEF A
<1>2. PICK T \in A : \A U \in A : ~(U \subseteq T /\ U # T)
    BY <1>1, LeastSubset
<1>3. T \in SUBSET S /\ IsFiniteSet(T)
    BY <1>1, FS_Subset
<1>4. T # {}
    BY SumEmpty DEF A
<1> DEFINE x == Pick(T)
           U == T \ {x}
<1>5. x \in T /\ U \in SUBSET S /\ U \subseteq T /\ U # T
    BY <1>3, <1>4, PickIn
<1>6. SumFunctionOnSet(f, U) = SumFunctionOnSet(h, U)
    BY <1>2, <1>5 DEF A
<1>7. /\ SumFunctionOnSet(f, T) = f[x] + SumFunctionOnSet(f, U)
      /\ SumFunctionOnSet(h, T) = h[x] + SumFunctionOnSet(h, U)
    BY <1>3, <1>4, SumRecursion
<1>8. f[x] = h[x]
    BY <1>3, <1>5
<1> HIDE DEF x, U
<1>9. SumFunctionOnSet(f, T) = SumFunctionOnSet(h, T)
    BY <1>6, <1>7, <1>8
<1> QED BY <1>9 DEF A

\* and any element may be taken out of it first.
LEMMA SumTakeOut ==
    ASSUME NEW S, IsFiniteSet(S), NEW f, \A x \in S : f[x] \in Nat, NEW z \in S
    PROVE  SumFunctionOnSet(f, S) = f[z] + SumFunctionOnSet(f, S \ {z})
<1> DEFINE A == {T \in SUBSET S :
                   \E y \in T : SumFunctionOnSet(f, T) # f[y] + SumFunctionOnSet(f, T \ {y})}
<1> SUFFICES ASSUME A # {} PROVE FALSE
    OBVIOUS
<1>1. A \subseteq SUBSET S
    OBVIOUS
<1> HIDE DEF A
<1>2. PICK T \in A : \A U \in A : ~(U \subseteq T /\ U # T)
    BY <1>1, LeastSubset
<1>3. PICK y \in T : SumFunctionOnSet(f, T) # f[y] + SumFunctionOnSet(f, T \ {y})
    BY DEF A
<1>4. T \in SUBSET S /\ IsFiniteSet(T) /\ T # {}
    BY <1>1, <1>3, FS_Subset
<1> DEFINE x == Pick(T)
           U == T \ {x}
           V == T \ {y}
           W == U \ {y}
<1>5. SumFunctionOnSet(f, T) = f[x] + SumFunctionOnSet(f, U)
    BY <1>4, SumRecursion
<1>6. x \in T /\ x # y
    BY <1>3, <1>4, <1>5, PickIn
<1>7. SumFunctionOnSet(f, U) = f[y] + SumFunctionOnSet(f, W)
  <2>1. U \in SUBSET S /\ U \subseteq T /\ U # T /\ y \in U
      BY <1>4, <1>6
  <2> QED BY <1>2, <2>1 DEF A
<1>8. SumFunctionOnSet(f, V) = f[x] + SumFunctionOnSet(f, W)
  <2>1. V \in SUBSET S /\ V \subseteq T /\ V # T /\ x \in V /\ V \ {x} = W
      BY <1>4, <1>6
  <2> QED BY <1>2, <2>1 DEF A
<1>9. f[x] \in Nat /\ f[y] \in Nat /\ SumFunctionOnSet(f, W) \in Nat
  <2>1. IsFiniteSet(W) /\ W \subseteq S
      BY <1>4, FS_RemoveElement
  <2> QED BY <1>4, <1>6, <2>1, SumType
<1> HIDE DEF x, U, W
<1>10. SumFunctionOnSet(f, T) = f[y] + SumFunctionOnSet(f, V)
    BY <1>5, <1>7, <1>8, <1>9
<1> QED BY <1>3, <1>10

\* One more element adds its term, whatever the other function says elsewhere.
LEMMA SumWithOneMore ==
    ASSUME NEW S, IsFiniteSet(S), NEW z, z \notin S, NEW T, T = S \cup {z}, NEW f, NEW h,
           \A x \in S : f[x] = h[x], \A x \in S : f[x] \in Nat, h[z] \in Nat
    PROVE  SumFunctionOnSet(h, T) = SumFunctionOnSet(f, S) + h[z]
<1>1. IsFiniteSet(T)
  BY FS_AddElement
<1>2. T \ {z} = S /\ z \in T /\ \A x \in T : h[x] \in Nat
  OBVIOUS
<1>3. SumFunctionOnSet(h, T) = h[z] + SumFunctionOnSet(h, T \ {z})
  BY <1>1, <1>2, SumTakeOut
<1>4. SumFunctionOnSet(h, S) = SumFunctionOnSet(f, S)
  BY SumSame
<1>5. SumFunctionOnSet(f, S) \in Nat
  BY SumType
<1>6. SumFunctionOnSet(h, T) = h[z] + SumFunctionOnSet(f, S)
  BY <1>2, <1>3, <1>4
<1> QED BY <1>5, <1>6

\* What is spent of each year and handed on to the next is within what the year was
\* given and handed: then no more is spent over the years than they were given.
LEMMA SumHandedOn ==
    ASSUME NEW n \in Nat, NEW R \in SUBSET (0 .. n), NEW f, NEW h, NEW c,
           \A y \in R : f[y] \in Nat /\ h[y] \in Nat, \A y \in 0 .. n + 1 : c[y] \in Nat, c[0] = 0,
           \A y \in R : f[y] + c[y + 1] <= h[y] + c[y],
           \A y \in (0 .. n) \ R : c[y + 1] = 0
    PROVE  SumFunctionOnSet(f, R) <= SumFunctionOnSet(h, R)
<1> DEFINE U(m) == SumFunctionOnSet(f, R \cap (0 .. m))
           V(m) == SumFunctionOnSet(h, R \cap (0 .. m))
           A == {T \in SUBSET (0 .. n) : \E m \in 0 .. n : T = 0 .. m /\ ~(U(m) + c[m + 1] <= V(m))}
<1>1. IsFiniteSet(0 .. n)
    BY FS_Interval
<1>2. ASSUME NEW m \in Int PROVE IsFiniteSet(R \cap (0 .. m)) /\ U(m) \in Nat /\ V(m) \in Nat
  <2>1. IsFiniteSet(R \cap (0 .. m))
      BY <1>1, FS_Subset
  <2> QED BY <2>1, SumType
<1>3. A = {}
  <2> SUFFICES ASSUME A # {} PROVE FALSE
      OBVIOUS
  <2>1. A \subseteq SUBSET (0 .. n)
      OBVIOUS
  <2> HIDE DEF A
  <2>2. PICK T \in A : \A W \in A : ~(W \subseteq T /\ W # T)
    <3> DEFINE N == 0 .. n
    <3>1. IsFiniteSet(N) /\ A \subseteq SUBSET N
        BY <1>1, <2>1
    <3> HIDE DEF N
    <3> QED BY <3>1, LeastSubset
  <2>3. PICK m \in 0 .. n : T = 0 .. m /\ ~(U(m) + c[m + 1] <= V(m))
    <3> HIDE DEF U, V
    <3> QED BY DEF A
  <2>4. U(m - 1) + c[m] <= V(m - 1)
    <3>1. CASE m = 0
      <4>1. R \cap (0 .. m - 1) = {}
          BY <3>1
      <4>2. U(m - 1) = 0 /\ V(m - 1) = 0
          BY <4>1, SumEmpty
      <4> QED BY <3>1, <4>2
    <3>2. CASE m # 0
      <4>1. m - 1 \in 0 .. n /\ 0 .. (m - 1) \subseteq T /\ 0 .. (m - 1) # T /\ 0 .. (m - 1) \in SUBSET (0 .. n)
          BY <2>3, <3>2
      <4>2. 0 .. (m - 1) \notin A
          BY <2>2, <4>1
      <4>3. U(m - 1) + c[m - 1 + 1] <= V(m - 1)
          BY <4>1, <4>2 DEF A
      <4>4. m - 1 + 1 = m
          OBVIOUS
      <4> QED BY <4>3, <4>4
    <3> QED BY <3>1, <3>2
  <2>5. c[m] \in Nat /\ c[m + 1] \in Nat /\ m \in Int /\ m - 1 \in Int
      OBVIOUS
  <2>6. CASE m \in R
    <3> DEFINE S == R \cap (0 .. m)
    <3>1. m \in S /\ S \ {m} = R \cap (0 .. m - 1)
        BY <2>6
    <3>2. IsFiniteSet(S) /\ \A y \in S : f[y] \in Nat /\ h[y] \in Nat
        BY <1>2
    <3>7. U(m) = SumFunctionOnSet(f, S) /\ V(m) = SumFunctionOnSet(h, S)
        OBVIOUS
    <3> HIDE DEF S
    <3>8. /\ SumFunctionOnSet(f, S) = f[m] + SumFunctionOnSet(f, S \ {m})
          /\ SumFunctionOnSet(h, S) = h[m] + SumFunctionOnSet(h, S \ {m})
        BY <3>1, <3>2, SumTakeOut
    <3>3. U(m) = f[m] + U(m - 1)
        BY <3>1, <3>7, <3>8
    <3>4. V(m) = h[m] + V(m - 1)
        BY <3>1, <3>7, <3>8
    <3>5. f[m] + c[m + 1] <= h[m] + c[m] /\ f[m] \in Nat /\ h[m] \in Nat
        BY <2>6
    <3>6. U(m - 1) \in Nat /\ V(m - 1) \in Nat
        BY <1>2, <2>5
    <3> HIDE DEF U, V
    <3> QED BY <2>3, <2>4, <2>5, <3>3, <3>4, <3>5, <3>6, SMTT(30)
  <2>7. CASE m \notin R
    <3>1. R \cap (0 .. m) = R \cap (0 .. m - 1)
        BY <2>7
    <3>2. U(m) = U(m - 1) /\ V(m) = V(m - 1) /\ c[m + 1] = 0
        BY <2>7, <3>1
    <3>3. U(m - 1) \in Nat /\ V(m - 1) \in Nat
        BY <1>2, <2>5
    <3> HIDE DEF U, V
    <3> QED BY <2>3, <2>4, <2>5, <3>2, <3>3
  <2> QED BY <2>6, <2>7
<1>4. U(n) + c[n + 1] <= V(n)
  <2>1. 0 .. n \in SUBSET (0 .. n) /\ n \in 0 .. n
      OBVIOUS
  <2> HIDE DEF U, V
  <2>2. ~(U(n) + c[n + 1] <= V(n)) => 0 .. n \in A
      BY <2>1
  <2> QED BY <1>3, <2>2
<1>5. R \cap (0 .. n) = R
    OBVIOUS
<1>6. U(n) \in Nat /\ V(n) \in Nat /\ c[n + 1] \in Nat
  <2>1. n \in Int /\ n + 1 \in 0 .. n + 1
      OBVIOUS
  <2> HIDE DEF U, V
  <2> QED BY <1>2, <2>1
<1>7. U(n) <= V(n)
  <2> HIDE DEF U, V
  <2> QED BY <1>4, <1>6
<1> QED BY <1>5, <1>7
=============================================================================
