---------------------------- MODULE ReportProofs ----------------------------
(***************************************************************************)
(* Proofs about the numbers that are reported: those the dashboard and the *)
(* evaluation derive from the engine's histograms and samples (Stats), and *)
(* those of the production report over the usage log (UsageReport).        *)
(***************************************************************************)
EXTENDS UsageReport, Stats, UsageLogProofs

-----------------------------------------------------------------------------
(* Finite sets: induction, the largest and the least integer.              *)

\* Induction over the subsets of a finite set, the predicate as a set of them.
LEMMA FiniteInduct ==
    ASSUME NEW S, IsFiniteSet(S), NEW P, {} \in P,
           \A T \in SUBSET S : \A x \in S \ T : T \in P => T \cup {x} \in P
    PROVE  \A T \in SUBSET S : T \in P
<1> DEFINE Sizes == {n \in Nat : \A T \in SUBSET S : Cardinality(T) = n => T \in P}
<1>1. \A T \in SUBSET S : IsFiniteSet(T) /\ Cardinality(T) \in Nat
  BY FS_Subset, FS_CardinalityType
<1>2. 0 \in Sizes
  BY <1>1, FS_EmptySet
<1>3. ASSUME NEW n \in Nat, n \in Sizes PROVE n + 1 \in Sizes
  <2> SUFFICES ASSUME NEW T \in SUBSET S, Cardinality(T) = n + 1 PROVE T \in P
    OBVIOUS
  <2>1. T # {}
    BY <1>1, FS_EmptySet
  <2>2. PICK x \in T : TRUE
    BY <2>1
  <2>3. Cardinality(T \ {x}) = n
    <3>1. Cardinality(T \ {x}) = Cardinality(T) - 1
      BY <1>1, <2>2, FS_RemoveElement
    <3> QED BY <3>1
  <2>4. T \ {x} \in P /\ x \in S \ (T \ {x}) /\ T \ {x} \in SUBSET S
    BY <1>3, <2>2, <2>3
  <2>5. (T \ {x}) \cup {x} = T
    BY <2>2
  <2> QED BY <2>4, <2>5
<1> HIDE DEF Sizes
<1>4. \A n \in Nat : n \in Sizes
  BY <1>2, <1>3, Induct
<1> QED BY <1>1, <1>4 DEF Sizes

\* A finite set of integers has a largest member.
LEMMA HasMax ==
    ASSUME NEW S \in SUBSET Int, IsFiniteSet(S), S # {}
    PROVE  Max(S) \in S /\ \A y \in S : Max(S) >= y
<1> DEFINE P == {T \in SUBSET S : T = {} \/ \E m \in T : \A y \in T : m >= y}
<1>1. {} \in P
  OBVIOUS
<1>2. ASSUME NEW T \in SUBSET S, NEW x \in S \ T, T \in P PROVE T \cup {x} \in P
  <2>1. CASE T = {}
    BY <2>1
  <2>2. CASE T # {}
    <3>1. PICK m \in T : \A y \in T : m >= y
      BY <1>2, <2>2
    <3>2. CASE x >= m
      <4>1. \A y \in T \cup {x} : x >= y
        BY <3>1, <3>2
      <4> QED BY <4>1
    <3>3. CASE m >= x
      <4>1. \A y \in T \cup {x} : m >= y
        BY <3>1, <3>3
      <4> QED BY <4>1
    <3> QED BY <3>2, <3>3
  <2> QED BY <2>1, <2>2
<1> HIDE DEF P
<1>3. S \in P
  BY <1>1, <1>2, FiniteInduct
<1>4. \E m \in S : \A y \in S : m >= y
  BY <1>3 DEF P
<1> QED BY <1>4 DEF Max

\* A finite set of integers has a least member.
LEMMA HasMin ==
    ASSUME NEW S \in SUBSET Int, IsFiniteSet(S), S # {}
    PROVE  Min(S) \in S /\ \A y \in S : Min(S) <= y
<1> DEFINE P == {T \in SUBSET S : T = {} \/ \E m \in T : \A y \in T : m <= y}
<1>1. {} \in P
  OBVIOUS
<1>2. ASSUME NEW T \in SUBSET S, NEW x \in S \ T, T \in P PROVE T \cup {x} \in P
  <2>1. CASE T = {}
    BY <2>1
  <2>2. CASE T # {}
    <3>1. PICK m \in T : \A y \in T : m <= y
      BY <1>2, <2>2
    <3>2. CASE x <= m
      <4>1. \A y \in T \cup {x} : x <= y
        BY <3>1, <3>2
      <4> QED BY <4>1
    <3>3. CASE m <= x
      <4>1. \A y \in T \cup {x} : m <= y
        BY <3>1, <3>3
      <4> QED BY <4>1
    <3> QED BY <3>2, <3>3
  <2> QED BY <2>1, <2>2
<1> HIDE DEF P
<1>3. S \in P
  BY <1>1, <1>2, FiniteInduct
<1>4. \E m \in S : \A y \in S : m <= y
  BY <1>3 DEF P
<1> QED BY <1>4 DEF Min

-----------------------------------------------------------------------------
(* Total.  It is a fold, and that a recursion that has a solution; the sum *)
(* does not depend on the order in which the fold takes the elements.      *)

Summed(g, f, S) ==
    [T \in SUBSET S |-> IF T = {} THEN 0
                        ELSE LET x == CHOOSE x \in T : TRUE IN f[x] + g[T \ {x}]]

\* The recursion of a sum over a finite set has a solution.
LEMMA SumExists ==
    ASSUME NEW S, IsFiniteSet(S), NEW f
    PROVE  \E g : g = Summed(g, f, S)
<1> DEFINE Pick(T) == CHOOSE x \in T : TRUE
           Body(g, T) == IF T = {} THEN 0 ELSE f[Pick(T)] + g[T \ {Pick(T)}]
           Upto == {n \in Nat : \E g : \A T \in SUBSET S :
                                  Cardinality(T) <= n => g[T] = Body(g, T)}
<1>1. \A T \in SUBSET S : IsFiniteSet(T) /\ Cardinality(T) \in Nat
  BY FS_Subset, FS_CardinalityType
<1>2. \A T \in SUBSET S : T # {} => /\ Pick(T) \in T
                                   /\ T \ {Pick(T)} \in SUBSET S
                                   /\ Cardinality(T \ {Pick(T)}) = Cardinality(T) - 1
  <2> SUFFICES ASSUME NEW T \in SUBSET S, T # {}
               PROVE  /\ Pick(T) \in T
                      /\ T \ {Pick(T)} \in SUBSET S
                      /\ Cardinality(T \ {Pick(T)}) = Cardinality(T) - 1
    OBVIOUS
  <2>1. Pick(T) \in T
    OBVIOUS
  <2> HIDE DEF Pick
  <2> QED BY <1>1, <2>1, FS_RemoveElement
<1> HIDE DEF Pick
<1>3. 0 \in Upto
  <2> DEFINE g == [T \in SUBSET S |-> 0]
  <2>1. ASSUME NEW T \in SUBSET S, Cardinality(T) <= 0 PROVE g[T] = Body(g, T)
    <3>1. T = {}
      BY <1>1, <2>1, FS_EmptySet
    <3> QED BY <3>1
  <2> HIDE DEF Body, g
  <2> QED BY <2>1
<1>4. ASSUME NEW n \in Nat, n \in Upto PROVE n + 1 \in Upto
  <2>1. PICK g : \A T \in SUBSET S : Cardinality(T) <= n => g[T] = Body(g, T)
    BY <1>4
  <2> DEFINE h == [T \in SUBSET S |-> IF Cardinality(T) <= n THEN g[T] ELSE Body(g, T)]
  <2>2. ASSUME NEW T \in SUBSET S, Cardinality(T) <= n + 1 PROVE h[T] = Body(h, T)
    <3>1. h[T] = Body(g, T)
      <4> HIDE DEF Body
      <4> QED BY <2>1
    <3>2. CASE T = {}
      BY <3>1, <3>2
    <3>3. CASE T # {}
      <4>1. T \ {Pick(T)} \in SUBSET S /\ Cardinality(T \ {Pick(T)}) <= n
        BY <1>1, <1>2, <2>2, <3>3
      <4>2. h[T \ {Pick(T)}] = g[T \ {Pick(T)}]
        BY <4>1
      <4> HIDE DEF h
      <4> QED BY <3>1, <3>3, <4>2
    <3> QED BY <3>2, <3>3
  <2> HIDE DEF Body, h
  <2> QED BY <2>2
<1>5. Cardinality(S) \in Upto
  <2> HIDE DEF Upto
  <2>1. \A n \in Nat : n \in Upto
    BY <1>3, <1>4, Induct
  <2> QED BY <1>1, <2>1
<1>6. PICK g : \A T \in SUBSET S : Cardinality(T) <= Cardinality(S) => g[T] = Body(g, T)
  BY <1>5
<1>7. \A T \in SUBSET S : g[T] = Body(g, T)
  <2> HIDE DEF Body
  <2>1. \A T \in SUBSET S : Cardinality(T) <= Cardinality(S)
    BY FS_Subset
  <2> QED BY <1>6, <2>1
<1> DEFINE h == [T \in SUBSET S |-> g[T]]
<1>8. ASSUME NEW T \in SUBSET S PROVE h[T] = Body(h, T)
  <2>1. CASE T = {}
    BY <1>7, <2>1
  <2>2. CASE T # {}
    <3>1. h[T \ {Pick(T)}] = g[T \ {Pick(T)}]
      BY <1>2, <2>2
    <3> QED BY <1>7, <2>2, <3>1
  <2> QED BY <2>1, <2>2
<1>9. h = [T \in SUBSET S |-> Body(h, T)]
  <2>1. h = [T \in SUBSET S |-> h[T]]
    OBVIOUS
  <2> HIDE DEF h, Body
  <2> QED BY <1>8, <2>1
<1>10. h = Summed(h, f, S)
  <2> HIDE DEF h
  <2> QED BY <1>9 DEF Summed, Pick
<1> QED BY <1>10

\* The sum over a set is that over all but one of its elements and that one.
LEMMA TotalStep ==
    ASSUME NEW S, IsFiniteSet(S), NEW f
    PROVE  /\ Total(f, {}) = 0
           /\ S # {} => \E x \in S : Total(f, S) = f[x] + Total(f, S \ {x})
<1> DEFINE Sol(T) == CHOOSE g : g = Summed(g, f, T)
           Pick(T) == CHOOSE x \in T : TRUE
<1>1. ASSUME NEW T PROVE Total(f, T) = Sol(T)[T]
  BY Zenon DEF Total, MapThenSumSet, MapThenFoldSet, Summed
<1>2. ASSUME NEW T, IsFiniteSet(T) PROVE Sol(T) = Summed(Sol(T), f, T)
  BY <1>2, SumExists
<1> HIDE DEF Sol
<1>3. ASSUME NEW T, IsFiniteSet(T), NEW U \in SUBSET T
      PROVE  Sol(T)[U] = IF U = {} THEN 0 ELSE f[Pick(U)] + Sol(T)[U \ {Pick(U)}]
  <2> DEFINE s == Sol(T)
  <2>1. s = Summed(s, f, T)
    BY <1>2, <1>3
  <2> HIDE DEF s
  <2>2. s[U] = IF U = {} THEN 0 ELSE f[Pick(U)] + s[U \ {Pick(U)}]
    BY <2>1 DEF Summed
  <2> QED BY <2>2 DEF s
<1>4. ASSUME NEW T, IsFiniteSet(T), NEW V \in SUBSET T
      PROVE  \A U \in SUBSET V : Sol(T)[U] = Sol(V)[U]
  <2> DEFINE Same == {n \in Nat : \A U \in SUBSET V :
                                    Cardinality(U) = n => Sol(T)[U] = Sol(V)[U]}
  <2>1. IsFiniteSet(V)
    BY <1>4, FS_Subset
  <2>2. \A U \in SUBSET V : IsFiniteSet(U) /\ Cardinality(U) \in Nat /\ U \in SUBSET T
    BY <2>1, FS_Subset, FS_CardinalityType
  <2>3. 0 \in Same
    <3>1. ASSUME NEW U \in SUBSET V, Cardinality(U) = 0 PROVE Sol(T)[U] = Sol(V)[U]
      <4>1. U = {}
        BY <2>2, <3>1, FS_EmptySet
      <4> QED BY <1>3, <1>4, <2>1, <2>2, <4>1
    <3> QED BY <3>1
  <2>4. ASSUME NEW n \in Nat, n \in Same PROVE n + 1 \in Same
    <3>1. ASSUME NEW U \in SUBSET V, Cardinality(U) = n + 1 PROVE Sol(T)[U] = Sol(V)[U]
      <4>1. U # {}
        BY <2>2, <3>1, FS_EmptySet
      <4>2. Pick(U) \in U
        BY <4>1
      <4> HIDE DEF Pick
      <4>3. Cardinality(U \ {Pick(U)}) = n /\ U \ {Pick(U)} \in SUBSET V
        BY <2>2, <3>1, <4>2, FS_RemoveElement
      <4>4. Sol(T)[U \ {Pick(U)}] = Sol(V)[U \ {Pick(U)}]
        BY <2>4, <4>3
      <4>5. Sol(T)[U] = f[Pick(U)] + Sol(T)[U \ {Pick(U)}]
        BY <1>3, <1>4, <2>2, <4>1
      <4>6. Sol(V)[U] = f[Pick(U)] + Sol(V)[U \ {Pick(U)}]
        BY <1>3, <2>1, <4>1
      <4> QED BY <4>4, <4>5, <4>6
    <3> QED BY <3>1
  <2> HIDE DEF Same
  <2>5. \A n \in Nat : n \in Same
    BY <2>3, <2>4, Induct
  <2> QED BY <2>2, <2>5 DEF Same
<1>5. Total(f, {}) = 0
  BY <1>1, <1>3, FS_EmptySet
<1>6. ASSUME S # {} PROVE Total(f, S) = f[Pick(S)] + Total(f, S \ {Pick(S)}) /\ Pick(S) \in S
  <2>1. Pick(S) \in S
    BY <1>6
  <2> HIDE DEF Pick
  <2> DEFINE R == S \ {Pick(S)}
  <2>2. R \in SUBSET S
    OBVIOUS
  <2>3. Sol(S)[S] = f[Pick(S)] + Sol(S)[R]
    BY <1>3, <1>6
  <2>4. Sol(S)[R] = Sol(R)[R]
    BY <1>4, <2>2
  <2> QED BY <1>1, <2>1, <2>3, <2>4
<1> QED BY <1>5, <1>6

\* A sum of integers is one, and a sum of naturals a natural.
LEMMA TotalType ==
    ASSUME NEW S, IsFiniteSet(S), NEW f, \A x \in S : f[x] \in Int
    PROVE  /\ Total(f, S) \in Int
           /\ (\A x \in S : f[x] >= 0) => Total(f, S) >= 0
<1> DEFINE P == {T \in SUBSET S : /\ Total(f, T) \in Int
                                  /\ (\A x \in S : f[x] >= 0) => Total(f, T) >= 0}
           Sizes == {n \in Nat : \A T \in SUBSET S : Cardinality(T) = n => T \in P}
<1>1. \A T \in SUBSET S : IsFiniteSet(T) /\ Cardinality(T) \in Nat
  BY FS_Subset, FS_CardinalityType
<1>2. 0 \in Sizes
  <2> SUFFICES ASSUME NEW T \in SUBSET S, Cardinality(T) = 0 PROVE T \in P
    OBVIOUS
  <2>1. T = {}
    BY <1>1, FS_EmptySet
  <2>2. Total(f, {}) = 0
    BY FS_EmptySet, TotalStep
  <2> QED BY <2>1, <2>2
<1>3. ASSUME NEW n \in Nat, n \in Sizes PROVE n + 1 \in Sizes
  <2> SUFFICES ASSUME NEW T \in SUBSET S, Cardinality(T) = n + 1 PROVE T \in P
    OBVIOUS
  <2>1. T # {}
    BY <1>1, FS_EmptySet
  <2>2. PICK x \in T : Total(f, T) = f[x] + Total(f, T \ {x})
    BY <1>1, <2>1, TotalStep
  <2>3. Cardinality(T \ {x}) = Cardinality(T) - 1
    BY <1>1, FS_RemoveElement
  <2>4. T \ {x} \in P
    BY <1>3, <2>3
  <2> QED BY <2>2, <2>4
<1> HIDE DEF Sizes
<1>4. \A n \in Nat : n \in Sizes
  BY <1>2, <1>3, Induct
<1>5. S \in P
  <2> HIDE DEF P
  <2> QED BY <1>1, <1>4 DEF Sizes
<1> QED BY <1>5

\* The order does not matter: any element can be the one added last.
LEMMA TotalAdd ==
    ASSUME NEW S, IsFiniteSet(S), NEW f, \A y \in S : f[y] \in Int,
           NEW x \in S
    PROVE  Total(f, S) = f[x] + Total(f, S \ {x})
<1> DEFINE Sizes == {n \in Nat : \A T \in SUBSET S : Cardinality(T) = n =>
                        \A y \in T : Total(f, T) = f[y] + Total(f, T \ {y})}
<1>1. \A T \in SUBSET S : /\ IsFiniteSet(T) /\ Cardinality(T) \in Nat
                          /\ Total(f, T) \in Int
  BY FS_Subset, FS_CardinalityType, TotalType
<1>2. 0 \in Sizes
  <2> SUFFICES ASSUME NEW T \in SUBSET S, Cardinality(T) = 0 PROVE T = {}
    OBVIOUS
  <2> QED BY <1>1, FS_EmptySet
<1>3. ASSUME NEW n \in Nat, n \in Sizes PROVE n + 1 \in Sizes
  <2> SUFFICES ASSUME NEW T \in SUBSET S, Cardinality(T) = n + 1, NEW y \in T
               PROVE  Total(f, T) = f[y] + Total(f, T \ {y})
    OBVIOUS
  <2>1. PICK z \in T : Total(f, T) = f[z] + Total(f, T \ {z})
    BY <1>1, TotalStep
  <2>2. CASE z = y
    BY <2>1, <2>2
  <2>3. CASE z # y
    <3> DEFINE U == T \ {z}
               V == T \ {y}
    <3>1. Cardinality(U) = n /\ Cardinality(V) = n
      <4>1. Cardinality(U) = Cardinality(T) - 1 /\ Cardinality(V) = Cardinality(T) - 1
        BY <1>1, FS_RemoveElement
      <4> QED BY <4>1
    <3>2. U \in SUBSET S /\ V \in SUBSET S /\ y \in U /\ z \in V
      BY <2>3
    <3>3. U \ {y} = V \ {z} /\ U \ {y} \in SUBSET S
      OBVIOUS
    <3> HIDE DEF U, V
    <3>4. Total(f, U) = f[y] + Total(f, U \ {y})
      BY <1>3, <3>1, <3>2
    <3>5. Total(f, V) = f[z] + Total(f, U \ {y})
      BY <1>3, <3>1, <3>2, <3>3
    <3>6. f[y] \in Int /\ f[z] \in Int /\ Total(f, U \ {y}) \in Int
      BY <1>1, <3>3
    <3>7. Total(f, T) = f[z] + Total(f, U)
      BY <2>1 DEF U
    <3>8. Total(f, T) = f[y] + Total(f, V)
      BY ONLY <3>4, <3>5, <3>6, <3>7
    <3> QED BY <3>8 DEF V
  <2> QED BY <2>2, <2>3
<1> HIDE DEF Sizes
<1>4. \A n \in Nat : n \in Sizes
  BY <1>2, <1>3, Induct
<1> QED BY <1>1, <1>4 DEF Sizes

\* An element more.
LEMMA TotalInsert ==
    ASSUME NEW S, IsFiniteSet(S), NEW f, NEW x, x \notin S,
           f[x] \in Int, \A y \in S : f[y] \in Int
    PROVE  Total(f, S \cup {x}) = f[x] + Total(f, S)
<1>1. IsFiniteSet(S \cup {x})
  BY FS_AddElement
<1>2. (S \cup {x}) \ {x} = S
  OBVIOUS
<1> DEFINE T == S \cup {x}
<1>3. x \in T /\ \A y \in T : f[y] \in Int
  OBVIOUS
<1> HIDE DEF T
<1>4. Total(f, T) = f[x] + Total(f, T \ {x})
  BY <1>1, <1>3, TotalAdd DEF T
<1> QED BY <1>2, <1>4 DEF T

\* Functions that agree on a set have the same sum over it.
LEMMA TotalSame ==
    ASSUME NEW S, IsFiniteSet(S), NEW f, NEW g,
           \A x \in S : f[x] \in Int /\ f[x] = g[x]
    PROVE  Total(f, S) = Total(g, S)
<1> DEFINE P == {T \in SUBSET S : Total(f, T) = Total(g, T)}
<1>1. {} \in P
  BY FS_EmptySet, TotalStep
<1>2. ASSUME NEW T \in SUBSET S, NEW x \in S \ T, T \in P PROVE T \cup {x} \in P
  <2>1. IsFiniteSet(T)
    BY FS_Subset
  <2>2. Total(f, T \cup {x}) = f[x] + Total(f, T)
    BY <2>1, TotalInsert
  <2>3. Total(g, T \cup {x}) = g[x] + Total(g, T)
    BY <2>1, TotalInsert
  <2> QED BY <1>2, <2>2, <2>3
<1> HIDE DEF P
<1>3. S \in P
  BY <1>1, <1>2, FiniteInduct
<1> QED BY <1>3 DEF P

\* The sum of a sum.
LEMMA TotalPlus ==
    ASSUME NEW S, IsFiniteSet(S), NEW f, NEW g, NEW h,
           \A x \in S : f[x] \in Int /\ g[x] \in Int /\ h[x] = f[x] + g[x]
    PROVE  Total(h, S) = Total(f, S) + Total(g, S)
<1> DEFINE P == {T \in SUBSET S : Total(h, T) = Total(f, T) + Total(g, T)}
<1>1. {} \in P
  BY FS_EmptySet, TotalStep
<1>2. ASSUME NEW T \in SUBSET S, NEW x \in S \ T, T \in P PROVE T \cup {x} \in P
  <2>1. IsFiniteSet(T)
    BY FS_Subset
  <2>2. Total(f, T \cup {x}) = f[x] + Total(f, T)
    BY <2>1, TotalInsert
  <2>3. Total(g, T \cup {x}) = g[x] + Total(g, T)
    BY <2>1, TotalInsert
  <2>4. Total(h, T \cup {x}) = h[x] + Total(h, T)
    <3>1. h[x] \in Int /\ \A y \in T : h[y] \in Int
      OBVIOUS
    <3> QED BY <2>1, <3>1, TotalInsert
  <2>5. Total(f, T) \in Int /\ Total(g, T) \in Int
    BY <2>1, TotalType
  <2>6. Total(h, T) = Total(f, T) + Total(g, T) /\ h[x] = f[x] + g[x]
        /\ f[x] \in Int /\ g[x] \in Int
    BY <1>2
  <2>7. Total(h, T \cup {x}) = Total(f, T \cup {x}) + Total(g, T \cup {x})
    BY ONLY <2>2, <2>3, <2>4, <2>5, <2>6
  <2> QED BY <2>7
<1> HIDE DEF P
<1>3. S \in P
  BY <1>1, <1>2, FiniteInduct
<1> QED BY <1>3 DEF P

\* Fewer naturals have no larger a sum.
LEMMA TotalMono ==
    ASSUME NEW S, IsFiniteSet(S), NEW f, \A x \in S : f[x] \in Nat,
           NEW T \in SUBSET S
    PROVE  Total(f, T) <= Total(f, S)
<1> DEFINE P == {U \in SUBSET S : Total(f, U \cap T) <= Total(f, U)}
<1>1. {} \in P
  <2>1. {} \cap T = {} /\ Total(f, {}) = 0
    BY FS_EmptySet, TotalStep
  <2> QED BY <2>1
<1>2. ASSUME NEW U \in SUBSET S, NEW x \in S \ U, U \in P PROVE U \cup {x} \in P
  <2>1. IsFiniteSet(U) /\ IsFiniteSet(U \cap T)
    BY FS_Subset
  <2>2. Total(f, U \cup {x}) = f[x] + Total(f, U)
    BY <2>1, TotalInsert
  <2>3. Total(f, U) \in Int /\ Total(f, U \cap T) \in Int /\ f[x] \in Nat
    BY <2>1, TotalType
  <2>4. Total(f, U \cap T) <= Total(f, U)
    BY <1>2
  <2>5. CASE x \in T
    <3>1. (U \cup {x}) \cap T = (U \cap T) \cup {x}
      BY <2>5
    <3>2. Total(f, (U \cap T) \cup {x}) = f[x] + Total(f, U \cap T)
      <4>1. x \notin U \cap T /\ f[x] \in Int /\ \A y \in U \cap T : f[y] \in Int
        BY <1>2
      <4> DEFINE W == U \cap T
      <4> HIDE DEF W
      <4> QED BY <2>1, <4>1, TotalInsert DEF W
    <3>3. Total(f, (U \cup {x}) \cap T) = Total(f, (U \cap T) \cup {x})
      BY <3>1, Zenon
    <3>4. Total(f, (U \cup {x}) \cap T) <= Total(f, U \cup {x})
      BY <2>2, <2>3, <2>4, <3>2, <3>3
    <3> QED BY <3>4
  <2>6. CASE x \notin T
    <3>1. (U \cup {x}) \cap T = U \cap T
      BY <2>6
    <3>2. Total(f, (U \cup {x}) \cap T) = Total(f, U \cap T)
      BY <3>1, Zenon
    <3>3. Total(f, (U \cup {x}) \cap T) <= Total(f, U \cup {x})
      BY <2>2, <2>3, <2>4, <3>2
    <3> QED BY <3>3
  <2> QED BY <2>5, <2>6
<1> HIDE DEF P
<1>3. S \in P
  BY <1>1, <1>2, FiniteInduct
<1>4. S \cap T = T
  OBVIOUS
<1> QED BY <1>3, <1>4 DEF P

\* One element counts one more.
LEMMA TotalOneMore ==
    ASSUME NEW S, IsFiniteSet(S), NEW f, NEW g, NEW v \in S,
           \A x \in S : f[x] \in Int /\ g[x] = IF x = v THEN f[x] + 1 ELSE f[x]
    PROVE  Total(g, S) = Total(f, S) + 1
<1>1. IsFiniteSet(S \ {v})
  BY FS_RemoveElement
<1>2. Total(f, S \ {v}) = Total(g, S \ {v}) /\ Total(f, S \ {v}) \in Int
  <2>1. \A x \in S \ {v} : f[x] \in Int /\ f[x] = g[x]
    OBVIOUS
  <2> QED BY <1>1, <2>1, TotalSame, TotalType
<1>3. Total(f, S) = f[v] + Total(f, S \ {v})
  BY TotalAdd
<1>4. Total(g, S) = g[v] + Total(g, S \ {v})
  <2>1. \A x \in S : g[x] \in Int
    OBVIOUS
  <2> QED BY <2>1, TotalAdd
<1> QED BY <1>2, <1>3, <1>4

\* Nothing but zeros sums to zero.
LEMMA TotalZero ==
    ASSUME NEW S, IsFiniteSet(S), NEW f, \A x \in S : f[x] = 0
    PROVE  Total(f, S) = 0
<1> DEFINE P == {T \in SUBSET S : Total(f, T) = 0}
<1>1. {} \in P
  BY FS_EmptySet, TotalStep
<1>2. ASSUME NEW T \in SUBSET S, NEW x \in S \ T, T \in P PROVE T \cup {x} \in P
  <2>1. IsFiniteSet(T)
    BY FS_Subset
  <2>2. x \notin T /\ f[x] = 0 /\ \A y \in T : f[y] \in Int
    OBVIOUS
  <2>3. Total(f, T \cup {x}) = f[x] + Total(f, T)
    <3>1. f[x] \in Int
      BY <2>2
    <3> QED BY <2>1, <2>2, <3>1, TotalInsert
  <2> QED BY <1>2, <2>2, <2>3
<1> HIDE DEF P
<1>3. S \in P
  BY <1>1, <1>2, FiniteInduct
<1> QED BY <1>3 DEF P

-----------------------------------------------------------------------------
(* Products of integers, for the provers' sake.                            *)

\* A factor that is not negative keeps an inequality.
LEMMA TimesMono ==
    ASSUME NEW a \in Int, NEW b \in Int, NEW c \in Int, a <= b, 0 <= c
    PROVE  a * c <= b * c /\ c * a <= c * b /\ a * c \in Int /\ b * c \in Int
           /\ c * a \in Int /\ c * b \in Int
OBVIOUS

\* A positive one keeps a strict inequality.
LEMMA TimesStrict ==
    ASSUME NEW a \in Int, NEW b \in Int, NEW c \in Int, a < b, 0 < c
    PROVE  a * c < b * c /\ c * a < c * b /\ a * c \in Int /\ b * c \in Int
           /\ c * a \in Int /\ c * b \in Int
OBVIOUS

\* Fractions are ordered as by an integer between them.
LEMMA FractionsApart ==
    ASSUME NEW a \in Int, NEW b \in Int, NEW c \in Int, NEW d \in Int,
           NEW m \in Int, 0 < b, 0 < d, a <= m * b, m * d <= c
    PROVE  a * d <= c * b
<1>1. a * d <= (m * b) * d
  BY TimesMono
<1>2. (m * d) * b <= c * b
  BY TimesMono
<1>3. (m * b) * d = (m * d) * b
  OBVIOUS
<1>4. a * d \in Int /\ (m * d) * b \in Int /\ c * b \in Int
  OBVIOUS
<1> QED BY ONLY <1>1, <1>2, <1>3, <1>4

-----------------------------------------------------------------------------
(* The buckets.                                                            *)

UpTo(b) == {v \in Latencies : v <= b}
Counts(f) == [b \in Les |-> Total(f, UpTo(b))]
Cumulative(c) == c \in [Les -> Nat] /\ \A a, b \in Les : a <= b => c[a] <= c[b]

\* The bounds are finitely many positive naturals, and Inf is beyond every
\* latency and every other bound.
LEMMA LesFacts ==
    /\ Les \subseteq Nat \ {0} /\ IsFiniteSet(Les) /\ Inf \in Les
    /\ \A b \in Les : b <= Inf
    /\ Latencies \subseteq Nat \ {0} /\ IsFiniteSet(Latencies) /\ Latencies # {}
    /\ \A v \in Latencies : v < Inf
<1> DEFINE A == Latencies \cup Bounds
<1>1. A \in SUBSET Int /\ A # {} /\ A \subseteq Nat \ {0}
  BY StatsAssumption
<1>2. IsFiniteSet(A)
  BY StatsAssumption, FS_Union
<1>3. Inf = Max(A) + 1
  BY DEF Inf
<1> HIDE DEF A
<1>4. Max(A) \in A /\ \A y \in A : Max(A) >= y
  BY <1>1, <1>2, HasMax
<1>5. Inf \in Nat \ {0} /\ \A y \in A : y < Inf
  <2>1. Max(A) \in Nat /\ \A y \in A : y \in Nat
    BY <1>1, <1>4
  <2> QED BY <1>3, <1>4, <2>1
<1>6. Les = Bounds \cup {Inf}
  BY DEF Les
<1>7. IsFiniteSet(Les)
  BY <1>6, StatsAssumption, FS_AddElement
<1>8. Bounds \subseteq Nat \ {0}
  BY StatsAssumption
<1>9. Les \subseteq Nat \ {0} /\ Inf \in Les /\ \A b \in Les : b <= Inf
  <2>1. \A b \in Bounds : b \in Nat \ {0} /\ b < Inf
    BY <1>5, <1>8 DEF A
  <2> QED BY <1>5, <1>6, <2>1
<1> QED BY <1>5, <1>7, <1>9, StatsAssumption DEF A

\* So are the sets of latencies and of bounds that are cut from them.
LEMMA SubsetFacts ==
    ASSUME NEW T
    PROVE  /\ T \subseteq Latencies => IsFiniteSet(T) /\ T \in SUBSET Int
           /\ T \subseteq Les => IsFiniteSet(T) /\ T \in SUBSET Int
<1>1. IsFiniteSet(Latencies) /\ IsFiniteSet(Les)
  BY LesFacts
<1>2. \A x \in Latencies \cup Les : x \in Int
  BY LesFacts
<1>3. T \subseteq Latencies => IsFiniteSet(T)
  BY <1>1, FS_Subset
<1>4. T \subseteq Les => IsFiniteSet(T)
  BY <1>1, FS_Subset
<1> QED BY <1>2, <1>3, <1>4

\* The lower bound of a bucket lies below it, and no other bound between them.
LEMMA LowerFacts ==
    ASSUME NEW b \in Les
    PROVE  /\ Lower(b) \in Nat /\ Lower(b) < b
           /\ Lower(b) \in Les \/ Lower(b) = 0
           /\ \A a \in Les : a < b => a <= Lower(b)
<1> DEFINE A == {0} \cup {a \in Les : a < b}
<1>1. A \in SUBSET Int /\ A # {} /\ \A a \in A : a \in Nat /\ a < b
  <2>1. b \in Nat /\ 0 < b /\ \A a \in Les : a \in Nat
    BY LesFacts
  <2>2. \A a \in A : a \in Nat /\ a < b
    BY <2>1
  <2>3. 0 \in A
    OBVIOUS
  <2> HIDE DEF A
  <2> QED BY <2>2, <2>3
<1>2. IsFiniteSet(A)
  <2>1. IsFiniteSet({a \in Les : a < b})
    BY LesFacts, FS_Subset
  <2>2. IsFiniteSet({a \in Les : a < b} \cup {0})
    BY <2>1, FS_AddElement
  <2>3. {a \in Les : a < b} \cup {0} = A
    OBVIOUS
  <2> QED BY <2>2, <2>3
<1>3. Lower(b) = Max(A)
  BY DEF Lower
<1>4. Max(A) \in A /\ \A y \in A : Max(A) >= y
  <2> HIDE DEF A
  <2> QED BY <1>1, <1>2, HasMax
<1>5. Lower(b) \in A /\ \A y \in A : Lower(b) >= y
  BY <1>3, <1>4
<1>6. \A a \in Les : a < b => a \in A
  OBVIOUS
<1>7. Lower(b) \in Nat /\ Lower(b) < b
  BY <1>1, <1>5
<1>8. Lower(b) \in Les \/ Lower(b) = 0
  BY <1>5
<1> QED BY <1>5, <1>6, <1>7, <1>8, LesFacts

\* The bucket that reaches a rank is the first that does.
LEMMA ReachedFacts ==
    ASSUME NEW c, Cumulative(c), NEW want \in Int, want <= 100 * c[Inf]
    PROVE  /\ Reached(c, want) \in Les /\ 100 * c[Reached(c, want)] >= want
           /\ \A a \in Les : a < Reached(c, want) => 100 * c[a] < want
<1> DEFINE A == {b \in Les : 100 * c[b] >= want}
<1>1. c \in [Les -> Nat]
  BY DEF Cumulative
<1>2. A \in SUBSET Int /\ IsFiniteSet(A)
  <2>1. A \subseteq Les
    OBVIOUS
  <2> HIDE DEF A
  <2> QED BY <2>1, SubsetFacts
<1>3. Inf \in A
  BY <1>1, LesFacts
<1>4. Reached(c, want) = Min(A)
  BY DEF Reached
<1>5. Min(A) \in A /\ \A y \in A : Min(A) <= y
  <2> HIDE DEF A
  <2> QED BY <1>2, <1>3, HasMin
<1>6. Reached(c, want) \in Les /\ 100 * c[Reached(c, want)] >= want
  BY <1>4, <1>5
<1>7. ASSUME NEW a \in Les, a < Reached(c, want) PROVE 100 * c[a] < want
  <2>1. a \notin A
    <3>1. a \in Int /\ Reached(c, want) \in Int
      <4>1. \A e \in Les : e \in Int
        BY LesFacts
      <4> QED BY <1>6, <4>1
    <3> HIDE DEF A
    <3> QED BY <1>4, <1>5, <1>7, <3>1
  <2>2. ~(100 * c[a] >= want) /\ c[a] \in Nat
    BY <1>1, <2>1
  <2> QED BY <2>2
<1> QED BY <1>6, <1>7

\* A rank is positive, and within what was counted.
LEMMA RankFacts ==
    ASSUME NEW n \in Nat, n > 0, NEW q \in 1..100
    PROVE  q * n \in Nat /\ 0 < q * n /\ q * n <= 100 * n
BY TimesMono, TimesStrict

\* The value interpolated in a bucket lies above its lower bound and at most
\* at its upper one.
LEMMA BetweenFacts ==
    ASSUME NEW low \in Nat, NEW bound \in Nat, low < bound,
           NEW want \in Int, NEW count \in Nat, NEW span \in Int,
           100 * count < want, want <= 100 * (count + span)
    PROVE  LET p == Between(low, bound, want, count, span)
           IN  /\ p \in Int \X Int /\ 0 < p[2]
               /\ low * p[2] < p[1] /\ p[1] <= bound * p[2]
<1> DEFINE den  == 100 * span
           rest == want - 100 * count
           num  == low * 100 * span + (bound - low) * rest
<1>1. den \in Int /\ 0 < den /\ rest \in Int /\ 0 < rest /\ rest <= den
  OBVIOUS
<1>2. low * 100 * span = low * den
  OBVIOUS
<1>3. num = low * den + (bound - low) * rest
  BY <1>2
<1> DEFINE width == bound - low
<1>4. width \in Nat /\ 0 < width /\ bound = low + width
  OBVIOUS
<1>5. 0 < width * rest /\ width * rest <= width * den /\ width * rest \in Int
  <2> HIDE DEF width, den, rest
  <2> QED BY <1>1, <1>4, TimesMono, TimesStrict
<1>6. num = low * den + width * rest
  BY <1>3
<1>7. Between(low, bound, want, count, span) = <<num, den>>
  BY DEF Between
<1> HIDE DEF width, den, rest, num
<1>8. low * den \in Int /\ bound * den = low * den + width * den /\ width * den \in Int
  BY <1>1, <1>4
<1>9. num \in Int /\ low * den < num /\ num <= bound * den
  BY <1>5, <1>6, <1>8
<1> QED BY <1>1, <1>7, <1>9

\* A percentile lies in the bucket that its rank reaches.
LEMMA PercentileFacts ==
    ASSUME NEW c, Cumulative(c), c[Inf] > 0, NEW q \in 1..100
    PROVE  LET p     == PercentileOf(c, q)
               bound == Reached(c, q * c[Inf])
           IN  /\ p \in Int \X Int /\ 0 < p[2]
               /\ bound = Inf => p = <<Lower(bound), 1>>
               /\ bound # Inf => /\ Lower(bound) * p[2] < p[1]
                                 /\ p[1] <= bound * p[2]
<1> DEFINE want  == q * c[Inf]
           bound == Reached(c, want)
           low   == Lower(bound)
           count == IF low \in Les THEN c[low] ELSE 0
           span  == c[bound] - count
           p     == PercentileOf(c, q)
<1>1. c \in [Les -> Nat] /\ c[Inf] \in Nat
  BY LesFacts DEF Cumulative
<1>2. want \in Nat /\ 0 < want /\ want <= 100 * c[Inf]
  BY <1>1, RankFacts
<1> HIDE DEF want
<1>3. /\ bound \in Les /\ 100 * c[bound] >= want
      /\ \A a \in Les : a < bound => 100 * c[a] < want
  BY <1>2, ReachedFacts
<1> HIDE DEF bound
<1>4. /\ low \in Nat /\ low < bound
      /\ low \in Les \/ low = 0
  BY <1>3, LowerFacts
<1>5. p = IF bound = Inf THEN <<low, 1>> ELSE Between(low, bound, want, count, span)
  BY DEF PercentileOf, bound, want
<1> HIDE DEF low, p
<1>6. count \in Nat /\ 100 * count < want
  <2>1. CASE low \in Les
    <3>1. 100 * c[low] < want /\ c[low] \in Nat
      BY <1>1, <1>3, <1>4, <2>1
    <3> QED BY <2>1, <3>1
  <2>2. CASE low \notin Les
    BY <1>2, <2>2
  <2> QED BY <2>1, <2>2
<1>7. c[bound] \in Nat /\ bound \in Nat
  BY <1>1, <1>3, LesFacts
<1>8. span \in Int /\ want <= 100 * (count + span)
  <2> HIDE DEF count
  <2>1. count + span = c[bound]
    BY <1>6, <1>7
  <2> QED BY <1>3, <1>6, <1>7, <2>1
<1> HIDE DEF count, span
<1>9. CASE bound = Inf
  <2>1. p = <<low, 1>>
    BY <1>5, <1>9
  <2>2. p \in Int \X Int /\ 0 < p[2]
    BY <1>4, <2>1
  <2> QED BY <1>9, <2>1, <2>2 DEF p, low, bound, want
<1>10. CASE bound # Inf
  <2>1. p = Between(low, bound, want, count, span)
    BY <1>5, <1>10
  <2> DEFINE r == Between(low, bound, want, count, span)
  <2>2. r \in Int \X Int /\ 0 < r[2] /\ low * r[2] < r[1] /\ r[1] <= bound * r[2]
    <3>1. /\ low \in Nat /\ bound \in Nat /\ low < bound /\ want \in Int
          /\ count \in Nat /\ span \in Int
          /\ 100 * count < want /\ want <= 100 * (count + span)
      BY <1>2, <1>4, <1>6, <1>7, <1>8
    <3> QED BY ONLY <3>1, BetweenFacts
  <2> HIDE DEF r
  <2>3. p \in Int \X Int /\ 0 < p[2] /\ low * p[2] < p[1] /\ p[1] <= bound * p[2]
    BY <2>1, <2>2 DEF r
  <2> QED BY <1>10, <2>3 DEF p, low, bound, want
<1> QED BY <1>9, <1>10

\* So many latencies are a natural number of them.
LEMMA TotalNat ==
    ASSUME NEW f \in [Latencies -> Nat], NEW T \in SUBSET Latencies
    PROVE  Total(f, T) \in Nat
<1>1. IsFiniteSet(T)
  BY SubsetFacts
<1>2. \A x \in T : f[x] \in Int /\ f[x] >= 0
  OBVIOUS
<1>3. Total(f, T) \in Int /\ Total(f, T) >= 0
  BY <1>1, <1>2, TotalType
<1> QED BY <1>3

\* The buckets of counted latencies are cumulative and end with their number.
LEMMA CountsFacts ==
    ASSUME NEW f \in [Latencies -> Nat]
    PROVE  /\ Cumulative(Counts(f)) /\ Counts(f)[Inf] = Total(f, Latencies)
           /\ Total(f, Latencies) \in Nat
           /\ \A b \in Les : UpTo(b) \subseteq Latencies /\ IsFiniteSet(UpTo(b))
<1>1. \A b : UpTo(b) \subseteq Latencies /\ IsFiniteSet(UpTo(b))
  BY SubsetFacts DEF UpTo
<1>2. \A v \in Latencies : f[v] \in Nat
  OBVIOUS
<1>3. ASSUME NEW T \in SUBSET Latencies PROVE Total(f, T) \in Nat
  BY TotalNat
<1>4. Counts(f) \in [Les -> Nat]
  BY <1>1, <1>3 DEF Counts
<1>5. ASSUME NEW a \in Les, NEW b \in Les, a <= b PROVE Counts(f)[a] <= Counts(f)[b]
  <2>1. UpTo(a) \in SUBSET UpTo(b)
    <3>1. \A v \in Latencies : v \in Int
      BY LesFacts
    <3>2. a \in Int /\ b \in Int
      BY LesFacts
    <3> QED BY <1>5, <3>1, <3>2 DEF UpTo
  <2>2. \A x \in UpTo(b) : f[x] \in Nat
    BY <1>1, <1>2
  <2>3. Total(f, UpTo(a)) <= Total(f, UpTo(b))
    BY <1>1, <2>1, <2>2, TotalMono
  <2> QED BY <2>3 DEF Counts
<1>6. UpTo(Inf) = Latencies
  <2>1. \A v \in Latencies : v <= Inf
    <3>1. \A v \in Latencies : v < Inf /\ v \in Int /\ Inf \in Int
      BY LesFacts
    <3> QED BY <3>1
  <2> QED BY <2>1 DEF UpTo
<1>7. Counts(f)[Inf] = Total(f, Latencies)
  <2>1. Counts(f)[Inf] = Total(f, UpTo(Inf))
    BY LesFacts DEF Counts
  <2> QED BY <1>6, <2>1, Zenon
<1> QED BY <1>1, <1>3, <1>4, <1>5, <1>7 DEF Cumulative

\* A percentile of the buckets of f lies in the bucket of f's true percentile.
LEMMA PercentileOfCounts ==
    ASSUME NEW f \in [Latencies -> Nat], Total(f, Latencies) > 0, NEW q \in 1..100
    PROVE  InBucket(PercentileOf(Counts(f), q), f, q)
<1> DEFINE n     == Total(f, Latencies)
           c     == Counts(f)
           want  == q * n
           T     == {v \in Latencies : 100 * Total(f, UpTo(v)) >= want}
           true  == Min(T)
           A     == {b \in Les : true <= b}
           up    == Min(A)
           B     == {0} \cup {b \in Les : b < true}
           low   == Max(B)
           bound == Reached(c, want)
           p     == PercentileOf(c, q)
<1>1. Cumulative(c) /\ c[Inf] = n /\ n \in Nat /\ n > 0 /\ c \in [Les -> Nat]
  BY CountsFacts DEF Cumulative
<1>2. \A S \in SUBSET Latencies : Total(f, S) \in Nat
  BY TotalNat
<1>3. \A b : UpTo(b) \in SUBSET Latencies
  BY DEF UpTo
<1>4. \A b \in Les : c[b] = Total(f, UpTo(b))
  BY DEF Counts
<1> HIDE DEF n, c
<1>5. want \in Nat /\ 0 < want /\ want <= 100 * n
  BY <1>1, RankFacts
<1> HIDE DEF want
<1>6. \A v \in Latencies : v \in Nat /\ 0 < v /\ v < Inf
  BY LesFacts
<1>7. \A b \in Les : b \in Nat /\ 0 < b /\ b <= Inf
  BY LesFacts
\* The largest latency reaches the rank.
<1>8. T # {}
  <2>1. Latencies \in SUBSET Int
    BY <1>6
  <2>2. Max(Latencies) \in Latencies /\ \A v \in Latencies : Max(Latencies) >= v
    BY <2>1, LesFacts, HasMax
  <2>3. UpTo(Max(Latencies)) = Latencies
    BY <1>6, <2>2 DEF UpTo
  <2>4. Total(f, UpTo(Max(Latencies))) = n
    BY <2>3, Zenon DEF n
  <2> QED BY <1>1, <1>5, <2>2, <2>4
<1>9. true \in T /\ \A v \in T : true <= v
  <2>1. T \in SUBSET Latencies
    OBVIOUS
  <2> HIDE DEF T
  <2>2. T \in SUBSET Int /\ IsFiniteSet(T)
    BY <2>1, SubsetFacts
  <2> QED BY <1>8, <2>2, HasMin
<1>10. true \in Latencies /\ 100 * Total(f, UpTo(true)) >= want
  BY <1>9
<1> HIDE DEF true
\* A bucket reaches the rank just if it holds the true percentile.
<1>11. ASSUME NEW b \in Les PROVE 100 * c[b] >= want <=> true <= b
  <2>1. ASSUME true <= b PROVE 100 * c[b] >= want
    <3>1. UpTo(true) \in SUBSET UpTo(b)
      BY <1>6, <1>7, <1>10, <2>1 DEF UpTo
    <3>2. IsFiniteSet(UpTo(b)) /\ \A x \in UpTo(b) : f[x] \in Nat
      BY <1>3, CountsFacts
    <3>3. Total(f, UpTo(true)) <= Total(f, UpTo(b))
      BY <3>1, <3>2, TotalMono
    <3>4. Total(f, UpTo(true)) \in Nat /\ Total(f, UpTo(b)) \in Nat
      BY <1>2, <1>3
    <3>5. c[b] = Total(f, UpTo(b))
      BY <1>4
    <3> QED BY <1>5, <1>10, <3>3, <3>4, <3>5
  <2>2. ASSUME 100 * c[b] >= want PROVE true <= b
    <3>1. UpTo(b) # {}
      <4>1. SUFFICES ASSUME UpTo(b) = {} PROVE FALSE
        OBVIOUS
      <4>2. Total(f, UpTo(b)) = Total(f, {})
        BY <4>1, Zenon
      <4>3. Total(f, {}) = 0
        BY FS_EmptySet, TotalStep
      <4> QED BY <1>4, <1>5, <2>2, <4>2, <4>3
    <3> DEFINE m == Max(UpTo(b))
    <3>2. m \in UpTo(b) /\ \A v \in UpTo(b) : m >= v
      <4>1. UpTo(b) \in SUBSET Int /\ IsFiniteSet(UpTo(b))
        BY <1>3, <1>6, CountsFacts
      <4> QED BY <3>1, <4>1, HasMax
    <3> HIDE DEF m
    <3>3. m \in Latencies /\ m <= b
      BY <3>2 DEF UpTo
    <3>4. UpTo(m) = UpTo(b)
      BY <1>6, <1>7, <3>2, <3>3 DEF UpTo
    <3>5. Total(f, UpTo(m)) = c[b]
      <4>1. Total(f, UpTo(m)) = Total(f, UpTo(b))
        BY <3>4, Zenon
      <4> QED BY <1>4, <4>1
    <3>6. m \in T
      BY <2>2, <3>3, <3>5
    <3>7. true <= m
      BY <1>9, <3>6
    <3> QED BY <1>6, <1>7, <1>10, <3>3, <3>7
  <2> QED BY <2>1, <2>2
<1>12. bound = up
  <2>1. {b \in Les : 100 * c[b] >= want} = A
    BY <1>11
  <2>2. Reached(c, want) = Min({b \in Les : 100 * c[b] >= want})
    BY DEF Reached
  <2> HIDE DEF A
  <2> QED BY <2>1, <2>2, Zenon
<1>13. up \in Les /\ true <= up /\ \A b \in Les : true <= b => up <= b
  <2>1. A \in SUBSET Int /\ IsFiniteSet(A)
    <3>1. A \in SUBSET Les
      OBVIOUS
    <3> HIDE DEF A
    <3> QED BY <3>1, SubsetFacts
  <2>2. Inf \in A
    <3>1. true < Inf /\ true \in Int /\ Inf \in Int
      BY <1>6, <1>7, <1>10, LesFacts
    <3> QED BY <3>1, LesFacts
  <2>3. up \in A /\ \A b \in A : up <= b
    <3> HIDE DEF A
    <3> QED BY <2>1, <2>2, HasMin
  <2> HIDE DEF up
  <2> QED BY <2>3
<1>14. Lower(bound) = low
  <2>1. ASSUME NEW a \in Les PROVE a < up <=> a < true
    <3>1. a \in Int /\ up \in Int /\ true \in Int
      BY <1>6, <1>7, <1>10, <1>13
    <3>2. true <= up /\ (true <= a => up <= a)
      BY <1>13
    <3> HIDE DEF up
    <3> QED BY <3>1, <3>2
  <2>2. {a \in Les : a < up} = {a \in Les : a < true}
    <3> HIDE DEF up
    <3> QED BY <2>1
  <2>3. Lower(up) = Max({0} \cup {a \in Les : a < up})
    BY DEF Lower
  <2>4. Max({0} \cup {a \in Les : a < up}) = low
    BY <2>2, Zenon
  <2> HIDE DEF up, low, bound
  <2> QED BY <1>12, <2>3, <2>4
<1>15. /\ p \in Int \X Int /\ 0 < p[2]
       /\ bound = Inf => p = <<Lower(bound), 1>>
       /\ bound # Inf => Lower(bound) * p[2] < p[1] /\ p[1] <= bound * p[2]
  BY <1>1, PercentileFacts DEF want
<1>16. IF up = Inf THEN p = <<low, 1>> ELSE low * p[2] < p[1] /\ p[1] <= up * p[2]
  <2> HIDE DEF p, bound, up, low
  <2> QED BY <1>12, <1>14, <1>15
<1>17. n # 0
  BY <1>1
<1>18. InBucket(p, f, q) =
         IF n = 0 THEN p = Nil
         ELSE IF up = Inf THEN p = <<low, 1>> ELSE low * p[2] < p[1] /\ p[1] <= up * p[2]
  <2> HIDE DEF p
  <2> QED BY Zenon DEF InBucket, UpTo, n, want, true
<1> HIDE DEF up, low, p
<1>19. InBucket(p, f, q)
  BY <1>16, <1>17, <1>18
<1> QED BY <1>19 DEF p, c

\* Made cumulative, a difference is: and it is left alone if it was.
LEMMA MonotoneFacts ==
    ASSUME NEW d \in [Les -> Int]
    PROVE  /\ Cumulative(Monotone(d))
           /\ \A b \in Les : d[b] <= Monotone(d)[b]
           /\ Cumulative(d) => Monotone(d) = d
<1> DEFINE A(b) == {0} \cup {d[a] : a \in {a \in Les : a <= b}}
           m == Monotone(d)
<1>1. m = [b \in Les |-> Max(A(b))]
  BY DEF Monotone
<1>2. \A b \in Les : b \in Int
  BY LesFacts
<1>3. ASSUME NEW b \in Les PROVE A(b) \in SUBSET Int /\ IsFiniteSet(A(b)) /\ 0 \in A(b)
  <2> DEFINE S == {a \in Les : a <= b}
             T == {d[a] : a \in S}
             g == [a \in S |-> d[a]]
  <2>1. IsFiniteSet(S)
    BY SubsetFacts
  <2>2. g \in Surjection(S, T)
    BY DEF Surjection
  <2>3. IsFiniteSet(T)
    <3> HIDE DEF S, T, g
    <3> QED BY <2>1, <2>2, FS_Surjection
  <2>4. IsFiniteSet(T \cup {0})
    <3> HIDE DEF T
    <3> QED BY <2>3, FS_AddElement
  <2>5. T \cup {0} = A(b)
    OBVIOUS
  <2>6. IsFiniteSet(A(b))
    <3> HIDE DEF T, A
    <3> QED BY <2>4, <2>5
  <2>7. A(b) \in SUBSET Int /\ 0 \in A(b)
    OBVIOUS
  <2> QED BY <2>6, <2>7
<1>4. ASSUME NEW b \in Les PROVE m[b] \in A(b) /\ \A y \in A(b) : m[b] >= y
  <2>1. Max(A(b)) \in A(b) /\ \A y \in A(b) : Max(A(b)) >= y
    <3> HIDE DEF A
    <3> QED BY <1>3, HasMax
  <2>2. m[b] = Max(A(b))
    <3> HIDE DEF A, m
    <3> QED BY <1>1
  <2> HIDE DEF A, m
  <2> QED BY <2>1, <2>2
<1>5. \A b \in Les : \A a \in Les : a <= b => d[a] \in A(b)
  OBVIOUS
<1>6. \A b \in Les : m[b] = 0 \/ \E a \in Les : a <= b /\ m[b] = d[a]
  <2> HIDE DEF m
  <2> QED BY <1>4
<1>7. \A b \in Les : m[b] \in Nat
  <2> HIDE DEF A, m
  <2>1. \A b \in Les : m[b] \in Int /\ m[b] >= 0
    BY <1>3, <1>4
  <2> QED BY <2>1
<1>8. \A a, b \in Les : a <= b => d[a] <= m[b]
  <2> HIDE DEF A, m
  <2> QED BY <1>4, <1>5, <1>7
<1>9. \A a, b \in Les : a <= b => m[a] <= m[b]
  <2> SUFFICES ASSUME NEW a \in Les, NEW b \in Les, a <= b PROVE m[a] <= m[b]
    OBVIOUS
  <2> HIDE DEF A, m
  <2>1. CASE m[a] = 0
    BY <1>7, <2>1
  <2>2. CASE \E e \in Les : e <= a /\ m[a] = d[e]
    <3>1. PICK e \in Les : e <= a /\ m[a] = d[e]
      BY <2>2
    <3>2. e <= b
      BY <1>2, <3>1
    <3> QED BY <1>8, <3>1, <3>2
  <2> QED BY <1>6, <2>1, <2>2
<1>10. m \in [Les -> Nat]
  <2> HIDE DEF A
  <2>1. m = [b \in Les |-> m[b]]
    <3> HIDE DEF m
    <3> QED BY <1>1
  <2> HIDE DEF m
  <2> QED BY <1>7, <2>1
<1>11. \A b \in Les : d[b] <= m[b]
  <2> HIDE DEF m
  <2> QED BY <1>2, <1>8
<1>12. ASSUME Cumulative(d) PROVE m = d
  <2>1. \A b \in Les : d[b] >= 0 /\ d[b] \in Int /\ \A a \in Les : a <= b => d[a] <= d[b]
    BY <1>12 DEF Cumulative
  <2>2. ASSUME NEW b \in Les PROVE m[b] = d[b]
    <3>1. m[b] <= d[b]
      <4> HIDE DEF A, m
      <4>1. CASE m[b] = 0
        BY <2>1, <4>1
      <4>2. CASE \E a \in Les : a <= b /\ m[b] = d[a]
        BY <2>1, <4>2
      <4> QED BY <1>6, <4>1, <4>2
    <3>2. d[b] <= m[b] /\ m[b] \in Int /\ d[b] \in Int
      <4> HIDE DEF m
      <4> QED BY <1>7, <1>11, <2>1
    <3> HIDE DEF m
    <3> QED BY <3>1, <3>2
  <2> HIDE DEF m
  <2> QED BY <1>10, <2>2
<1> HIDE DEF m
<1>13. Cumulative(m)
  BY <1>9, <1>10 DEF Cumulative
<1> QED BY <1>11, <1>12, <1>13 DEF m

\* A higher quantile of the same buckets is no lower.
LEMMA PercentileMono ==
    ASSUME NEW c, Cumulative(c), c[Inf] > 0,
           NEW q \in 1..100, NEW r \in 1..100, q < r
    PROVE  LET x == PercentileOf(c, q)
               y == PercentileOf(c, r)
           IN  x[1] * y[2] <= y[1] * x[2]
<1> DEFINE wq == q * c[Inf]
           wr == r * c[Inf]
           bq == Reached(c, wq)
           br == Reached(c, wr)
           x  == PercentileOf(c, q)
           y  == PercentileOf(c, r)
<1>1. c \in [Les -> Nat] /\ c[Inf] \in Nat /\ \A b \in Les : b \in Nat /\ c[b] \in Nat
  BY LesFacts DEF Cumulative
<1>2. /\ wq \in Nat /\ 0 < wq /\ wq <= 100 * c[Inf]
      /\ wr \in Nat /\ 0 < wr /\ wr <= 100 * c[Inf]
  BY <1>1, RankFacts
<1>3. wq < wr
  BY <1>1, TimesStrict
<1> DEFINE OfRank(p, b) == /\ p \in Int \X Int /\ 0 < p[2]
                           /\ b = Inf => p = <<Lower(b), 1>>
                           /\ b # Inf => Lower(b) * p[2] < p[1] /\ p[1] <= b * p[2]
<1>4. OfRank(x, bq) /\ OfRank(y, br)
  BY PercentileFacts
<1>5. x = IF bq = Inf THEN <<Lower(bq), 1>>
          ELSE LET low   == Lower(bq)
                   count == IF low \in Les THEN c[low] ELSE 0
               IN  Between(low, bq, wq, count, c[bq] - count)
  BY DEF PercentileOf
<1>6. y = IF br = Inf THEN <<Lower(br), 1>>
          ELSE LET low   == Lower(br)
                   count == IF low \in Les THEN c[low] ELSE 0
               IN  Between(low, br, wr, count, c[br] - count)
  BY DEF PercentileOf
<1> HIDE DEF wq, wr, x, y
<1>7. /\ bq \in Les /\ 100 * c[bq] >= wq /\ \A a \in Les : a < bq => 100 * c[a] < wq
      /\ br \in Les /\ 100 * c[br] >= wr /\ \A a \in Les : a < br => 100 * c[a] < wr
  BY <1>2, ReachedFacts
<1> HIDE DEF bq, br
<1>8. bq \in Nat /\ br \in Nat /\ c[bq] \in Nat /\ c[br] \in Nat
  BY <1>1, <1>7
<1>9. bq <= br
  <2>1. SUFFICES ASSUME br < bq PROVE FALSE
    BY <1>8
  <2>2. 100 * c[br] < wq
    BY <1>7, <2>1
  <2> QED BY <1>2, <1>3, <1>7, <1>8, <2>2
<1>10. x[1] \in Int /\ x[2] \in Int /\ y[1] \in Int /\ y[2] \in Int /\ 0 < x[2] /\ 0 < y[2]
  BY <1>4
<1>11. CASE bq # br
  <2>1. bq < br /\ bq # Inf
    <3>1. br <= Inf /\ Inf \in Int
      BY <1>7, LesFacts
    <3> QED BY <1>8, <1>9, <1>11, <3>1
  <2>2. x[1] <= bq * x[2]
    BY <1>4, <2>1
  <2>3. Lower(br) \in Nat /\ bq <= Lower(br)
    BY <1>7, <2>1, LowerFacts
  <2>4. bq * y[2] <= y[1]
    <3>1. bq * y[2] <= Lower(br) * y[2] /\ Lower(br) * y[2] \in Int /\ bq * y[2] \in Int
      BY <1>8, <1>10, <2>3, TimesMono
    <3>2. CASE br = Inf
      <4>1. y[1] = Lower(br) /\ y[2] = 1
        BY <1>4, <3>2
      <4> QED BY <2>3, <3>1, <4>1
    <3>3. CASE br # Inf
      <4>1. Lower(br) * y[2] < y[1]
        BY <1>4, <3>3
      <4> QED BY <1>10, <3>1, <4>1
    <3> QED BY <3>2, <3>3
  <2>5. x[1] * y[2] <= y[1] * x[2]
    BY <1>8, <1>10, <2>2, <2>4, FractionsApart
  <2> QED BY <2>5 DEF x, y
<1>12. CASE bq = br /\ bq = Inf
  <2>1. x = y
    BY <1>4, <1>12
  <2>2. x[1] * y[2] <= y[1] * x[2]
    BY <1>10, <2>1
  <2> QED BY <2>2 DEF x, y
<1>13. CASE bq = br /\ bq # Inf
  <2> DEFINE low   == Lower(bq)
             count == IF low \in Les THEN c[low] ELSE 0
             den   == 100 * (c[bq] - count)
             base0 == low * 100 * (c[bq] - count)
  <2>1. x = <<base0 + (bq - low) * (wq - 100 * count), den>>
    BY <1>5, <1>13 DEF Between
  <2>2. y = <<base0 + (bq - low) * (wr - 100 * count), den>>
    BY <1>6, <1>13 DEF Between
  <2>3. low \in Nat /\ low < bq /\ count \in Nat
    <3>1. low \in Nat /\ low < bq
      BY <1>7, LowerFacts
    <3> HIDE DEF low
    <3> QED BY <1>1, <3>1
  <2> HIDE DEF low, count
  <2>4. base0 \in Int /\ den \in Int
    BY <1>8, <2>3
  <2> HIDE DEF base0, den
  <2> DEFINE width == bq - low
             u == wq - 100 * count
             v == wr - 100 * count
  <2>5. width \in Int /\ 0 <= width /\ u \in Int /\ v \in Int /\ u <= v
    BY <1>2, <1>3, <1>8, <2>3
  <2>6. x = <<base0 + width * u, den>> /\ y = <<base0 + width * v, den>>
    BY <2>1, <2>2
  <2> HIDE DEF width, u, v
  <2>7. width * u <= width * v /\ width * u \in Int /\ width * v \in Int
    BY <2>5, TimesMono
  <2>8. x[1] <= y[1] /\ x[2] = den /\ y[2] = den
    BY <2>4, <2>6, <2>7
  <2>9. x[1] * y[2] <= y[1] * x[2]
    BY <1>10, <2>8, TimesMono
  <2> QED BY <2>9 DEF x, y
<1> QED BY <1>11, <1>12, <1>13

-----------------------------------------------------------------------------
(* What a sample keeps of the histogram.                                   *)

Weighed(f) == [v \in Latencies |-> v * f[v]]

\* What the window's first sample kept is the histogram of what had been seen
\* by then, and of this life's latencies no more than has been seen by now.
KeptInv ==
    base # Nil =>
        /\ base.seen \in [Latencies -> Nat] /\ base.life \in Int
        /\ base.buckets = Counts(base.seen)
        /\ base.hsum = Total(Weighed(base.seen), Latencies)
        /\ base.hcount = Total(base.seen, Latencies) /\ base.hcount <= MaxSeen
        /\ base.life <= life
        /\ base.life = life => \A v \in Latencies : base.seen[v] <= seen[v]

PointsInv == points \in Seq([waiting : {0, 1}, rate : {Nil, 1}])

StatsInv ==
    /\ seen \in [Latencies -> Nat] /\ HCount <= MaxSeen /\ life \in {0, 1}
    /\ PointsInv /\ KeptInv

\* Nothing has been seen, and no window begun.
LEMMA StatsInitInv == StatsInit => StatsInv
<1> SUFFICES ASSUME StatsInit PROVE StatsInv
  OBVIOUS
<1>1. seen \in [Latencies -> Nat] /\ life \in {0, 1} /\ PointsInv /\ KeptInv
  BY DEF StatsInit, PointsInv, KeptInv
<1>2. HCount = 0
  <2>1. \A v \in Latencies : seen[v] = 0
    BY DEF StatsInit
  <2> QED BY <2>1, LesFacts, TotalZero DEF HCount
<1>3. HCount <= MaxSeen
  BY <1>2, StatsAssumption
<1> QED BY <1>1, <1>3 DEF StatsInv

\* A request more.
LEMMA ObserveInv ==
    ASSUME StatsInv, NEW v \in Latencies, Observe(v) PROVE StatsInv'
<1>1. /\ HCount < MaxSeen /\ seen' = [seen EXCEPT ![v] = @ + 1]
      /\ life' = life /\ base' = base /\ points' = points
  BY DEF Observe
<1>2. seen \in [Latencies -> Nat]
  BY DEF StatsInv
<1>3. \A w \in Latencies : seen[w] \in Nat /\ seen'[w] = IF w = v THEN seen[w] + 1 ELSE seen[w]
  BY <1>1, <1>2
<1>4. seen' \in [Latencies -> Nat]
  BY <1>1, <1>2
<1>5. HCount' = HCount + 1
  <2>1. \A w \in Latencies : seen[w] \in Int
    BY <1>3
  <2> QED BY <1>3, <2>1, LesFacts, TotalOneMore DEF HCount
<1>6. HCount \in Nat
  BY <1>2, TotalNat DEF HCount
<1>7. HCount' <= MaxSeen
  BY <1>1, <1>5, <1>6, StatsAssumption
<1>8. KeptInv'
  <2>1. KeptInv
    BY DEF StatsInv
  <2>2. ASSUME base # Nil, base.life = life, NEW w \in Latencies
        PROVE  base.seen[w] <= seen'[w]
    <3>1. base.seen[w] <= seen[w] /\ base.seen[w] \in Nat
      BY <2>1, <2>2 DEF KeptInv
    <3> QED BY <1>3, <3>1
  <2> QED BY <1>1, <2>1, <2>2 DEF KeptInv
<1>9. life' \in {0, 1} /\ PointsInv'
  BY <1>1 DEF StatsInv, PointsInv
<1> QED BY <1>4, <1>7, <1>8, <1>9 DEF StatsInv

\* A restart: what was kept is of an earlier life.
LEMMA RestartInv == ASSUME StatsInv, Restart PROVE StatsInv'
<1>1. /\ life = 0 /\ life' = 1 /\ seen' = [v \in Latencies |-> 0]
      /\ base' = base /\ points' = points
  BY DEF Restart
<1>2. seen' \in [Latencies -> Nat] /\ life' \in {0, 1} /\ PointsInv'
  BY <1>1 DEF StatsInv, PointsInv
<1>3. HCount' = 0
  <2>1. \A v \in Latencies : seen'[v] = 0
    BY <1>1
  <2> QED BY <2>1, LesFacts, TotalZero DEF HCount
<1>4. HCount' <= MaxSeen
  BY <1>3, StatsAssumption
<1>5. KeptInv'
  <2>1. base # Nil => base.life \in Int /\ base.life <= 0
    BY <1>1 DEF StatsInv, KeptInv
  <2>2. base # Nil => base.life <= 1 /\ base.life # 1
    BY <2>1
  <2> QED BY <1>1, <2>2 DEF StatsInv, KeptInv
<1> QED BY <1>2, <1>4, <1>5 DEF StatsInv

\* A scrape keeps the histogram of now, if it keeps it.
LEMMA ScrapeInv ==
    ASSUME StatsInv, NEW waiting \in {0, 1}, NEW rate \in {Nil, 1}, Scrape(waiting, rate)
    PROVE  StatsInv'
<1>1. /\ seen' = seen /\ life' = life
      /\ points' = Append(points, [waiting |-> waiting, rate |-> rate])
      /\ base' = Snapshot \/ base' = base
  BY DEF Scrape
<1>2. PointsInv'
  <2>1. points \in Seq([waiting : {0, 1}, rate : {Nil, 1}])
    BY DEF StatsInv, PointsInv
  <2>2. [waiting |-> waiting, rate |-> rate] \in [waiting : {0, 1}, rate : {Nil, 1}]
    OBVIOUS
  <2> QED BY <1>1, <2>1, <2>2 DEF PointsInv
<1>3. seen \in [Latencies -> Nat] /\ HCount <= MaxSeen /\ life \in {0, 1}
  BY DEF StatsInv
<1>4. HCount' = HCount
  BY <1>1 DEF HCount
<1>5. KeptInv'
  <2>1. CASE base' = base
    BY <1>1, <2>1 DEF StatsInv, KeptInv
  <2>2. CASE base' = Snapshot
    <3>1. /\ base'.seen = seen /\ base'.life = life /\ base'.buckets = Buckets
          /\ base'.hsum = HSum /\ base'.hcount = HCount
      BY <2>2 DEF Snapshot
    <3>2. Buckets = Counts(seen)
      BY Zenon DEF Buckets, Counts, UpTo
    <3>3. HSum = Total(Weighed(seen), Latencies)
      BY Zenon DEF HSum, Weighed
    <3>4. \A v \in Latencies : seen[v] <= seen[v]
      BY <1>3
    <3>5. life \in Int /\ life <= life
      BY <1>3
    <3>6. HCount = Total(seen, Latencies)
      BY DEF HCount
    <3> QED BY <1>1, <1>3, <3>1, <3>2, <3>3, <3>4, <3>5, <3>6 DEF KeptInv
  <2> QED BY <1>1, <2>1, <2>2
<1> QED BY <1>1, <1>2, <1>3, <1>4, <1>5 DEF StatsInv

\* The invariant holds throughout.
LEMMA StatsInvariant == StatsSpec => []StatsInv
<1>1. StatsInit => StatsInv
  BY StatsInitInv
<1>2. StatsInv /\ [StatsNext]_statsVars => StatsInv'
  <2> SUFFICES ASSUME StatsInv, [StatsNext]_statsVars PROVE StatsInv'
    OBVIOUS
  <2>1. CASE UNCHANGED statsVars
    <3>1. seen' = seen /\ life' = life /\ base' = base /\ points' = points
      BY <2>1 DEF statsVars
    <3>2. HCount' = HCount
      BY <3>1 DEF HCount
    <3>3. KeptInv' /\ PointsInv'
      BY <3>1 DEF StatsInv, KeptInv, PointsInv
    <3> QED BY <3>1, <3>2, <3>3 DEF StatsInv
  <2>2. CASE StatsNext
    <3>1. ASSUME NEW v \in Latencies, Observe(v) PROVE StatsInv'
      BY <3>1, ObserveInv
    <3>2. CASE Restart
      BY <3>2, RestartInv
    <3>3. ASSUME NEW waiting \in {0, 1}, NEW rate \in {Nil, 1}, Scrape(waiting, rate)
          PROVE  StatsInv'
      BY <3>3, ScrapeInv
    <3> QED BY <2>2, <3>1, <3>2, <3>3 DEF StatsNext
  <2> QED BY <2>1, <2>2
<1> QED BY <1>1, <1>2, PTL DEF StatsSpec

\* So the model's variables have their types, and what a sample keeps of the
\* engine's histogram is cumulative and ends with the count.
THEOREM StatsTypes == StatsSpec => []StatsTypeOK
<1>1. StatsInv => StatsTypeOK
  <2> SUFFICES ASSUME StatsInv PROVE StatsTypeOK
    OBVIOUS
  <2>1. seen \in [Latencies -> Nat] /\ HCount <= MaxSeen /\ life \in {0, 1} /\ PointsInv
        /\ KeptInv
    BY DEF StatsInv
  <2>2. seen \in [Latencies -> 0..MaxSeen]
    <3>1. ASSUME NEW v \in Latencies PROVE seen[v] <= HCount
      <4>1. Total(seen, {v}) <= Total(seen, Latencies)
        BY <2>1, LesFacts, TotalMono
      <4>2. Total(seen, {v}) = seen[v]
        <5>1. Total(seen, {} \cup {v}) = seen[v] + Total(seen, {})
          <6>1. seen[v] \in Int
            BY <2>1
          <6> QED BY <6>1, FS_EmptySet, TotalInsert
        <5>2. Total(seen, {}) = 0 /\ {} \cup {v} = {v} /\ seen[v] \in Nat
          BY <2>1, FS_EmptySet, TotalStep
        <5> QED BY <5>1, <5>2
      <4> QED BY <4>1, <4>2 DEF HCount
    <3>2. HCount \in Nat
      BY <2>1, TotalNat DEF HCount
    <3>3. ASSUME NEW v \in Latencies PROVE seen[v] \in 0..MaxSeen
      <4>1. seen[v] \in Nat /\ seen[v] <= HCount
        BY <2>1, <3>1
      <4> QED BY <2>1, <3>2, <4>1, StatsAssumption
    <3> QED BY <2>1, <3>3
  <2>3. ASSUME base # Nil
        PROVE  /\ base.buckets \in [Les -> 0..MaxSeen] /\ base.buckets[Inf] = base.hcount
               /\ \A a, b \in Les : a <= b => base.buckets[a] <= base.buckets[b]
    <3> DEFINE c == Counts(base.seen)
    <3>1. /\ base.seen \in [Latencies -> Nat] /\ base.buckets = c
          /\ base.hcount = Total(base.seen, Latencies) /\ base.hcount <= MaxSeen
      BY <2>1, <2>3 DEF KeptInv
    <3>2. Cumulative(c) /\ c[Inf] = Total(base.seen, Latencies)
      BY <3>1, CountsFacts
    <3> HIDE DEF c
    <3>3. c \in [Les -> Nat] /\ \A a, b \in Les : a <= b => c[a] <= c[b]
      BY <3>2 DEF Cumulative
    <3>4. ASSUME NEW b \in Les PROVE c[b] \in 0..MaxSeen
      <4>1. c[b] \in Nat /\ c[b] <= c[Inf] /\ c[Inf] <= MaxSeen /\ c[Inf] \in Nat
        BY <3>1, <3>2, <3>3, LesFacts
      <4> QED BY <4>1, StatsAssumption
    <3>5. c \in [Les -> 0..MaxSeen]
      BY <3>3, <3>4
    <3> QED BY <3>1, <3>2, <3>3, <3>5
  <2> QED BY <2>1, <2>2, <2>3 DEF StatsTypeOK, PointsInv
<1> QED BY <1>1, StatsInvariant, PTL

-----------------------------------------------------------------------------
(* The properties.                                                         *)

\* The percentile of two histograms, when nothing was lost between them.
LEMMA PercentileOfDelta ==
    ASSUME NEW prev, NEW cur, NEW f \in [Latencies -> Nat],
           Delta(prev, cur) = Counts(f), NEW q \in 1..100
    PROVE  InBucket(Percentile(prev, cur, q), f, q)
<1> DEFINE n == Total(f, Latencies)
           d == Delta(prev, cur)
           p == Percentile(prev, cur, q)
<1>1. Cumulative(d) /\ d[Inf] = n /\ n \in Nat /\ d \in [Les -> Nat]
  BY CountsFacts DEF Cumulative
<1>2. \A b \in Les : d[b] \in Nat /\ d[b] <= n
  <2> HIDE DEF d, n
  <2> QED BY <1>1, LesFacts DEF Cumulative
<1>3. p = IF (\E b \in Les : d[b] < 0) \/ \A b \in Les : d[b] = 0 THEN Nil
          ELSE PercentileOf(Monotone(d), q)
  BY Zenon DEF Percentile
<1> HIDE DEF d, p, n
<1>4. CASE n = 0
  <2>1. \A b \in Les : d[b] = 0
    BY <1>2, <1>4
  <2>2. p = Nil
    BY <1>3, <2>1
  <2> QED BY <1>4, <2>2, Zenon DEF InBucket, n, p
<1>5. CASE n # 0
  <2>1. n > 0 /\ ~(\E b \in Les : d[b] < 0) /\ ~(\A b \in Les : d[b] = 0)
    BY <1>1, <1>2, <1>5, LesFacts
  <2>2. d \in [Les -> Int]
    BY <1>1
  <2>3. Monotone(d) = d
    BY <1>1, <2>2, MonotoneFacts
  <2>4. p = PercentileOf(Counts(f), q)
    <3>1. p = PercentileOf(Monotone(d), q)
      BY <1>3, <2>1
    <3> QED BY <2>3, <3>1, Zenon DEF d
  <2>5. InBucket(PercentileOf(Counts(f), q), f, q)
    BY <2>1, PercentileOfCounts DEF n
  <2> QED BY <2>4, <2>5 DEF p
<1> QED BY <1>4, <1>5

\* Within one life of the engine a percentile of the dashboard falls into the
\* bucket of the true one, the least latency that q percent of the window's
\* requests did not exceed, and the average beside it is exact; and over
\* everything measured so does the evaluation's percentile, for any latencies,
\* bucket bounds, quantiles and number of requests (server.py:227-281,
\* prod_stats.py:182-206).
THEOREM LatenciesAreHonest == StatsSpec => []LatenciesHonest
<1>1. StatsInv => LatenciesHonest
  <2> SUFFICES ASSUME StatsInv PROVE LatenciesHonest
    OBVIOUS
  <2>1. seen \in [Latencies -> Nat] /\ KeptInv
    BY DEF StatsInv
  <2>2. \A v \in Latencies : seen[v] \in Nat /\ v \in Nat
    BY <2>1, LesFacts
  <2>3. Buckets = Counts(seen)
    BY Zenon DEF Buckets, Counts, UpTo
  <2>4. HSum = Total(Weighed(seen), Latencies) /\ HCount = Total(seen, Latencies)
    BY Zenon DEF HSum, HCount, Weighed
  <2>5. Snapshot.buckets = Buckets /\ Snapshot.hsum = HSum /\ Snapshot.hcount = HCount
    BY DEF Snapshot
  <2>6. \A q \in Quantiles : q \in 1..100
    BY StatsAssumption
  <2>7. ASSUME OneLife
        PROVE  /\ ExactMean(MeanOf(base, Snapshot), Since)
               /\ \A q \in Quantiles : InBucket(Percentiles(q), Since, q)
    <3> DEFINE old == base.seen
               f   == Since
               n   == Total(f, Latencies)
               w   == Total(Weighed(f), Latencies)
    <3>1. /\ old \in [Latencies -> Nat] /\ base.buckets = Counts(old)
          /\ base.hsum = Total(Weighed(old), Latencies)
          /\ base.hcount = Total(old, Latencies)
          /\ \A v \in Latencies : old[v] <= seen[v]
      BY <2>1, <2>7 DEF OneLife, KeptInv
    <3>2. f = [v \in Latencies |-> seen[v] - old[v]]
      BY DEF Since
    <3> HIDE DEF old, f
    <3>3. \A v \in Latencies : old[v] \in Nat /\ old[v] <= seen[v] /\ f[v] = seen[v] - old[v]
      BY <3>1, <3>2
    <3>4. \A v \in Latencies : f[v] \in Nat /\ seen[v] = old[v] + f[v]
      BY <2>2, <3>3
    <3>5. f \in [Latencies -> Nat]
      BY <3>2, <3>4
    <3>6. ASSUME NEW T \in SUBSET Latencies
          PROVE  Total(seen, T) = Total(old, T) + Total(f, T)
      <4>1. \A v \in T : old[v] \in Int /\ f[v] \in Int /\ seen[v] = old[v] + f[v]
        BY <3>3, <3>4
      <4> QED BY <4>1, SubsetFacts, TotalPlus
    <3>7. HCount = base.hcount + n
      BY <2>4, <3>1, <3>6
    <3>8. HSum = base.hsum + w /\ w \in Int /\ w >= 0 /\ base.hsum \in Int
      <4>1. \A v \in Latencies : /\ Weighed(old)[v] = v * old[v]
                                 /\ Weighed(f)[v] = v * f[v]
                                 /\ Weighed(seen)[v] = v * seen[v]
        BY DEF Weighed
      <4>2. ASSUME NEW v \in Latencies
            PROVE  /\ v * old[v] \in Int /\ v * f[v] \in Int /\ v * f[v] >= 0
                   /\ v * seen[v] = v * old[v] + v * f[v]
        <5>1. v \in Nat /\ old[v] \in Nat /\ f[v] \in Nat /\ seen[v] = old[v] + f[v]
          BY <2>2, <3>3, <3>4
        <5>2. ASSUME NEW a \in Nat, NEW b \in Nat, NEW c \in Nat, NEW e, e = b + c
              PROVE  a * b \in Int /\ a * c \in Int /\ a * c >= 0 /\ a * e = a * b + a * c
          BY <5>2
        <5> QED BY <5>1, <5>2
      <4>3. \A v \in Latencies : /\ Weighed(old)[v] \in Int /\ Weighed(f)[v] \in Int
                                 /\ Weighed(f)[v] >= 0
                                 /\ Weighed(seen)[v] = Weighed(old)[v] + Weighed(f)[v]
        BY <4>1, <4>2
      <4>4. Total(Weighed(seen), Latencies)
              = Total(Weighed(old), Latencies) + Total(Weighed(f), Latencies)
        BY <4>3, LesFacts, TotalPlus
      <4>5. w \in Int /\ w >= 0 /\ Total(Weighed(old), Latencies) \in Int
        BY <4>3, LesFacts, TotalType
      <4> QED BY <2>4, <3>1, <4>4, <4>5
    <3>9. n \in Nat /\ base.hcount \in Nat
      BY <3>1, <3>5, TotalNat
    <3> DEFINE m == MeanOf(base, Snapshot)
    <3>10. m = IF n <= 0 THEN Nil ELSE <<w, n>>
      <4>1. m = IF HCount - base.hcount <= 0 \/ HSum - base.hsum < 0 THEN Nil
                ELSE <<HSum - base.hsum, HCount - base.hcount>>
        BY <2>5 DEF MeanOf
      <4>2. HCount - base.hcount = n /\ HSum - base.hsum = w
        <5> HIDE DEF n, w
        <5> QED BY <3>7, <3>8, <3>9
      <4> HIDE DEF m, n, w
      <4> QED BY <3>8, <3>9, <4>1, <4>2
    <3>11. ExactMean(m, f) = IF n = 0 THEN m = Nil ELSE m[1] * n = m[2] * w
      BY Zenon DEF ExactMean, Weighed
    <3>12. ExactMean(m, f)
      <4> HIDE DEF m, n, w
      <4>1. w * n = n * w
        BY <3>8, <3>9
      <4>2. CASE n = 0
        <5>1. m = Nil
          BY <3>10, <4>2
        <5> QED BY <3>11, <4>2, <5>1, Zenon
      <4>3. CASE n # 0
        <5>1. m = <<w, n>>
          BY <3>9, <3>10, <4>3
        <5>2. m[1] * n = m[2] * w
          BY <4>1, <5>1
        <5> QED BY <3>11, <4>3, <5>2, Zenon
      <4> QED BY <4>2, <4>3
    <3>13. Delta(base.buckets, Buckets) = Counts(f)
      <4>1. ASSUME NEW b \in Les PROVE Buckets[b] - base.buckets[b] = Counts(f)[b]
        <5>1. UpTo(b) \in SUBSET Latencies
          BY DEF UpTo
        <5>2. Total(seen, UpTo(b)) = Total(old, UpTo(b)) + Total(f, UpTo(b))
          BY <3>6, <5>1
        <5>3. Total(old, UpTo(b)) \in Nat /\ Total(f, UpTo(b)) \in Nat
          BY <3>1, <3>5, <5>1, TotalNat
        <5>4. /\ Buckets[b] = Total(seen, UpTo(b)) /\ Counts(f)[b] = Total(f, UpTo(b))
              /\ base.buckets[b] = Total(old, UpTo(b))
          BY <2>3, <3>1 DEF Counts
        <5> QED BY <5>2, <5>3, <5>4
      <4>2. Counts(f) = [b \in Les |-> Counts(f)[b]]
        BY DEF Counts
      <4>3. Delta(base.buckets, Buckets) = [b \in Les |-> Buckets[b] - base.buckets[b]]
        BY DEF Delta
      <4> QED BY <4>1, <4>2, <4>3
    <3>14. ASSUME NEW q \in Quantiles PROVE InBucket(Percentiles(q), f, q)
      <4>1. InBucket(Percentile(base.buckets, Buckets, q), f, q)
        BY <2>6, <3>5, <3>13, PercentileOfDelta
      <4> QED BY <2>5, <4>1 DEF Percentiles
    <3> QED BY <3>12, <3>14 DEF f
  <2>8. ASSUME NEW q \in Quantiles PROVE InBucket(HistPercentile(Buckets, q), seen, q)
    <3> DEFINE n == Total(seen, Latencies)
               c == Counts(seen)
               p == HistPercentile(c, q)
    <3>1. c[Inf] = n /\ n \in Nat
      BY <2>1, CountsFacts
    <3>2. p = IF c[Inf] <= 0 THEN Nil ELSE PercentileOf(c, q)
      BY DEF HistPercentile
    <3>3. n > 0 => InBucket(PercentileOf(c, q), seen, q)
      BY <2>1, <2>6, PercentileOfCounts
    <3>4. n = 0 /\ p = Nil => InBucket(p, seen, q)
      <4> HIDE DEF p
      <4> QED BY Zenon DEF InBucket
    <3> HIDE DEF n, c, p
    <3>5. InBucket(p, seen, q)
      <4>1. CASE n > 0
        <5>1. p = PercentileOf(c, q)
          BY <3>1, <3>2, <4>1
        <5> QED BY <3>3, <4>1, <5>1
      <4>2. CASE ~(n > 0)
        <5>1. n = 0 /\ p = Nil
          BY <3>1, <3>2, <4>2
        <5> QED BY <3>4, <5>1
      <4> QED BY <4>1, <4>2
    <3> QED BY <2>3, <3>5 DEF p, c
  <2> QED BY <2>7, <2>8 DEF LatenciesHonest
<1> QED BY <1>1, StatsInvariant, PTL

\* Whatever lives the two ends of the window belong to, a higher quantile is
\* never served with a lower latency.
THEOREM QuantilesAreOrdered == StatsSpec => []QuantilesOrdered
<1>1. StatsInv => QuantilesOrdered
  <2> SUFFICES ASSUME StatsInv, base # Nil, NEW q \in Quantiles, NEW r \in Quantiles
               PROVE  LET a == Percentiles(q)
                          b == Percentiles(r)
                      IN  /\ a = Nil <=> b = Nil
                          /\ q < r /\ a # Nil => a[1] * b[2] <= b[1] * a[2]
    BY DEF QuantilesOrdered
  <2> DEFINE d == Delta(base.buckets, Snapshot.buckets)
             m == Monotone(d)
             a == Percentiles(q)
             b == Percentiles(r)
             none == (\E e \in Les : d[e] < 0) \/ \A e \in Les : d[e] = 0
  <2>1. d \in [Les -> Int]
    <3>1. seen \in [Latencies -> Nat] /\ base.seen \in [Latencies -> Nat]
          /\ base.buckets = Counts(base.seen)
      BY DEF StatsInv, KeptInv
    <3>2. Snapshot.buckets = Counts(seen)
      <4>1. Buckets = Counts(seen)
        BY Zenon DEF Buckets, Counts, UpTo
      <4> QED BY <4>1 DEF Snapshot
    <3>3. Counts(seen) \in [Les -> Nat] /\ Counts(base.seen) \in [Les -> Nat]
      BY <3>1, CountsFacts DEF Cumulative
    <3>4. \A e \in Les : Counts(seen)[e] - Counts(base.seen)[e] \in Int
      BY <3>3
    <3> QED BY <3>1, <3>2, <3>4 DEF Delta
  <2>2. /\ a = IF none THEN Nil ELSE PercentileOf(m, q)
        /\ b = IF none THEN Nil ELSE PercentileOf(m, r)
    BY Zenon DEF Percentiles, Percentile
  <2> HIDE DEF d, a, b
  <2>3. Cumulative(m) /\ \A e \in Les : d[e] <= m[e]
    BY <2>1, MonotoneFacts
  <2> HIDE DEF m
  <2>4. q \in 1..100 /\ r \in 1..100
    BY StatsAssumption
  <2>5. ASSUME ~none PROVE m[Inf] > 0
    <3>1. PICK e \in Les : d[e] # 0 /\ ~(d[e] < 0)
      BY <2>5
    <3>2. d[e] \in Int /\ d[e] <= m[e]
      BY <2>1, <2>3
    <3>3. m[e] <= m[Inf] /\ m[e] \in Nat /\ m[Inf] \in Nat
      BY <2>3, LesFacts DEF Cumulative
    <3> QED BY <3>1, <3>2, <3>3
  <2>6. ASSUME ~none PROVE a # Nil /\ b # Nil
    <3>1. PercentileOf(m, q) \in Int \X Int /\ PercentileOf(m, r) \in Int \X Int
      BY <2>3, <2>4, <2>5, <2>6, PercentileFacts
    <3> HIDE DEF none
    <3> QED BY <2>2, <2>6, <3>1, StatsAssumption
  <2>7. ASSUME ~none, q < r PROVE a[1] * b[2] <= b[1] * a[2]
    <3> DEFINE x == PercentileOf(m, q)
               y == PercentileOf(m, r)
    <3>1. x[1] * y[2] <= y[1] * x[2]
      BY <2>3, <2>4, <2>5, <2>7, PercentileMono
    <3>2. a = x /\ b = y
      <4> HIDE DEF none, x, y
      <4> QED BY <2>2, <2>7 DEF x, y
    <3> HIDE DEF x, y
    <3> QED BY <3>1, <3>2
  <2> HIDE DEF none
  <2>8. none => a = Nil /\ b = Nil
    BY <2>2
  <2>9. (a = Nil <=> b = Nil) /\ (q < r /\ a # Nil => a[1] * b[2] <= b[1] * a[2])
    BY <2>6, <2>7, <2>8
  <2> QED BY <2>9 DEF a, b
<1> QED BY <1>1, StatsInvariant, PTL

-----------------------------------------------------------------------------
(* The chart.                                                              *)

\* Division: the quotient and the remainder.
LEMMA Quotient ==
    ASSUME NEW x \in Nat, NEW k \in Nat \ {0}
    PROVE  /\ x \div k \in Nat
           /\ k * (x \div k) <= x /\ x < k * (x \div k) + k
OBVIOUS

\* A quotient grows by one when the dividend grows by the divisor.
LEMMA QuotientGrows ==
    ASSUME NEW x \in Nat, NEW y \in Nat, NEW k \in Nat \ {0}, x + k <= y
    PROVE  (x \div k) + 1 <= y \div k
<1> DEFINE a == x \div k
           b == y \div k
<1>1. /\ a \in Nat /\ k * a <= x /\ x < k * a + k
      /\ b \in Nat /\ k * b <= y /\ y < k * b + k
  BY Quotient
<1> HIDE DEF a, b
<1>2. SUFFICES ASSUME b <= a PROVE FALSE
  BY <1>1 DEF a, b
<1>3. k * b <= k * a /\ k * b \in Int /\ k * a \in Int
  BY <1>1, <1>2, TimesMono
<1> QED BY <1>1, <1>3

\* A multiple of the divisor is divided exactly.
LEMMA QuotientExact ==
    ASSUME NEW x \in Nat, NEW k \in Nat \ {0}
    PROVE  (k * x) \div k = x
<1> DEFINE a == (k * x) \div k
<1>1. k * x \in Nat
  OBVIOUS
<1>2. a \in Nat /\ k * a <= k * x /\ k * x < k * a + k
  BY <1>1, Quotient
<1> HIDE DEF a
<1>3. a <= x
  <2>1. SUFFICES ASSUME x < a PROVE FALSE
    BY <1>2
  <2>2. k * x < k * a
    BY <1>2, <2>1, TimesStrict
  <2> QED BY <1>1, <1>2, <2>2
<1>4. x <= a
  <2>1. SUFFICES ASSUME a + 1 <= x PROVE FALSE
    BY <1>2
  <2>2. k * (a + 1) <= k * x /\ k * (a + 1) = k * a + k
    BY <1>2, <2>1, TimesMono
  <2>3. k * a \in Nat /\ k \in Nat
    BY <1>2
  <2> QED BY <1>1, <1>2, <2>2, <2>3
<1> QED BY <1>2, <1>3, <1>4 DEF a

\* The largest of an interval is its end.
LEMMA IntervalMax ==
    ASSUME NEW a \in Int, NEW b \in Int, a <= b
    PROVE  Max(a..b) = b
<1>1. a..b \in SUBSET Int /\ b \in a..b /\ IsFiniteSet(a..b)
  <2>1. IsFiniteSet(a..b)
    BY FS_Interval
  <2> QED BY <2>1
<1> DEFINE S == a..b
<1>2. \A y \in S : y <= b /\ y \in Int
  OBVIOUS
<1> HIDE DEF S
<1>3. Max(S) \in S /\ \A y \in S : Max(S) >= y
  <2>1. S # {} /\ S \in SUBSET Int /\ IsFiniteSet(S)
    BY <1>1 DEF S
  <2> QED BY <2>1, HasMax
<1>4. Max(S) = b
  <2>1. b \in S
    BY <1>1 DEF S
  <2>2. Max(S) <= b /\ Max(S) \in Int /\ Max(S) >= b
    BY <1>2, <1>3, <2>1
  <2> QED BY <2>2
<1> QED BY <1>4 DEF S

\* Of n samples, more than there are slices, the slices take one after the
\* other, none of them nothing, from the first sample to the last.
LEMMA SliceFacts ==
    ASSUME NEW n \in Nat, NEW limit \in Nat \ {0}, limit < n, NEW i \in 1..limit
    PROVE  LET at(k) == (k * n) \div limit
           IN  /\ at(i - 1) \in Nat /\ at(i) \in Nat /\ at(i - 1) < at(i)
               /\ Slice(i, n, limit) = (at(i - 1) + 1)..at(i)
               /\ at(0) = 0 /\ at(limit) = n
<1> DEFINE lo == ((i - 1) * n) \div limit
           hi == (i * n) \div limit
<1>1. (i - 1) * n \in Nat /\ i * n \in Nat /\ (i - 1) * n + limit <= i * n
  <2>1. i * n = (i - 1) * n + n
    OBVIOUS
  <2>2. i - 1 \in Nat /\ i \in Nat
    OBVIOUS
  <2>3. (i - 1) * n \in Nat /\ i * n \in Nat
    BY <2>2
  <2> QED BY ONLY <2>1, <2>3, limit < n, limit \in Nat, n \in Nat
<1>2. lo \in Nat /\ hi \in Nat /\ lo + 1 <= hi
  BY <1>1, Quotient, QuotientGrows
<1>3. (0 * n) \div limit = 0
  <2>1. 0 * n = limit * 0
    OBVIOUS
  <2>2. (limit * 0) \div limit = 0
    BY QuotientExact
  <2> QED BY <2>1, <2>2
<1>4. (limit * n) \div limit = n
  BY QuotientExact
<1>5. Slice(i, n, limit) = (lo + 1)..Max({lo + 1, hi})
  BY DEF Slice
<1> HIDE DEF lo, hi
<1>6. Max({lo + 1, hi}) = hi
  <2> DEFINE S == {lo + 1, hi}
  <2>1. IsFiniteSet(S)
    <3>1. IsFiniteSet({lo + 1} \cup {hi})
      BY FS_Singleton, FS_AddElement
    <3>2. {lo + 1} \cup {hi} = S
      OBVIOUS
    <3> QED BY <3>1, <3>2
  <2>2. S \in SUBSET Int /\ S # {} /\ hi \in S
    BY <1>2
  <2>3. \A y \in S : y <= hi
    BY <1>2
  <2> HIDE DEF S
  <2>4. Max(S) \in S /\ \A y \in S : Max(S) >= y
    BY <2>1, <2>2, HasMax
  <2>5. Max(S) <= hi /\ Max(S) \in Int /\ Max(S) >= hi
    BY <2>2, <2>3, <2>4
  <2>6. Max(S) = hi
    BY <1>2, <2>5
  <2> QED BY <2>6 DEF S
<1>7. Slice(i, n, limit) = (lo + 1)..hi
  BY <1>5, <1>6
<1>8. lo \in Nat /\ hi \in Nat /\ lo < hi
  BY <1>2
<1> QED BY <1>3, <1>4, <1>7, <1>8 DEF lo, hi

\* The chart as a function of the samples: the slices' ends and what each says.
LEMMA DownsampleFacts ==
    ASSUME PointsInv, points # <<>>, NEW limit \in Nat \ {0}
    PROVE  LET n     == Len(points)
               chart == Downsample(limit)
               size  == Min({limit, n})
               at(k) == IF n <= limit THEN k ELSE (k * n) \div limit
               part(k)  == (at(k - 1) + 1)..at(k)
               rated(k) == {j \in part(k) : points[j].rate # Nil}
           IN  /\ size \in 1..n /\ size <= limit /\ Len(chart) = size
               /\ at(0) = 0 /\ at(size) = n
               /\ \A k \in 1..size :
                     /\ at(k - 1) \in Nat /\ at(k) \in Nat /\ at(k - 1) < at(k)
                     /\ chart[k].at = at(k)
                     /\ chart[k].waiting = Max({points[j].waiting : j \in part(k)})
                     /\ chart[k].rate =
                           IF rated(k) = {} THEN Nil
                           ELSE <<Total([j \in rated(k) |-> points[j].rate], rated(k)),
                                  Cardinality(rated(k))>>
<1> DEFINE n     == Len(points)
           chart == Downsample(limit)
           size  == Min({limit, n})
           at(k) == IF n <= limit THEN k ELSE (k * n) \div limit
           part(k)  == (at(k - 1) + 1)..at(k)
           rated(k) == {j \in part(k) : points[j].rate # Nil}
           Point(k) == /\ chart[k].at = at(k)
                       /\ chart[k].waiting = Max({points[j].waiting : j \in part(k)})
                       /\ chart[k].rate =
                             IF rated(k) = {} THEN Nil
                             ELSE <<Total([j \in rated(k) |-> points[j].rate], rated(k)),
                                    Cardinality(rated(k))>>
<1>1. points \in Seq([waiting : {0, 1}, rate : {Nil, 1}])
  BY DEF PointsInv
<1>2. n \in Nat /\ n > 0
  BY <1>1
<1>3. \A j \in 1..n : points[j].waiting \in {0, 1} /\ points[j].rate \in {Nil, 1}
  <2>1. \A j \in 1..n : points[j] \in [waiting : {0, 1}, rate : {Nil, 1}]
    <3> DEFINE R == [waiting : {0, 1}, rate : {Nil, 1}]
    <3> HIDE DEF R
    <3>1. points \in Seq(R)
      BY <1>1 DEF R
    <3>2. \A j \in 1..n : points[j] \in R
      BY <3>1
    <3> QED BY <3>2 DEF R
  <2> HIDE DEF n
  <2> QED BY <2>1
<1>4. size = IF n <= limit THEN n ELSE limit
  <2> DEFINE S == {limit, n}
  <2>1. IsFiniteSet(S)
    <3>1. IsFiniteSet({limit} \cup {n})
      BY FS_Singleton, FS_AddElement
    <3>2. {limit} \cup {n} = S
      OBVIOUS
    <3> QED BY <3>1, <3>2
  <2>2. S \in SUBSET Int /\ S # {} /\ limit \in S /\ n \in S /\ \A y \in S : y \in {limit, n}
    BY <1>2
  <2> HIDE DEF S
  <2>3. Min(S) \in S /\ \A y \in S : Min(S) <= y
    BY <2>1, <2>2, HasMin
  <2>4. Min(S) \in {limit, n} /\ Min(S) <= limit /\ Min(S) <= n
    BY <2>2, <2>3
  <2> HIDE DEF n
  <2>5. Min(S) = IF n <= limit THEN n ELSE limit
    BY <1>2, <2>4
  <2> QED BY <2>5 DEF S
<1>5. CASE n <= limit
  <2>1. size = n
    BY <1>4, <1>5
  <2>2. chart = [i \in 1..n |->
                   [at |-> i, waiting |-> points[i].waiting,
                    rate |-> IF points[i].rate = Nil THEN Nil ELSE <<points[i].rate, 1>>]]
    BY <1>5 DEF Downsample
  <2>3. Len(chart) = n
    <3> DEFINE R == {chart[i] : i \in 1..n}
    <3>1. chart \in [1..n -> R]
      <4> HIDE DEF n
      <4> QED BY <2>2
    <3> HIDE DEF chart, R, n
    <3> QED BY <1>2, <3>1
  <2>4. \A k \in 0..n : at(k) = k
    BY <1>5
  <2>5. ASSUME NEW k \in 1..n PROVE Point(k)
    <3>1. k \in Int /\ at(k) = k /\ at(k - 1) = k - 1
      BY <1>5
    <3>2. part(k) = {k}
      <4> HIDE DEF at
      <4>1. part(k) = k..k
        BY <3>1
      <4> QED BY <3>1, <4>1
    <3> HIDE DEF at
    <3>3. chart[k] = [at |-> k, waiting |-> points[k].waiting,
                      rate |-> IF points[k].rate = Nil THEN Nil ELSE <<points[k].rate, 1>>]
      <4> HIDE DEF chart, n
      <4> QED BY <2>2
    <3>4. chart[k].at = at(k)
      <4> HIDE DEF chart
      <4> QED BY <3>1, <3>3
    <3>5. chart[k].waiting = Max({points[j].waiting : j \in part(k)})
      <4>1. {points[j].waiting : j \in part(k)} = {points[k].waiting}
        <5> HIDE DEF part
        <5> QED BY <3>2
      <4>2. Max({points[k].waiting}) = points[k].waiting
        <5>1. points[k].waiting \in Int
          BY <1>3
        <5> DEFINE S == {points[k].waiting}
        <5>2. S \in SUBSET Int /\ IsFiniteSet(S) /\ S # {}
          BY <5>1, FS_Singleton
        <5>3. Max(S) \in S
          <6> HIDE DEF S
          <6> QED BY <5>2, HasMax
        <5> QED BY <5>3
      <4>3. Max({points[j].waiting : j \in part(k)}) = points[k].waiting
        <5> HIDE DEF part
        <5>1. Max({points[j].waiting : j \in part(k)}) = Max({points[k].waiting})
          BY <4>1, Zenon
        <5> QED BY <4>2, <5>1
      <4> HIDE DEF chart, part
      <4> QED BY <3>3, <4>3
    <3>6. chart[k].rate = IF rated(k) = {} THEN Nil
                          ELSE <<Total([j \in rated(k) |-> points[j].rate], rated(k)),
                                 Cardinality(rated(k))>>
      <4>1. CASE points[k].rate = Nil
        <5>1. rated(k) = {}
          <6> HIDE DEF part
          <6> QED BY <3>2, <4>1
        <5>2. chart[k].rate = Nil
          <6> HIDE DEF chart
          <6> QED BY <3>3, <4>1
        <5> HIDE DEF chart, rated
        <5> QED BY <5>1, <5>2
      <4>2. CASE points[k].rate # Nil
        <5>1. rated(k) = {k}
          <6> HIDE DEF part
          <6> QED BY <3>2, <4>2
        <5> DEFINE r == [j \in {k} |-> points[j].rate]
        <5>2. Total(r, {k}) = points[k].rate
          <6>1. r[k] = points[k].rate /\ r[k] \in Int
            BY <1>3, <4>2
          <6> HIDE DEF r
          <6>2. Total(r, {} \cup {k}) = r[k] + Total(r, {})
            BY <6>1, FS_EmptySet, TotalInsert
          <6>3. Total(r, {}) = 0 /\ {} \cup {k} = {k}
            BY FS_EmptySet, TotalStep
          <6> QED BY <6>1, <6>2, <6>3
        <5>3. Cardinality({k}) = 1
          BY FS_Singleton
        <5> DEFINE Rate(S) == IF S = {} THEN Nil
                              ELSE <<Total([j \in S |-> points[j].rate], S), Cardinality(S)>>
        <5>4. Rate({k}) = <<points[k].rate, 1>>
          BY <5>2, <5>3
        <5>5. Rate(rated(k)) = Rate({k})
          <6> HIDE DEF Rate, rated
          <6> QED BY <5>1
        <5>6. chart[k].rate = <<points[k].rate, 1>>
          <6> HIDE DEF chart
          <6> QED BY <3>3, <4>2
        <5>7. chart[k].rate = Rate(rated(k))
          <6> HIDE DEF Rate, rated, chart
          <6> QED BY <5>4, <5>5, <5>6
        <5> HIDE DEF chart, rated
        <5> QED BY <5>7
      <4> QED BY <4>1, <4>2
    <3> QED BY <3>4, <3>5, <3>6
  <2>6. \A k \in 1..size : at(k - 1) \in Nat /\ at(k) \in Nat /\ at(k - 1) < at(k)
    <3> HIDE DEF n, size
    <3>1. \A k \in 1..n : k - 1 \in Nat /\ k \in Nat /\ k - 1 < k
      BY <1>2
    <3> QED BY <1>5, <2>1, <3>1
  <2>7. at(0) = 0 /\ at(size) = n
    <3> HIDE DEF n, size
    <3> QED BY <1>5, <2>1
  <2>8. size \in 1..n /\ size <= limit /\ Len(chart) = size
    <3> HIDE DEF n, size, chart
    <3> QED BY <1>2, <1>5, <2>1, <2>3
  <2>9. \A k \in 1..size : Point(k)
    <3> HIDE DEF n, size, Point
    <3> QED BY <2>1, <2>5
  <2> HIDE DEF n, size, chart, at
  <2> QED BY <2>6, <2>7, <2>8, <2>9 DEF n, size, chart, at
<1>6. CASE ~(n <= limit)
  <2>1. size = limit /\ limit < n
    <3> HIDE DEF n, size
    <3> QED BY <1>2, <1>4, <1>6
  <2> DEFINE Pt(C) == LET rs == {j \in C : points[j].rate # Nil}
                      IN  [at |-> Max(C), waiting |-> Max({points[j].waiting : j \in C}),
                           rate |-> IF rs = {} THEN Nil
                                    ELSE <<Total([j \in rs |-> points[j].rate], rs),
                                           Cardinality(rs)>>]
  <2>2. chart = [i \in 1..limit |-> Pt(Slice(i, n, limit))]
    BY <1>6 DEF Downsample
  <2>3. ASSUME NEW k \in 1..limit
        PROVE  /\ at(k - 1) \in Nat /\ at(k) \in Nat /\ at(k - 1) < at(k)
               /\ Slice(k, n, limit) = part(k)
    <3>1. at(k - 1) = ((k - 1) * n) \div limit /\ at(k) = (k * n) \div limit
      BY <1>6
    <3>2. /\ ((k - 1) * n) \div limit \in Nat /\ (k * n) \div limit \in Nat
          /\ ((k - 1) * n) \div limit < (k * n) \div limit
          /\ Slice(k, n, limit) = (((k - 1) * n) \div limit + 1)..((k * n) \div limit)
      <4> HIDE DEF n
      <4> QED BY <1>2, <2>1, SliceFacts
    <3> HIDE DEF at, n
    <3> QED BY <3>1, <3>2
  <2>4. at(0) = 0 /\ at(limit) = n
    <3>1. 1 \in 1..limit
      OBVIOUS
    <3>2. (0 * n) \div limit = 0 /\ (limit * n) \div limit = n
      <4> HIDE DEF n
      <4> QED BY <1>2, <2>1, <3>1, SliceFacts
    <3> HIDE DEF n
    <3> QED BY <1>6, <3>2
  <2>5. Len(chart) = limit
    <3> DEFINE R == {chart[i] : i \in 1..limit}
    <3>1. chart \in [1..limit -> R]
      <4> HIDE DEF n, Pt
      <4> QED BY <2>2
    <3> HIDE DEF chart, R
    <3> QED BY <3>1
  <2>6. ASSUME NEW k \in 1..limit PROVE Point(k)
    <3>1. chart[k] = Pt(Slice(k, n, limit))
      <4> HIDE DEF chart, n, Pt
      <4> QED BY <2>2
    <3>2. chart[k] = Pt(part(k))
      <4> HIDE DEF chart, n, Pt, part
      <4> QED BY <2>3, <3>1
    <3>3. Max(part(k)) = at(k)
      <4> HIDE DEF at
      <4>1. at(k - 1) + 1 \in Int /\ at(k) \in Int /\ at(k - 1) + 1 <= at(k)
        BY <2>3
      <4> QED BY <4>1, IntervalMax
    <3> HIDE DEF chart, part, at
    <3> QED BY <3>2, <3>3
  <2>7. size \in 1..n /\ size <= limit /\ Len(chart) = size
    <3> HIDE DEF n, size, chart
    <3> QED BY <1>2, <2>1, <2>5
  <2>8. \A k \in 1..size : Point(k)
    <3> HIDE DEF n, size, Point
    <3> QED BY <2>1, <2>6
  <2>9. \A k \in 1..size : at(k - 1) \in Nat /\ at(k) \in Nat /\ at(k - 1) < at(k)
    <3> HIDE DEF at, n, size
    <3> QED BY <2>1, <2>3
  <2>10. at(0) = 0 /\ at(size) = n
    <3> HIDE DEF at, n, size
    <3> QED BY <2>1, <2>4
  <2> HIDE DEF n, size, chart, at
  <2> QED BY <2>7, <2>8, <2>9, <2>10 DEF n, size, chart, at
<1> QED BY <1>5, <1>6

\* However many samples become however many points, every sample is in exactly
\* one: a point stands for those after the point before it, with the highest
\* queue and the mean rate among them, and the last one is the newest sample
\* (server.py:146-149).
THEOREM ChartIsComplete == StatsSpec => []ChartComplete
<1>1. PointsInv => ChartComplete
  <2> DEFINE Limit(limit) ==
               LET chart == Downsample(limit)
                   from(i) == IF i = 1 THEN 1 ELSE chart[i - 1].at + 1
               IN  points # <<>> =>
                   /\ Len(chart) = Min({limit, Len(points)})
                   /\ chart[Len(chart)].at = Len(points)
                   /\ \A i \in 1..Len(chart) :
                         LET part  == from(i)..chart[i].at
                             rated == {j \in part : points[j].rate # Nil}
                         IN  /\ part # {}
                             /\ chart[i].waiting = Max({points[j].waiting : j \in part})
                             /\ chart[i].rate =
                                   IF rated = {} THEN Nil
                                   ELSE <<Total([j \in rated |-> points[j].rate], rated),
                                          Cardinality(rated)>>
  <2>1. ASSUME PointsInv, NEW limit \in 1..MaxScrapes, points # <<>> PROVE Limit(limit)
    <3> DEFINE n     == Len(points)
               chart == Downsample(limit)
               size  == Min({limit, n})
               at(k) == IF n <= limit THEN k ELSE (k * n) \div limit
               part(k)  == (at(k - 1) + 1)..at(k)
               rated(k) == {j \in part(k) : points[j].rate # Nil}
               from(i) == IF i = 1 THEN 1 ELSE chart[i - 1].at + 1
               Says(k, C) == LET rs == {j \in C : points[j].rate # Nil}
                             IN  /\ chart[k].waiting = Max({points[j].waiting : j \in C})
                                 /\ chart[k].rate =
                                       IF rs = {} THEN Nil
                                       ELSE <<Total([j \in rs |-> points[j].rate], rs),
                                              Cardinality(rs)>>
    <3>1. limit \in Nat \ {0}
      BY StatsAssumption
    <3>2. /\ size \in 1..n /\ size <= limit /\ Len(chart) = size
          /\ at(0) = 0 /\ at(size) = n
      BY <2>1, <3>1, DownsampleFacts
    <3>3. \A k \in 1..size :
             /\ at(k - 1) \in Nat /\ at(k) \in Nat /\ at(k - 1) < at(k)
             /\ chart[k].at = at(k)
      BY <2>1, <3>1, DownsampleFacts
    <3>4. \A k \in 1..size : Says(k, part(k))
      BY <2>1, <3>1, DownsampleFacts
    <3> HIDE DEF chart, size, n, at
    <3>5. ASSUME NEW k \in 1..size PROVE from(k) = at(k - 1) + 1
      <4>1. k \in Int /\ size \in Int
        BY <3>2
      <4>2. CASE k = 1
        <5>1. at(k - 1) = 0
          BY <3>2, <4>2
        <5> QED BY <4>2, <5>1
      <4>3. CASE k # 1
        <5>1. k - 1 \in 1..size
          BY <4>1, <4>3
        <5> QED BY <3>3, <4>3, <5>1
      <4> QED BY <4>2, <4>3
    <3>6. ASSUME NEW k \in 1..size
          PROVE  from(k)..chart[k].at = part(k) /\ part(k) # {}
      <4>1. from(k)..chart[k].at = part(k)
        <5> HIDE DEF from
        <5> QED BY <3>3, <3>5
      <4>2. at(k) \in part(k)
        BY <3>3
      <4> QED BY <4>1, <4>2
    <3>7. ASSUME NEW k \in 1..size
          PROVE  from(k)..chart[k].at # {} /\ Says(k, from(k)..chart[k].at)
      <4> HIDE DEF from, part, Says
      <4> QED BY <3>4, <3>6
    <3>8. chart[Len(chart)].at = n
      <4>1. size \in 1..size
        BY <3>2
      <4> QED BY <3>2, <3>3, <4>1
    <3>9. Len(chart) = size
      BY <3>2
    <3>10. \A k \in 1..Len(chart) :
              from(k)..chart[k].at # {} /\ Says(k, from(k)..chart[k].at)
      <4> HIDE DEF from, Says
      <4> QED BY <3>7, <3>9
    <3> QED BY ONLY <3>8, <3>9, <3>10 DEF n, size, chart
  <2>2. ASSUME PointsInv, NEW limit \in 1..MaxScrapes PROVE Limit(limit)
    <3>1. CASE points = <<>>
      BY <3>1
    <3>2. CASE points # <<>>
      <4> HIDE DEF Limit
      <4> QED BY <2>1, <2>2, <3>2
    <3> QED BY <3>1, <3>2
  <2>3. ChartComplete = \A limit \in 1..MaxScrapes : Limit(limit)
    BY Zenon DEF ChartComplete
  <2> HIDE DEF Limit
  <2> QED BY <2>2, <2>3
<1>2. StatsInv => PointsInv
  BY DEF StatsInv
<1> QED BY <1>1, <1>2, StatsInvariant, PTL

-----------------------------------------------------------------------------
(* UsageReport.                                                            *)

-----------------------------------------------------------------------------
(* While a report is being made.                                           *)

\* A line is in the file of an inode.
InFile(l, i) == \E a \in 1..Len(files[i]) : files[i][a] = l

\* The paths still to be read that lead to an inode, and how often a line has
\* been read.
Pending(i) == {k \in Paths : name[k] = i /\ \E h \in 1..Len(ahead) : ahead[h] = k}
Copies(l) == Cardinality({j \in 1..Len(taken) : taken[j] = l})

\* The paths are read in the order of their names, and what has been read was
\* written.
WalkInv ==
    /\ ahead \in Seq(Paths) /\ Increasing(ahead)
    /\ now \in Nat /\ now <= written
    /\ taken \in Seq(Lines) /\ \A j \in 1..Len(taken) : taken[j] <= written
    /\ moves \in Nat

\* The copies of a line, those still to come included, are paid for by the
\* steps that gave its file another name.
CopyInv ==
    \A l \in 1..now : \A i \in Inodes :
        InFile(l, i) => Copies(l) + Cardinality(Pending(i)) <= 1 + moves

\* Before the first such step no line has been read twice or will be, and
\* every line there was has been read or will be.
QuietInv ==
    moves = 0 =>
        /\ ~Compressing
        /\ \A j, k \in 1..Len(taken) : taken[j] = taken[k] => j = k
        /\ \A j \in 1..Len(taken), i \in Inodes :
               InFile(taken[j], i) => Pending(i) = {}
        /\ \A l \in 1..now, i \in Inodes :
               InFile(l, i) => Pending(i) # {} \/ \E j \in 1..Len(taken) : taken[j] = l

ReportInv ==
    /\ LogInv /\ LinesKept
    /\ ahead # None => WalkInv /\ CopyInv /\ QuietInv

-----------------------------------------------------------------------------
(* The log, from the reader's point of view.                               *)

\* A line is in one file, and once.
LEMMA OneFile ==
    ASSUME LogInv, NEW i \in Inodes, NEW j \in Inodes,
           NEW a \in 1..Len(files[i]), NEW b \in 1..Len(files[j]),
           files[i][a] = files[j][b]
    PROVE  i = j /\ a = b
<1>1. /\ files[i] \in Seq(Lines) /\ files[j] \in Seq(Lines)
      /\ files[i][a] \in Nat /\ i \in Nat /\ j \in Nat /\ a \in Nat /\ b \in Nat
  BY LogBounds DEF LogInv, LogTypeOK, Lines, Inodes
<1>2. i = j
  <2>1. i < j => files[i][a] < files[j][b]
    BY DEF LogInv, LinesInv
  <2>2. j < i => files[j][b] < files[i][a]
    BY DEF LogInv, LinesInv
  <2> QED BY <1>1, <2>1, <2>2
<1>3. Increasing(files[i])
  BY DEF LogInv, LinesInv
<1>4. a < b => files[i][a] < files[i][b]
  BY <1>2, <1>3 DEF Increasing
<1>5. b < a => files[i][b] < files[i][a]
  BY <1>2, <1>3 DEF Increasing
<1> QED BY <1>1, <1>2, <1>4, <1>5

\* So the file of a line is determined.
LEMMA InOneFile ==
    ASSUME LogInv, NEW l, NEW i \in Inodes, NEW j \in Inodes,
           InFile(l, i), InFile(l, j)
    PROVE  i = j
BY OneFile DEF InFile

\* The names of an inode: two while usage.log.1 is compressed, else one.
Names(i) == {k \in Paths : name[k] = i}

\* They are at most two, and one outside a compression.
LEMMA NamesCount ==
    LogInv => \A i \in Inodes :
        /\ IsFiniteSet(Names(i)) /\ Cardinality(Names(i)) \in Nat
        /\ Cardinality(Names(i)) <= 2
        /\ ~Compressing => /\ Cardinality(Names(i)) <= 1
                           /\ \A j, k \in Names(i) : j = k
<1> SUFFICES ASSUME LogInv, NEW i \in Inodes
             PROVE  /\ IsFiniteSet(Names(i)) /\ Cardinality(Names(i)) \in Nat
                    /\ Cardinality(Names(i)) <= 2
                    /\ ~Compressing => /\ Cardinality(Names(i)) <= 1
                                       /\ \A j, k \in Names(i) : j = k
  OBVIOUS
<1>1. Paths \subseteq Nat /\ None \notin Nat /\ i \in Nat
  BY NameFacts DEF Inodes
<1>2. ASSUME NEW j \in Names(i), NEW k \in Names(i), j < k
      PROVE  j = 1 /\ k = 2 /\ Compressing
  <2>1. j \in Paths /\ k \in Paths /\ name[j] = i /\ name[k] = i
    BY DEF Names
  <2>2. name[j] # None /\ name[k] # None
    BY <1>1, <2>1
  <2> QED BY <1>1, <1>2, <2>1, <2>2, PathOrder
<1>3. Names(i) \subseteq Nat
  BY <1>1 DEF Names
<1>4. \A j, k \in Names(i) : j = k \/ (Compressing /\ {j, k} = {1, 2})
  BY <1>2, <1>3
<1>5. CASE Names(i) = {}
  BY <1>5, FS_EmptySet
<1>6. ASSUME NEW x, Names(i) = {x}
      PROVE  IsFiniteSet(Names(i)) /\ Cardinality(Names(i)) = 1
  BY <1>6, FS_Singleton
<1>7. CASE \E x : Names(i) = {x}
  BY <1>6, <1>7
<1>8. CASE Names(i) # {} /\ ~\E x : Names(i) = {x}
  <2>1. Names(i) = {1, 2} /\ Compressing
    <3>1. PICK x \in Names(i) : TRUE
      BY <1>8
    <3>2. PICK y \in Names(i) : y # x
      BY <1>8
    <3> QED BY <1>4, <3>2
  <2>2. IsFiniteSet({1} \cup {2}) /\ Cardinality({1} \cup {2}) = 2
    <3>1. IsFiniteSet({1}) /\ Cardinality({1}) = 1
      BY FS_Singleton
    <3> QED BY <3>1, FS_AddElement
  <2>3. {1, 2} = {1} \cup {2}
    OBVIOUS
  <2> QED BY <2>1, <2>2, <2>3
<1> QED BY <1>4, <1>5, <1>6, <1>7, <1>8

\* The pending paths are among the names.
LEMMA PendingCount ==
    LogInv => \A i \in Inodes :
        /\ IsFiniteSet(Pending(i)) /\ Cardinality(Pending(i)) \in Nat
        /\ Cardinality(Pending(i)) <= 2
        /\ ~Compressing => /\ Cardinality(Pending(i)) <= 1
                           /\ \A j, k \in Pending(i) : j = k
<1> SUFFICES ASSUME LogInv, NEW i \in Inodes
             PROVE  /\ IsFiniteSet(Pending(i)) /\ Cardinality(Pending(i)) \in Nat
                    /\ Cardinality(Pending(i)) <= 2
                    /\ ~Compressing => /\ Cardinality(Pending(i)) <= 1
                                       /\ \A j, k \in Pending(i) : j = k
  OBVIOUS
<1>1. Pending(i) \subseteq Names(i)
  BY DEF Pending, Names
<1>2. /\ IsFiniteSet(Names(i)) /\ Cardinality(Names(i)) \in Nat
      /\ Cardinality(Names(i)) <= 2
      /\ ~Compressing => /\ Cardinality(Names(i)) <= 1
                         /\ \A j, k \in Names(i) : j = k
  BY NamesCount
<1>3. /\ IsFiniteSet(Pending(i))
      /\ Cardinality(Pending(i)) <= Cardinality(Names(i))
  BY <1>1, <1>2, FS_Subset
<1>4. Cardinality(Pending(i)) \in Nat
  BY <1>3, FS_CardinalityType
<1> QED BY <1>1, <1>2, <1>3, <1>4

\* Of these, the bounds, also where a step ends.
LEMMA PendingBound ==
    LogInv => \A i \in Inodes :
        /\ Cardinality(Pending(i)) \in Nat /\ Cardinality(Pending(i)) <= 2
        /\ ~Compressing => Cardinality(Pending(i)) <= 1
<1> SUFFICES ASSUME LogInv, NEW i \in Inodes
             PROVE  /\ Cardinality(Pending(i)) \in Nat /\ Cardinality(Pending(i)) <= 2
                    /\ ~Compressing => Cardinality(Pending(i)) <= 1
  OBVIOUS
<1> QED BY PendingCount

\* A line once written stays in its file and comes to no other.
LEMMA FilesKept ==
    ASSUME LogInv, LogNext, NEW l \in Nat, l <= written, NEW i \in Inodes
    PROVE  InFile(l, i)' <=> InFile(l, i)
<1>1. files \in [Inodes -> Seq(Lines)] /\ written \in Nat
  BY LogBounds DEF LogInv, LogTypeOK
<1>2. CASE files' = files
  BY <1>2 DEF InFile
<1>3. CASE WriteLine
  <2>1. files' = [files EXCEPT ![fd] = Append(files[fd], written + 1)]
    BY <1>3 DEF WriteLine
  <2>2. CASE i # fd
    <3>1. files'[i] = files[i]
      BY <1>1, <2>1, <2>2
    <3> QED BY <3>1 DEF InFile
  <2>3. CASE i = fd
    <3> DEFINE s == files[fd]
    <3>1. s \in Seq(Lines) /\ files'[i] = Append(s, written + 1) /\ files[i] = s
      BY <1>1, <2>1, <2>3
    <3> HIDE DEF s
    <3>2. /\ Len(s) \in Nat /\ Len(files'[i]) = Len(s) + 1
          /\ files'[i][Len(s) + 1] = written + 1
          /\ \A a \in 1..Len(s) : files'[i][a] = s[a]
      BY <3>1
    <3>3. \A a \in 1..Len(files'[i]) : a \in 1..Len(s) \/ a = Len(s) + 1
      BY <3>2
    <3>4. \A a \in 1..Len(s) : a \in 1..Len(files'[i])
      BY <3>2
    <3>5. l # written + 1
      BY <1>1
    <3> QED BY <3>1, <3>2, <3>3, <3>4, <3>5 DEF InFile
  <2> QED BY <2>2, <2>3
<1>4. WriteLine \/ files' = files
  BY DEF LogNext, Rotate, BeginRotation, CompressEnd, Shift, Rename, Create, Reopen
<1> QED BY <1>2, <1>3, <1>4

-----------------------------------------------------------------------------
(* Counting.                                                               *)

\* The positions of a sequence are finitely many.
LEMMA PositionsFinite ==
    ASSUME NEW s, Len(s) \in Nat, NEW S
    PROVE  /\ IsFiniteSet({j \in 1..Len(s) : s[j] \in S})
           /\ Cardinality({j \in 1..Len(s) : s[j] \in S}) \in Nat
<1> DEFINE T == {j \in 1..Len(s) : s[j] \in S}
<1>1. IsFiniteSet(1..Len(s))
  BY FS_Interval
<1>2. IsFiniteSet(T)
  BY <1>1, FS_Subset
<1> QED BY <1>2, FS_CardinalityType

\* So a line has been read a number of times.
LEMMA CopiesNat ==
    ASSUME taken \in Seq(Lines), NEW l PROVE Copies(l) \in Nat
<1>1. Len(taken) \in Nat
  OBVIOUS
<1>2. {j \in 1..Len(taken) : taken[j] = l} = {j \in 1..Len(taken) : taken[j] \in {l}}
  OBVIOUS
<1> QED BY <1>1, <1>2, PositionsFinite DEF Copies

\* In a sequence without repetitions they are as many as the entries.
LEMMA CountOnce ==
    ASSUME NEW s, Len(s) \in Nat, NEW S,
           \A j, k \in 1..Len(s) : s[j] = s[k] => j = k
    PROVE  Cardinality({j \in 1..Len(s) : s[j] \in S})
              = Cardinality({s[j] : j \in 1..Len(s)} \cap S)
<1> DEFINE T == {j \in 1..Len(s) : s[j] \in S}
           U == {s[j] : j \in 1..Len(s)} \cap S
           f == [j \in T |-> s[j]]
<1>1. f \in [T -> U]
  OBVIOUS
<1>2. \A j, k \in T : f[j] = f[k] => j = k
  OBVIOUS
<1>3. \A u \in U : \E j \in T : f[j] = u
  OBVIOUS
<1>4. IsFiniteSet(T)
  BY PositionsFinite
<1> HIDE DEF T, U, f
<1>5. ExistsBijection(T, U)
  BY <1>1, <1>2, <1>3, Zenon
     DEF ExistsBijection, Bijection, Injection, Surjection, IsInjective
<1> QED BY <1>4, <1>5, FS_Bijection DEF T, U

\* How reading one more file changes the copies of a line.
LEMMA CopiesRead ==
    ASSUME NEW r \in Seq(Lines), NEW s \in Seq(Lines), NEW l,
           \A a, b \in 1..Len(s) : s[a] = s[b] => a = b
    PROVE  Cardinality({j \in 1..Len(r \o s) : (r \o s)[j] = l})
              = Cardinality({j \in 1..Len(r) : r[j] = l})
                + IF \E a \in 1..Len(s) : s[a] = l THEN 1 ELSE 0
<1> DEFINE m == Len(r)
           n == Len(s)
           t == r \o s
           T == {j \in 1..m : r[j] = l}
           U == {j \in 1..Len(t) : t[j] = l}
<1>1. /\ m \in Nat /\ n \in Nat /\ Len(t) = m + n
      /\ \A j \in 1..m : t[j] = r[j]
      /\ \A a \in 1..n : t[m + a] = s[a]
  OBVIOUS
<1> HIDE DEF t
<1>2. \A j \in 1..Len(t) : j \in 1..m \/ (j - m \in 1..n /\ m + (j - m) = j)
  BY <1>1
<1>3. IsFiniteSet(T)
  <2>1. T = {j \in 1..Len(r) : r[j] \in {l}}
    OBVIOUS
  <2> QED BY <1>1, <2>1, PositionsFinite
<1>4. CASE \E a \in 1..n : s[a] = l
  <2>1. PICK a \in 1..n : s[a] = l
    BY <1>4
  <2>2. U = T \cup {m + a} /\ m + a \notin T
    <3>1. m + a \in U
      BY <1>1, <2>1
    <3>2. \A j \in T : j \in U
      BY <1>1
    <3>3. ASSUME NEW j \in U, j \notin T PROVE j = m + a
      <4>1. j - m \in 1..n /\ m + (j - m) = j
        BY <1>1, <1>2, <3>3
      <4>2. s[j - m] = l
        BY <1>1, <3>3, <4>1
      <4>3. j - m = a
        BY <2>1, <4>1, <4>2
      <4> QED BY <4>1, <4>3
    <3>4. m + a \notin T
      BY <1>1
    <3> QED BY <3>1, <3>2, <3>3, <3>4
  <2> HIDE DEF T, U
  <2>3. Cardinality(U) = Cardinality(T) + 1
    BY <1>3, <2>2, FS_AddElement
  <2> QED BY <1>4, <2>3 DEF T, U, t, m, n
<1>5. CASE ~\E a \in 1..n : s[a] = l
  <2>1. U = T
    <3>1. ASSUME NEW j \in U PROVE j \in T
      <4>1. CASE j \in 1..m
        BY <1>1, <4>1
      <4>2. CASE j - m \in 1..n /\ m + (j - m) = j
        <5>1. s[j - m] = t[j]
          BY <1>1, <4>2
        <5> QED BY <1>5, <4>2, <5>1
      <4> QED BY <1>2, <4>1, <4>2
    <3>2. \A j \in T : j \in U
      BY <1>1
    <3> QED BY <3>1, <3>2
  <2>2. Cardinality(T) \in Nat
    BY <1>3, FS_CardinalityType
  <2> HIDE DEF T, U
  <2>3. Cardinality(U) = Cardinality(T) + 0
    BY <2>1, <2>2
  <2> QED BY <1>5, <2>3 DEF T, U, t, m, n
<1> QED BY <1>4, <1>5

-----------------------------------------------------------------------------
(* The steps.                                                              *)

\* The files a report walks: every path there is, in the order of the names.
LEMMA WalkFacts ==
    ASSUME LogTypeOK
    PROVE  /\ NamesInOrder \in Seq(Paths) /\ Increasing(NamesInOrder)
           /\ \A k \in Existing : \E h \in 1..Len(NamesInOrder) : NamesInOrder[h] = k
<1> DEFINE s == [i \in 1..(MaxRotations + 2) |-> i - 1]
<1>1. MaxRotations \in Nat
  BY LogBounds
<1>2. /\ s \in Seq(Paths) /\ Len(s) = MaxRotations + 2
      /\ \A i \in 1..Len(s) : s[i] = i - 1
  <2>1. \A i \in 1..(MaxRotations + 2) : i - 1 \in Paths
    BY <1>1 DEF Paths
  <2>2. MaxRotations + 2 \in Nat
    BY <1>1
  <2> QED BY <2>1, <2>2
<1>3. Increasing(s)
  BY <1>1, <1>2 DEF Increasing
<1>4. ASSUME NEW k \in Paths PROVE \E j \in 1..Len(s) : s[j] = k
  <2>1. k + 1 \in 1..Len(s) /\ s[k + 1] = k
    BY <1>1, <1>2 DEF Paths
  <2> QED BY <2>1
<1>5. NamesInOrder = Select(s, Existing)
  BY DEF NamesInOrder, AllPaths
<1> HIDE DEF s
<1>6. /\ Select(s, Existing) \in Seq(Paths)
      /\ \A j \in 1..Len(s) : s[j] \in Existing =>
             \E h \in 1..Len(Select(s, Existing)) : Select(s, Existing)[h] = s[j]
  <2>1. s \in Seq(Paths)
    BY <1>2
  <2> QED BY <2>1, SelectFacts
<1>7. Increasing(NamesInOrder)
  BY <1>2, <1>3, <1>5, SelectOrder
<1>8. \A k \in Existing : \E h \in 1..Len(NamesInOrder) : NamesInOrder[h] = k
  BY <1>4, <1>5, <1>6 DEF Existing
<1> QED BY <1>5, <1>6, <1>7, <1>8

\* The report begins: nothing is read yet, and everything is pending.
LEMMA StepBegin ==
    ASSUME ReportInv, BeginReport PROVE ReportInv'
<1>1. /\ LogInv /\ LinesKept /\ LogTypeOK
      /\ ahead' = NamesInOrder /\ now' = written /\ taken' = <<>>
      /\ moves' = (IF Compressing THEN 1 ELSE 0)
      /\ UNCHANGED <<files, name, fd, written, rotations, rotating>>
  BY DEF ReportInv, LogInv, BeginReport, logVars, Compressing
<1>2. LogInv' /\ LinesKept'
  <2>1. UNCHANGED logVars
    BY DEF BeginReport
  <2> QED BY <1>1, <2>1, StepLog, StepKept
<1>3. written \in Nat
  BY <1>1, LogBounds DEF LogTypeOK
<1>4. WalkInv'
  BY <1>1, <1>3, WalkFacts DEF WalkInv
<1>5. (LogInv => \A i \in Inodes :
          /\ Cardinality(Pending(i)) \in Nat /\ Cardinality(Pending(i)) <= 2
          /\ ~Compressing => Cardinality(Pending(i)) <= 1)'
  BY PendingBound, PTL
<1>6. Compressing' = Compressing
  BY <1>1 DEF Compressing
<1>7. CopyInv'
  <2>1. \A l : Copies(l)' = 0
    <3>1. \A l : {j \in 1..Len(<<>>) : <<>>[j] = l} = {}
      OBVIOUS
    <3> QED BY <1>1, <3>1, FS_EmptySet DEF Copies
  <2> QED BY <1>1, <1>2, <1>5, <1>6, <2>1 DEF CopyInv
<1>8. QuietInv'
  <2>1. 1..Len(taken') = {}
    BY <1>1
  <2>2. moves' = 0 => ~Compressing'
    BY <1>1, <1>6
  <2>3. ASSUME NEW l \in 1..written, NEW i \in Inodes, InFile(l, i)
        PROVE  \E k \in Paths : k \in Pending(i)'
    <3>1. i \in 0..Newest
      <4>1. files[i] # <<>>
        BY <2>3 DEF InFile
      <4>2. fd \in Nat /\ i \in Nat /\ fd <= Newest /\ ~(i > fd) /\ Newest \in Nat
        BY <1>1, <4>1, NameFacts DEF LogInv, LogTypeOK, LinesInv, Inodes
      <4> QED BY <4>2
    <3>2. PICK k \in Paths : name[k] = i
      BY <1>1, <3>1, InodeNamed
    <3>3. k \in Existing
      <4>1. i \in Nat /\ None \notin Nat
        BY <1>1, NameFacts DEF Inodes
      <4> QED BY <3>2, <4>1 DEF Existing
    <3>4. \E h \in 1..Len(NamesInOrder) : NamesInOrder[h] = k
      BY <1>1, <3>3, WalkFacts
    <3> QED BY <1>1, <3>2, <3>4 DEF Pending
  <2>4. \A l, i : InFile(l, i)' <=> InFile(l, i)
    BY <1>1 DEF InFile
  <2> QED BY <1>1, <2>1, <2>2, <2>3, <2>4 DEF QuietInv
<1> QED BY <1>2, <1>4, <1>7, <1>8 DEF ReportInv

\* What a step of the log leaves of a report being made.
LEMMA LogKept ==
    ASSUME ReportInv, ahead # None, LogNext, UNCHANGED <<ahead, now, taken>>
    PROVE  /\ LogInv' /\ LinesKept'
           /\ \A l \in 1..now, i \in Inodes : InFile(l, i)' <=> InFile(l, i)
           /\ \A j \in 1..Len(taken), i \in Inodes :
                  InFile(taken[j], i)' <=> InFile(taken[j], i)
           /\ moves' \in Nat => WalkInv'
<1>1. LogInv /\ LinesKept /\ WalkInv
  BY DEF ReportInv
<1>2. LogInv' /\ LinesKept'
  BY <1>1, StepLog, StepKept
<1>3. written \in Nat /\ written' \in Nat /\ written <= written'
  <2>1. written \in Nat /\ written' \in Nat
    BY <1>1, <1>2, LogBounds DEF LogInv, LogTypeOK
  <2>2. written' = written \/ written' = written + 1
    BY DEF LogNext, Rotate, WriteLine, BeginRotation, CompressEnd, Shift, Rename, Create,
           Reopen
  <2> QED BY <2>1, <2>2
<1>4. \A l \in 1..now : l \in Nat /\ l <= written
  BY <1>1, <1>3 DEF WalkInv
<1>5. \A j \in 1..Len(taken) : taken[j] \in Nat /\ taken[j] <= written
  BY <1>1, LogBounds DEF WalkInv, Lines
<1>6. moves' \in Nat => WalkInv'
  BY <1>1, <1>3, <1>5 DEF WalkInv
<1>7. \A l \in Nat, i \in Inodes : l <= written => (InFile(l, i)' <=> InFile(l, i))
  BY <1>1, FilesKept
<1> QED BY <1>2, <1>4, <1>5, <1>6, <1>7

\* A step that gives no file another name changes nothing for it: a new file
\* is empty, and nothing is written to a line already there.
LEMMA StepUnmoved ==
    ASSUME ReportInv, ahead # None, WriteLine \/ CompressEnd \/ Create \/ Reopen,
           UNCHANGED <<ahead, now, taken, moves>>
    PROVE  LogInv' /\ LinesKept' /\ WalkInv' /\ CopyInv' /\ QuietInv'
<1>1. LogInv /\ WalkInv /\ CopyInv /\ QuietInv /\ LogNext
  BY DEF ReportInv, LogNext, Rotate
<1>2. /\ LogInv' /\ LinesKept'
      /\ \A l \in 1..now, i \in Inodes : InFile(l, i)' <=> InFile(l, i)
      /\ \A j \in 1..Len(taken), i \in Inodes :
             InFile(taken[j], i)' <=> InFile(taken[j], i)
      /\ moves' \in Nat => WalkInv'
  BY <1>1, LogKept
<1>3. ASSUME NEW l, NEW i \in Inodes, InFile(l, i) PROVE Pending(i)' = Pending(i)
  <2>1. CASE name' = name
    BY <2>1 DEF Pending
  <2>2. CASE Create
    <3>1. /\ name' = [name EXCEPT ![0] = rotations] /\ name[0] = None
          /\ rotating = "renamed" /\ DOMAIN name = Paths /\ 0 \in Paths /\ None \notin Nat
          /\ rotations \in Nat
      BY <1>1, <2>2, NameFacts DEF Create
    <3>2. fd <= Newest /\ Newest = rotations - 1 /\ fd \in Nat
      BY <1>1, <3>1 DEF LogInv, LinesInv, LogTypeOK, Newest, Inodes
    <3>3. files[i] # <<>> /\ i \in Nat
      BY <1>3 DEF InFile, Inodes
    <3>4. ~(i > fd)
      BY <1>1, <3>3 DEF LogInv, LinesInv
    <3>5. i # rotations /\ i # None
      BY <3>1, <3>2, <3>3, <3>4
    <3>6. \A k \in Paths : name'[k] = i <=> name[k] = i
      BY <3>1, <3>5
    <3> QED BY <3>6 DEF Pending
  <2> QED BY <2>1, <2>2 DEF WriteLine, CompressEnd, Reopen
<1>4. \A l : Copies(l)' = Copies(l)
  BY DEF Copies
<1>5. CopyInv'
  BY <1>1, <1>2, <1>3, <1>4 DEF CopyInv
<1>6. Compressing' => Compressing
  BY DEF WriteLine, CompressEnd, Create, Reopen, Compressing
<1>7. QuietInv'
  BY <1>1, <1>2, <1>3, <1>6 DEF QuietInv
<1> QED BY <1>1, <1>2, <1>5, <1>7 DEF WalkInv

\* A step that does pays for one more copy.
LEMMA StepMoved ==
    ASSUME ReportInv, ahead # None, Renames, moves' = moves + 1,
           UNCHANGED <<ahead, now, taken>>
    PROVE  LogInv' /\ LinesKept' /\ WalkInv' /\ CopyInv' /\ QuietInv'
<1>1. LogInv /\ WalkInv /\ CopyInv /\ LogNext /\ moves \in Nat
  BY DEF ReportInv, LogNext, Rotate, Renames, WalkInv
<1>2. /\ LogInv' /\ LinesKept'
      /\ \A l \in 1..now, i \in Inodes : InFile(l, i)' <=> InFile(l, i)
      /\ moves' \in Nat => WalkInv'
  BY <1>1, LogKept
<1>3. QuietInv'
  BY <1>1 DEF QuietInv
<1>4. \A l : Copies(l)' = Copies(l)
  BY DEF Copies
<1>5. (LogInv => \A i \in Inodes :
          /\ Cardinality(Pending(i)) \in Nat /\ Cardinality(Pending(i)) <= 2
          /\ ~Compressing => Cardinality(Pending(i)) <= 1)'
  BY PendingBound, PTL
<1>6. ASSUME NEW i \in Inodes
      PROVE  \/ Cardinality(Pending(i)') <= 1
             \/ Cardinality(Pending(i)') <= Cardinality(Pending(i)) + 1
  <2>1. IsFiniteSet(Pending(i)) /\ Cardinality(Pending(i)) \in Nat
    BY <1>1, PendingCount
  <2>2. CASE Shift \/ Rename
    <3>1. ~Compressing'
      BY <2>2 DEF Shift, Rename, Compressing
    <3> QED BY <1>2, <1>5, <3>1
  <2>3. CASE BeginRotation
    <3>1. name' = name \/ name' = [name EXCEPT ![2] = name[1]]
      BY <2>3 DEF BeginRotation
    <3>2. \A k \in Paths : k # 2 => name'[k] = name[k]
      <4>1. DOMAIN name = Paths
        BY <1>1, NameFacts
      <4> QED BY <3>1, <4>1
    <3>3. Pending(i)' \subseteq Pending(i) \cup {2}
      BY <3>2 DEF Pending
    <3>4. /\ IsFiniteSet(Pending(i) \cup {2})
          /\ Cardinality(Pending(i) \cup {2}) <= Cardinality(Pending(i)) + 1
      <4>1. IsFiniteSet(Pending(i) \cup {2})
        BY <2>1, FS_AddElement
      <4>2. \/ Cardinality(Pending(i) \cup {2}) = Cardinality(Pending(i))
            \/ Cardinality(Pending(i) \cup {2}) = Cardinality(Pending(i)) + 1
        BY <2>1, FS_AddElement
      <4> QED BY <2>1, <4>1, <4>2
    <3> DEFINE Q == Pending(i)'
    <3>5. Q \subseteq Pending(i) \cup {2}
      BY <3>3
    <3> HIDE DEF Q
    <3>6. Cardinality(Q) <= Cardinality(Pending(i) \cup {2}) /\ Cardinality(Q) \in Nat
      BY <3>4, <3>5, FS_Subset, FS_CardinalityType
    <3>7. Cardinality(Pending(i) \cup {2}) \in Nat
      BY <3>4, FS_CardinalityType
    <3>8. Cardinality(Q) <= Cardinality(Pending(i)) + 1
      BY <2>1, <3>4, <3>6, <3>7
    <3> QED BY <3>8 DEF Q
  <2> QED BY <2>2, <2>3 DEF Renames
<1>7. CopyInv'
  <2> SUFFICES ASSUME NEW l \in 1..now, NEW i \in Inodes, InFile(l, i)
               PROVE  Copies(l) + Cardinality(Pending(i)') <= 2 + moves
    BY <1>1, <1>2, <1>4 DEF CopyInv
  <2>1. Copies(l) + Cardinality(Pending(i)) <= 1 + moves
    BY <1>1 DEF CopyInv
  <2>2. Copies(l) \in Nat
    BY <1>1, CopiesNat DEF WalkInv
  <2>3. Cardinality(Pending(i)) \in Nat /\ Cardinality(Pending(i)') \in Nat
    BY <1>1, <1>2, <1>5, PendingCount
  <2> QED BY <1>1, <1>6, <2>1, <2>2, <2>3
<1> QED BY <1>1, <1>2, <1>3, <1>7

\* Taking the next path off the walk.
LEMMA NextPath ==
    ASSUME NEW w \in Seq(Paths), w # <<>>, Increasing(w)
    PROVE  /\ Head(w) \in Paths /\ Tail(w) \in Seq(Paths) /\ Increasing(Tail(w))
           /\ \E h \in 1..Len(w) : w[h] = Head(w)
           /\ \A p \in Paths : (\E h \in 1..Len(Tail(w)) : Tail(w)[h] = p)
                                  <=> (p # Head(w) /\ \E h \in 1..Len(w) : w[h] = p)
<1> DEFINE n == Len(w)
           t == Tail(w)
<1>1. /\ n \in Nat /\ n > 0 /\ Head(w) = w[1] /\ w[1] \in Paths /\ 1 \in 1..n
      /\ t \in Seq(Paths) /\ Len(t) = n - 1
      /\ \A h \in 1..(n - 1) : t[h] = w[h + 1] /\ h + 1 \in 1..n
  OBVIOUS
<1>2. Paths \subseteq Nat
  BY DEF Paths
<1> HIDE DEF t
<1>3. Increasing(t)
  <2> SUFFICES ASSUME NEW i \in 1..Len(t), NEW j \in 1..Len(t), i < j PROVE t[i] < t[j]
    BY DEF Increasing
  <2>1. /\ t[i] = w[i + 1] /\ i + 1 \in 1..n /\ t[j] = w[j + 1] /\ j + 1 \in 1..n
        /\ i + 1 < j + 1
    BY <1>1
  <2> QED BY <2>1 DEF Increasing
<1>4. ASSUME NEW h \in 1..Len(t)
      PROVE  t[h] # w[1] /\ \E g \in 1..n : w[g] = t[h]
  <2>1. t[h] = w[h + 1] /\ h + 1 \in 1..n /\ 1 < h + 1
    BY <1>1
  <2>2. w[1] < w[h + 1] /\ w[1] \in Nat /\ w[h + 1] \in Nat
    <3>1. w[h + 1] \in Paths
      BY <2>1
    <3>2. w[1] < w[h + 1]
      BY <1>1, <2>1 DEF Increasing
    <3> QED BY <1>1, <1>2, <3>1, <3>2
  <2> QED BY <2>1, <2>2
<1>5. ASSUME NEW h \in 1..n, w[h] # w[1]
      PROVE  \E g \in 1..Len(t) : t[g] = w[h]
  <2>1. h # 1
    BY <1>5
  <2>2. h - 1 \in 1..(n - 1) /\ (h - 1) + 1 = h
    BY <1>1, <2>1
  <2>3. t[h - 1] = w[h] /\ h - 1 \in 1..Len(t)
    BY <1>1, <2>2
  <2> QED BY <2>3
<1>6. \A p \in Paths : (\E h \in 1..Len(t) : t[h] = p)
                          <=> (p # w[1] /\ \E h \in 1..n : w[h] = p)
  BY <1>4, <1>5
<1> QED BY <1>1, <1>3, <1>6 DEF t

\* A file that is gone, or not yet a whole gzip stream, is passed over: while
\* nothing has been renamed there is none such.
LEMMA ReadNothing ==
    ASSUME ReportInv, ahead # None, ahead # <<>>, NEW k \in Paths,
           name[k] = None \/ StillEmpty(k), taken' = taken,
           \A i \in Inodes : Pending(i)' = Pending(i) \ {k},
           UNCHANGED <<logVars, now, moves>>
    PROVE  CopyInv' /\ QuietInv'
<1>1. /\ LogInv /\ WalkInv /\ CopyInv /\ QuietInv
      /\ UNCHANGED <<files, name, rotating>>
  BY DEF ReportInv, logVars
<1>2. /\ \A l : Copies(l)' = Copies(l)
      /\ \A l, i : InFile(l, i)' <=> InFile(l, i)
      /\ Compressing' = Compressing
  BY <1>1 DEF Copies, InFile, Compressing
<1>3. CopyInv'
  <2> SUFFICES ASSUME NEW l \in 1..now, NEW i \in Inodes, InFile(l, i)
               PROVE  Copies(l) + Cardinality(Pending(i) \ {k}) <= 1 + moves
    BY <1>2 DEF CopyInv
  <2>1. Copies(l) + Cardinality(Pending(i)) <= 1 + moves /\ moves \in Nat
    BY <1>1 DEF CopyInv, WalkInv
  <2>2. IsFiniteSet(Pending(i)) /\ Cardinality(Pending(i)) \in Nat
    BY <1>1, PendingCount
  <2>3. /\ Cardinality(Pending(i) \ {k}) <= Cardinality(Pending(i))
        /\ Cardinality(Pending(i) \ {k}) \in Nat
    BY <2>2, FS_Subset, FS_CardinalityType
  <2>4. Copies(l) \in Nat
    BY <1>1, CopiesNat DEF WalkInv
  <2> QED BY <2>1, <2>2, <2>3, <2>4
<1>4. QuietInv'
  <2>1. ASSUME moves = 0, NEW i \in Inodes PROVE k \notin Pending(i)
    <3>1. name[k] = None
      BY <1>1, <2>1 DEF QuietInv, StillEmpty, Compressing
    <3>2. i # None
      BY NoneAssumption DEF Inodes
    <3> QED BY <3>1, <3>2 DEF Pending
  <2>2. moves = 0 => \A i \in Inodes : Pending(i)' = Pending(i)
    BY <2>1
  <2> QED BY <1>1, <1>2, <2>2 DEF QuietInv
<1> QED BY <1>3, <1>4

\* Reading a file makes a pending copy of each of its lines a copy read.
LEMMA ReadLines ==
    ASSUME ReportInv, ahead # None, ahead # <<>>, NEW k \in Paths, NEW n \in Inodes,
           name[k] = n, k \in Pending(n), taken' = taken \o files[n],
           \A i \in Inodes : Pending(i)' = Pending(i) \ {k},
           UNCHANGED <<logVars, now, moves>>
    PROVE  CopyInv' /\ QuietInv'
<1>1. /\ LogInv /\ WalkInv /\ CopyInv /\ QuietInv /\ LogTypeOK
      /\ UNCHANGED <<files, name, rotating>>
  BY DEF ReportInv, LogInv, logVars
<1>2. /\ \A l, i : InFile(l, i)' <=> InFile(l, i)
      /\ Compressing' = Compressing
  BY <1>1 DEF InFile, Compressing
<1> DEFINE s == files[n]
<1>3. s \in Seq(Lines) /\ taken \in Seq(Lines)
  BY <1>1 DEF LogTypeOK, WalkInv
<1>4. \A a, b \in 1..Len(s) : s[a] = s[b] => a = b
  BY <1>1, OneFile
<1>5. \A i \in Inodes : i # n => Pending(i)' = Pending(i)
  BY DEF Pending
<1>6. CopyInv'
  <2> SUFFICES ASSUME NEW l \in 1..now, NEW i \in Inodes, InFile(l, i)
               PROVE  Copies(l)' + Cardinality(Pending(i)') <= 1 + moves
    BY <1>2 DEF CopyInv
  <2>1. Copies(l) + Cardinality(Pending(i)) <= 1 + moves /\ moves \in Nat
    BY <1>1 DEF CopyInv, WalkInv
  <2>2. IsFiniteSet(Pending(i)) /\ Cardinality(Pending(i)) \in Nat
    BY <1>1, PendingCount
  <2>3. Copies(l) \in Nat
    <3> HIDE DEF s
    <3> QED BY <1>3, CopiesNat
  <2>4. Copies(l)' = Copies(l) + IF \E a \in 1..Len(s) : s[a] = l THEN 1 ELSE 0
    <3>1. Copies(l)' = Cardinality({j \in 1..Len(taken \o s) : (taken \o s)[j] = l})
      BY DEF Copies
    <3> HIDE DEF s
    <3> QED BY <1>3, <1>4, <3>1, CopiesRead DEF Copies
  <2>5. CASE i = n
    <3>1. Copies(l)' = Copies(l) + 1
      BY <2>4, <2>5 DEF InFile
    <3>2. Pending(i)' = Pending(i) \ {k} /\ k \in Pending(i)
      BY <2>5
    <3>3. Cardinality(Pending(i) \ {k}) = Cardinality(Pending(i)) - 1
      BY <2>2, <3>2, FS_RemoveElement
    <3> QED BY <2>1, <2>2, <2>3, <3>1, <3>2, <3>3
  <2>6. CASE i # n
    <3>1. ~InFile(l, n)
      BY <1>1, <2>6, InOneFile
    <3>2. Copies(l)' = Copies(l)
      BY <2>3, <2>4, <3>1 DEF InFile
    <3> QED BY <1>5, <2>1, <2>6, <3>2
  <2> QED BY <2>5, <2>6
<1>7. QuietInv'
  <2> SUFFICES ASSUME moves = 0 PROVE QuietInv'
    BY DEF QuietInv
  <2> DEFINE m == Len(taken)
             t == taken \o s
  <2>1. /\ m \in Nat /\ Len(s) \in Nat /\ Len(t) = m + Len(s)
        /\ \A j \in 1..m : t[j] = taken[j]
        /\ \A a \in 1..Len(s) : t[m + a] = s[a]
    BY <1>3
  <2>2. taken' = t
    OBVIOUS
  <2> HIDE DEF t
  <2>3. ASSUME NEW j \in 1..Len(t)
        PROVE  \/ j \in 1..m /\ t[j] = taken[j]
               \/ j - m \in 1..Len(s) /\ t[j] = s[j - m] /\ m + (j - m) = j
    <3>1. j \in 1..m \/ (j - m \in 1..Len(s) /\ m + (j - m) = j)
      BY <2>1
    <3> QED BY <2>1, <3>1
  <2>4. /\ ~Compressing
        /\ \A j, h \in 1..m : taken[j] = taken[h] => j = h
        /\ \A j \in 1..m, i \in Inodes : InFile(taken[j], i) => Pending(i) = {}
        /\ \A l \in 1..now, i \in Inodes :
               InFile(l, i) => Pending(i) # {} \/ \E j \in 1..m : taken[j] = l
    BY <1>1 DEF QuietInv
  <2>5. \A j \in 1..m, a \in 1..Len(s) : taken[j] # s[a]
    <3> SUFFICES ASSUME NEW j \in 1..m, NEW a \in 1..Len(s), taken[j] = s[a] PROVE FALSE
      OBVIOUS
    <3>1. InFile(taken[j], n)
      BY DEF InFile
    <3> QED BY <2>4, <3>1
  <2>6. \A j, h \in 1..Len(t) : t[j] = t[h] => j = h
    <3> SUFFICES ASSUME NEW j \in 1..Len(t), NEW h \in 1..Len(t), t[j] = t[h]
                 PROVE  j = h
      OBVIOUS
    <3> HIDE DEF m, s
    <3>1. CASE j \in 1..m /\ t[j] = taken[j]
      BY <2>3, <2>4, <2>5, <3>1
    <3>2. CASE j - m \in 1..Len(s) /\ t[j] = s[j - m] /\ m + (j - m) = j
      <4>1. h - m \in 1..Len(s) /\ t[h] = s[h - m] /\ m + (h - m) = h
        BY <2>3, <2>5, <3>2
      <4>2. j - m = h - m
        BY <1>4, <3>2, <4>1
      <4> QED BY <3>2, <4>1, <4>2
    <3> QED BY <2>3, <3>1, <3>2
  <2>7. Pending(n)' = {}
    <3>1. \A h \in Pending(n) : h = k
      BY <1>1, <2>4, PendingCount
    <3> QED BY <3>1
  <2>8. ASSUME NEW j \in 1..Len(t), NEW i \in Inodes, InFile(t[j], i)
        PROVE  Pending(i)' = {}
    <3>1. CASE j \in 1..m /\ t[j] = taken[j]
      BY <2>4, <2>8, <3>1
    <3>2. CASE j - m \in 1..Len(s) /\ t[j] = s[j - m]
      <4>1. InFile(t[j], n)
        BY <3>2 DEF InFile
      <4>2. i = n
        BY <1>1, <2>8, <4>1, InOneFile
      <4> QED BY <2>7, <4>2
    <3> QED BY <2>3, <3>1, <3>2
  <2>9. ASSUME NEW l \in 1..now, NEW i \in Inodes, InFile(l, i)
        PROVE  Pending(i)' # {} \/ \E j \in 1..Len(t) : t[j] = l
    <3>1. CASE i = n
      <4>1. PICK a \in 1..Len(s) : s[a] = l
        BY <2>9, <3>1 DEF InFile
      <4>2. m + a \in 1..Len(t) /\ t[m + a] = l
        BY <2>1, <4>1
      <4> QED BY <4>2
    <3>2. CASE i # n
      <4>1. \A j \in 1..m : j \in 1..Len(t) /\ t[j] = taken[j]
        BY <2>1
      <4> QED BY <1>5, <2>4, <2>9, <3>2, <4>1
    <3> QED BY <3>1, <3>2
  <2> HIDE DEF m, s
  <2> QED BY <1>2, <2>2, <2>4, <2>6, <2>8, <2>9 DEF QuietInv
<1> QED BY <1>6, <1>7

\* The step that reads the next file, in both cases.
LEMMA StepReadFile ==
    ASSUME ReportInv, ReadNext PROVE ReportInv'
<1> DEFINE k == Head(ahead)
           n == name[k]
<1>1. /\ LogInv /\ LinesKept /\ WalkInv /\ LogTypeOK
      /\ ahead # None /\ ahead # <<>> /\ ahead' = Tail(ahead)
      /\ taken' = IF n = None \/ StillEmpty(k) THEN taken ELSE taken \o files[n]
      /\ UNCHANGED <<logVars, now, moves>>
      /\ UNCHANGED <<files, name, written>>
  BY DEF ReportInv, ReadNext, LogInv, logVars
<1>2. LogInv' /\ LinesKept'
  BY <1>1, StepLog, StepKept
<1>3. /\ ahead \in Seq(Paths) /\ Increasing(ahead) /\ taken \in Seq(Lines) /\ moves \in Nat
      /\ now \in Nat /\ now <= written /\ \A j \in 1..Len(taken) : taken[j] <= written
  BY <1>1 DEF WalkInv
<1>4. /\ k \in Paths /\ ahead' \in Seq(Paths) /\ Increasing(ahead')
      /\ \E h \in 1..Len(ahead) : ahead[h] = k
      /\ \A p \in Paths : (\E h \in 1..Len(ahead') : ahead'[h] = p)
                             <=> (p # k /\ \E h \in 1..Len(ahead) : ahead[h] = p)
  BY <1>1, <1>3, NextPath
<1> HIDE DEF k
<1>5. \A i \in Inodes : Pending(i)' = Pending(i) \ {k}
  BY <1>1, <1>4 DEF Pending
<1>6. CASE n = None \/ StillEmpty(k)
  <2>1. taken' = taken
    BY <1>1, <1>6
  <2>2. WalkInv'
    BY <1>1, <1>3, <1>4, <2>1 DEF WalkInv
  <2>3. CopyInv' /\ QuietInv'
    BY <1>1, <1>4, <1>5, <1>6, <2>1, ReadNothing
  <2> QED BY <1>2, <2>2, <2>3 DEF ReportInv
<1>7. CASE ~(n = None \/ StillEmpty(k))
  <2>1. n \in Inodes /\ taken' = taken \o files[n]
    BY <1>1, <1>4, <1>7 DEF LogTypeOK
  <2>2. k \in Pending(n)
    BY <1>4 DEF Pending
  <2> HIDE DEF n
  <2>3. WalkInv'
    <3> DEFINE s == files[n]
               t == taken \o s
    <3>1. s \in Seq(Lines) /\ \A a \in 1..Len(s) : s[a] <= written
      BY <1>1, <2>1 DEF LogInv, LogTypeOK, LinesInv
    <3> HIDE DEF s
    <3>2. /\ t \in Seq(Lines) /\ Len(t) = Len(taken) + Len(s)
          /\ Len(taken) \in Nat /\ Len(s) \in Nat
          /\ \A j \in 1..Len(taken) : t[j] = taken[j]
          /\ \A a \in 1..Len(s) : t[Len(taken) + a] = s[a]
      BY <1>3, <3>1
    <3>3. taken' = t
      BY <2>1 DEF s
    <3> HIDE DEF t
    <3>4. ASSUME NEW j \in 1..Len(t) PROVE t[j] <= written
      <4>1. CASE j \in 1..Len(taken)
        BY <1>3, <3>2, <4>1
      <4>2. CASE j \notin 1..Len(taken)
        <5>1. j - Len(taken) \in 1..Len(s) /\ Len(taken) + (j - Len(taken)) = j
          BY <3>2, <4>2
        <5>2. t[j] = s[j - Len(taken)]
          BY <3>2, <5>1
        <5> QED BY <3>1, <5>1, <5>2
      <4> QED BY <4>1, <4>2
    <3> QED BY <1>1, <1>3, <1>4, <3>2, <3>3, <3>4 DEF WalkInv
  <2>4. CopyInv' /\ QuietInv'
    <3>1. name[k] = n
      BY DEF n
    <3> QED BY <1>1, <1>4, <1>5, <2>1, <2>2, <3>1, ReadLines
  <2> QED BY <1>2, <2>3, <2>4 DEF ReportInv
<1> QED BY <1>6, <1>7

-----------------------------------------------------------------------------
(* The finished report.                                                    *)

\* When every path has been read, the copies still to come are none.
LEMMA FinishedCopies ==
    ASSUME ReportInv, ahead = <<>>, ahead # None
    PROVE  \A l \in 1..now : /\ Copies(l) <= 1 + moves
                             /\ moves = 0 => Copies(l) = 1
<1> SUFFICES ASSUME NEW l \in 1..now
             PROVE  Copies(l) <= 1 + moves /\ (moves = 0 => Copies(l) = 1)
  OBVIOUS
<1>1. LogInv /\ LinesKept /\ WalkInv /\ CopyInv /\ QuietInv
  BY DEF ReportInv
<1>2. PICK i \in Inodes : InFile(l, i)
  <2>1. l \in 1..written
    <3>1. now \in Nat /\ now <= written /\ written \in Nat
      BY <1>1, LogBounds DEF WalkInv, LogInv, LogTypeOK
    <3> QED BY <3>1
  <2>2. fd \in Inodes /\ MaxRotations \in Nat
    BY <1>1, LogBounds DEF LogInv, LogTypeOK
  <2>3. \A i \in 0..fd : i \in Inodes
    BY <2>2 DEF Inodes
  <2> QED BY <1>1, <2>1, <2>3 DEF LinesKept, InFile
<1>3. Pending(i) = {} /\ Cardinality({}) = 0
  <2>1. 1..Len(ahead) = {}
    OBVIOUS
  <2> QED BY <2>1, FS_EmptySet DEF Pending
<1>4. Copies(l) <= 1 + moves
  <2>1. Copies(l) + Cardinality(Pending(i)) <= 1 + moves /\ taken \in Seq(Lines)
    BY <1>1, <1>2 DEF CopyInv, WalkInv
  <2>2. Copies(l) \in Nat
    BY <2>1, CopiesNat
  <2> QED BY <1>3, <2>1, <2>2
<1>5. ASSUME moves = 0 PROVE Copies(l) = 1
  <2>1. PICK j \in 1..Len(taken) : taken[j] = l
    BY <1>1, <1>2, <1>3, <1>5 DEF QuietInv
  <2>2. {h \in 1..Len(taken) : taken[h] = l} = {j}
    BY <1>1, <1>5, <2>1 DEF QuietInv
  <2> QED BY <2>2, FS_Singleton DEF Copies
<1> QED BY <1>4, <1>5

\* What a window is of rows without repetitions that have every line up to the
\* report's time: the lines of the window and those that came in meanwhile,
\* each once.
Young(secs) == {l \in Lines : InWindow(l, secs)}
Due(secs) == {l \in 1..now : now - l <= secs}
More == {l \in Range(taken) : l > now}

\* The selected rows are these lines.
LEMMA WindowFacts ==
    ASSUME NEW secs \in Nat, taken \in Seq(Lines), now \in Nat,
           \A j, k \in 1..Len(taken) : taken[j] = taken[k] => j = k,
           \A l \in 1..now : \E j \in 1..Len(taken) : taken[j] = l
    PROVE  LET t == Select(taken, Young(secs))
               U == Due(secs) \cup More
           IN  /\ DOMAIN t = 1..Len(t) /\ Len(t) \in Nat
               /\ \A j, k \in 1..Len(t) : t[j] = t[k] => j = k
               /\ \A i \in 1..Len(t) : t[i] \in U /\ t[i] \in Lines
               /\ \A u \in U : \E i \in 1..Len(t) : t[i] = u
<1> DEFINE t == Select(taken, Young(secs))
           U == Due(secs) \cup More
<1> HIDE DEF t, U
<1>1. /\ t \in Seq(Lines) /\ Len(t) \in Nat
      /\ \A i \in 1..Len(t) : t[i] \in Young(secs) /\ \E j \in 1..Len(taken) : taken[j] = t[i]
      /\ \A j \in 1..Len(taken) : taken[j] \in Young(secs) =>
             \E i \in 1..Len(t) : t[i] = taken[j]
  <2> DEFINE S == Young(secs)
  <2>1. taken \in Seq(Lines) /\ t = Select(taken, S)
    BY DEF t
  <2> HIDE DEF S
  <2>2. Select(taken, S) \in Seq(Lines) /\ Picks(Select(taken, S), taken, S, Len(taken))
    BY <2>1, SelectPicks
  <2>3. t \in Seq(Lines) /\ Picks(t, taken, S, Len(taken))
    BY <2>1, <2>2
  <2>4. Len(t) \in Nat
    BY <2>3
  <2>5. \A i \in 1..Len(t) : t[i] \in S /\ \E j \in 1..Len(taken) : taken[j] = t[i]
    <3> SUFFICES ASSUME NEW i \in 1..Len(t)
                 PROVE  t[i] \in S /\ \E j \in 1..Len(taken) : taken[j] = t[i]
      OBVIOUS
    <3> QED BY ONLY <2>3 DEF Picks
  <2>6. \A j \in 1..Len(taken) : taken[j] \in S => \E i \in 1..Len(t) : t[i] = taken[j]
    <3> SUFFICES ASSUME NEW j \in 1..Len(taken), taken[j] \in S
                 PROVE  \E i \in 1..Len(t) : t[i] = taken[j]
      OBVIOUS
    <3> QED BY <2>3 DEF Picks
  <2> QED BY <2>3, <2>4, <2>5, <2>6 DEF S
<1>2. PICK f \in [1..Len(t) -> 1..Len(taken)] :
        /\ \A i, j \in 1..Len(t) : i < j => f[i] < f[j]
        /\ \A i \in 1..Len(t) : t[i] = taken[f[i]]
  BY SelectPicks DEF Picks, t
<1>3. \A j, k \in 1..Len(t) : t[j] = t[k] => j = k
  <2> SUFFICES ASSUME NEW j \in 1..Len(t), NEW k \in 1..Len(t), t[j] = t[k]
               PROVE  j = k
    OBVIOUS
  <2>1. f[j] = f[k] /\ f[j] \in Nat
    BY <1>2
  <2> QED BY <1>1, <1>2, <2>1
<1>4. Range(taken) = {taken[j] : j \in 1..Len(taken)}
  <2>1. DOMAIN taken = 1..Len(taken)
    OBVIOUS
  <2> QED BY <2>1 DEF Range
<1>5. ASSUME NEW j \in 1..Len(taken) PROVE taken[j] \in Young(secs) <=> taken[j] \in U
  <2>1. taken[j] \in Lines /\ taken[j] \in Nat /\ taken[j] >= 1
    <3>1. taken[j] \in Lines
      OBVIOUS
    <3> QED BY <3>1, LogBounds DEF Lines
  <2>2. taken[j] \in More <=> taken[j] > now
    BY <1>4 DEF More
  <2>3. taken[j] \in Due(secs) <=> (taken[j] <= now /\ now - taken[j] <= secs)
    BY <2>1 DEF Due
  <2>4. taken[j] \in Young(secs) <=> now - taken[j] <= secs
    BY <2>1 DEF Young, InWindow
  <2> QED BY <2>1, <2>2, <2>3, <2>4 DEF U
<1>6. \A i \in 1..Len(t) : t[i] \in U /\ t[i] \in Lines
  BY <1>1, <1>5
<1>7. ASSUME NEW u \in U PROVE \E i \in 1..Len(t) : t[i] = u
  <2>1. PICK j \in 1..Len(taken) : taken[j] = u
    BY <1>4 DEF U, Due, More
  <2> QED BY <1>1, <1>5, <2>1
<1>8. DOMAIN t = 1..Len(t)
  BY <1>1
<1> QED BY <1>1, <1>3, <1>6, <1>7, <1>8 DEF t, U

\* The oldest row lies as far back as the rows reach.
LEMMA CoverageReaches ==
    ASSUME NEW secs \in Nat \ {0}, taken \in Seq(Lines), now \in Nat,
           ~(secs > Span), \A j \in 1..Len(taken) : taken[j] <= now
    PROVE  \E l \in 1..now : now - l >= secs
<1> DEFINE T == Range(taken)
<1>1. /\ Len(taken) > 1 /\ Len(taken) \in Nat /\ ~(secs > Max(T) - Min(T))
      /\ DOMAIN taken = 1..Len(taken)
  BY DEF Span
<1>2. T \in SUBSET Nat /\ T # {} /\ \A x \in T : x >= 1 /\ x <= now
  <2>1. \A j \in 1..Len(taken) : taken[j] \in Lines
    OBVIOUS
  <2>2. \A j \in 1..Len(taken) : taken[j] \in Nat /\ taken[j] >= 1
    BY <2>1, LogBounds DEF Lines
  <2>3. 1 \in 1..Len(taken)
    BY <1>1
  <2> QED BY <1>1, <2>2, <2>3 DEF Range
<1> HIDE DEF T
<1>3. Max(T) \in T
  <2>1. T \in SUBSET Int /\ now \in Int
    BY <1>2
  <2>2. \E n \in T : \A m \in T : n >= m
    BY <1>2, <2>1, Greatest
  <2> QED BY <2>2 DEF Max
<1>4. Min(T) \in T
  <2>1. \E n \in T : \A m \in T : n <= m
    BY <1>2, Least
  <2> QED BY <2>1 DEF Min
<1>5. Min(T) \in Nat /\ Max(T) \in Nat /\ Min(T) >= 1 /\ Max(T) <= now /\ Min(T) <= now
  BY <1>2, <1>3, <1>4
<1>6. Min(T) \in 1..now /\ now - Min(T) >= secs
  BY <1>1, <1>5
<1> QED BY <1>6

\* A summary of such rows.
LEMMA SummaryExact ==
    ASSUME NEW secs \in Windows, taken \in Seq(Lines), now \in Nat,
           \A j, k \in 1..Len(taken) : taken[j] = taken[k] => j = k,
           \A l \in 1..now : \E j \in 1..Len(taken) : taken[j] = l
    PROVE  LET w == Summary(secs)
               U == Due(secs) \cup More
               mine(c) == {l \in U : Cust[l] = c}
           IN  /\ w.requests = Cardinality(U)
               /\ w.requests = w.successful + w.failures
               /\ \A c \in Customers :
                     IF mine(c) = {} THEN c \notin DOMAIN w.per_customer
                     ELSE /\ w.per_customer[c].requests = Cardinality(mine(c))
                          /\ w.per_customer[c].failures
                                = Cardinality({l \in mine(c) : Failed(l)})
               /\ ~w.partial /\ More = {} => \E l \in 1..now : now - l >= secs
<1> DEFINE w == Summary(secs)
           U == Due(secs) \cup More
           t == Select(taken, Young(secs))
           P == w.per_customer
<1>1. secs \in Nat \ {0} /\ secs \in Nat
  BY WindowsAssumption
<1>2. /\ w.requests = Len(t)
      /\ w.successful = Cardinality({i \in DOMAIN t : ~Failed(t[i])})
      /\ w.failures = Cardinality({i \in DOMAIN t : Failed(t[i])})
      /\ P = CustomersOf(t)
      /\ w.partial = (secs > Span)
  BY DEF Summary, Count, Young
<1>3. CustomersOf(t) =
        [c \in {Cust[t[i]] : i \in DOMAIN t} |->
           [requests  |-> Cardinality({i \in DOMAIN t : Cust[t[i]] = c}),
            failures  |-> Cardinality({i \in DOMAIN t : Cust[t[i]] = c /\ Failed(t[i])}),
            throttled |-> Cardinality({i \in DOMAIN t : Cust[t[i]] = c
                                                          /\ Status[t[i]] = 429})]]
  BY DEF CustomersOf, Count
<1> HIDE DEF w, U, t, P
<1>4. /\ DOMAIN t = 1..Len(t) /\ Len(t) \in Nat
      /\ \A j, k \in 1..Len(t) : t[j] = t[k] => j = k
      /\ \A i \in 1..Len(t) : t[i] \in U /\ t[i] \in Lines
      /\ \A u \in U : \E i \in 1..Len(t) : t[i] = u
  BY <1>1, WindowFacts DEF t, U
<1>5. \A S : Cardinality({i \in 1..Len(t) : t[i] \in S}) = Cardinality(U \cap S)
  <2> SUFFICES ASSUME NEW S
               PROVE  Cardinality({i \in 1..Len(t) : t[i] \in S}) = Cardinality(U \cap S)
    OBVIOUS
  <2>1. Len(t) \in Nat /\ \A j, k \in 1..Len(t) : t[j] = t[k] => j = k
    BY <1>4
  <2>2. Cardinality({i \in 1..Len(t) : t[i] \in S})
           = Cardinality({t[i] : i \in 1..Len(t)} \cap S)
    BY ONLY <2>1, CountOnce
  <2>3. {t[i] : i \in 1..Len(t)} = U
    BY <1>4
  <2> QED BY ONLY <2>2, <2>3, Zenon
<1> DEFINE n == Len(t)
<1>6. IsFiniteSet(1..n) /\ Cardinality(1..n) = n /\ n \in Nat
  <2>1. n \in Nat
    BY <1>4
  <2> HIDE DEF n
  <2> QED BY <2>1, FS_Interval
<1>7. w.requests = Cardinality(U)
  <2>1. {i \in 1..Len(t) : t[i] \in U} = 1..Len(t) /\ U \cap U = U
    BY <1>4
  <2>2. Cardinality(1..Len(t)) = Cardinality(U)
    BY <1>5, <2>1
  <2> QED BY <1>2, <1>6, <2>2
<1>8. w.requests = w.successful + w.failures
  <2> DEFINE I == 1..Len(t)
             A == {i \in I : ~Failed(t[i])}
             B == {i \in I : Failed(t[i])}
  <2>1. IsFiniteSet(I) /\ Cardinality(I) = Len(t)
    BY <1>6
  <2>2. A \cup B = I /\ A \cap B = {} /\ A \subseteq I /\ B \subseteq I
    OBVIOUS
  <2>3. w.successful = Cardinality(A) /\ w.failures = Cardinality(B)
    BY <1>2, <1>4
  <2> HIDE DEF I, A, B
  <2>4. IsFiniteSet(A) /\ IsFiniteSet(B)
    BY <2>1, <2>2, FS_Subset
  <2>5. Cardinality(A \cup B) = Cardinality(A) + Cardinality(B) - Cardinality({})
    BY <2>2, <2>4, FS_Union
  <2>6. /\ Cardinality({}) = 0 /\ Cardinality(A) \in Nat /\ Cardinality(B) \in Nat
    BY <2>4, FS_EmptySet, FS_CardinalityType
  <2>7. Cardinality(I) = Cardinality(A) + Cardinality(B)
    <3>1. Cardinality(I) = Cardinality(A) + Cardinality(B) - Cardinality({})
      BY <2>2, <2>5, Zenon
    <3> QED BY <2>6, <3>1
  <2>8. w.requests = Cardinality(I)
    BY <1>2, <2>1
  <2> QED BY <2>3, <2>7, <2>8
<1>9. ASSUME NEW c \in Customers
      PROVE  LET M == {l \in U : Cust[l] = c}
             IN  IF M = {} THEN c \notin DOMAIN P
                 ELSE /\ P[c].requests = Cardinality(M)
                      /\ P[c].failures = Cardinality({l \in M : Failed(l)})
  <2> DEFINE M == {l \in U : Cust[l] = c}
             F == {l \in M : Failed(l)}
             K == {Cust[t[i]] : i \in DOMAIN t}
  <2>1. DOMAIN P = K
    BY <1>2, <1>3
  <2>2. c \in K <=> M # {}
    BY <1>4
  <2>3. ASSUME c \in K
        PROVE  /\ P[c].requests = Cardinality({i \in DOMAIN t : Cust[t[i]] = c})
               /\ P[c].failures
                    = Cardinality({i \in DOMAIN t : Cust[t[i]] = c /\ Failed(t[i])})
    BY <1>2, <1>3, <2>3
  <2>4. /\ {i \in DOMAIN t : Cust[t[i]] = c} = {i \in 1..Len(t) : t[i] \in M}
        /\ {i \in DOMAIN t : Cust[t[i]] = c /\ Failed(t[i])}
              = {i \in 1..Len(t) : t[i] \in F}
    BY <1>4
  <2>5. U \cap M = M /\ U \cap F = F
    OBVIOUS
  <2> HIDE DEF M, F, K
  <2>6. /\ Cardinality({i \in 1..Len(t) : t[i] \in M}) = Cardinality(M)
        /\ Cardinality({i \in 1..Len(t) : t[i] \in F}) = Cardinality(F)
    BY <1>5, <2>5
  <2>7. CASE c \in K
    BY <2>2, <2>3, <2>4, <2>6, <2>7 DEF M, F
  <2>8. CASE c \notin K
    BY <2>1, <2>2, <2>8 DEF M
  <2> QED BY <2>7, <2>8
<1>10. ASSUME ~w.partial, More = {} PROVE \E l \in 1..now : now - l >= secs
  <2>1. ~(secs > Span)
    BY <1>2, <1>10
  <2>2. \A j \in 1..Len(taken) : taken[j] \in Nat
    <3>1. \A j \in 1..Len(taken) : taken[j] \in Lines
      OBVIOUS
    <3> QED BY <3>1, LogBounds DEF Lines
  <2>3. \A j \in 1..Len(taken) : taken[j] <= now
    <3>1. \A j \in 1..Len(taken) : taken[j] \in Range(taken)
      BY DEF Range
    <3> QED BY <1>10, <2>2, <3>1 DEF More
  <2> QED BY <1>1, <2>1, <2>3, CoverageReaches
<1> QED BY <1>7, <1>8, <1>9, <1>10 DEF w, U, P

\* What the report promises of a window w at its time, from its rows.
Exact(w, at, rs, secs) ==
    LET due  == {l \in 1..at : at - l <= secs}
        more == {l \in Range(rs) : l > at}
        mine(c) == {l \in due \cup more : Cust[l] = c}
    IN  /\ w.requests = Cardinality(due \cup more)
        /\ w.requests = w.successful + w.failures
        /\ \A c \in Customers :
              IF mine(c) = {} THEN c \notin DOMAIN w.per_customer
              ELSE /\ w.per_customer[c].requests = Cardinality(mine(c))
                   /\ w.per_customer[c].failures
                         = Cardinality({l \in mine(c) : Failed(l)})
        /\ ~w.partial /\ more = {} => \E l \in 1..at : at - l >= secs

\* It is what ExactWhenQuiet says of each window.
LEMMA ExactParts ==
    ExactWhenQuiet <=> (report # None /\ report.moves = 0 => \A secs \in Windows :
        Exact(report.windows[secs], report.at, report.rows, secs))
BY Zenon DEF ExactWhenQuiet, Exact

\* The report written keeps its promises.
LEMMA StepFinish ==
    ASSUME ReportInv, FinishReport PROVE ReportInv' /\ ExactWhenQuiet' /\ CopiesBounded'
<1>1. /\ ahead = <<>> /\ ahead # None /\ ahead' = None /\ UNCHANGED logVars
      /\ report' = [windows |-> [secs \in Windows |-> Summary(secs)],
                    rows |-> taken, at |-> now, moves |-> moves]
  BY NoneAssumption DEF FinishReport
<1>2. /\ report'.rows = taken /\ report'.at = now /\ report'.moves = moves
      /\ \A secs \in Windows : report'.windows[secs] = Summary(secs)
  BY <1>1
<1>3. ReportInv'
  <2>1. LogInv' /\ LinesKept'
    BY <1>1, StepLog, StepKept DEF ReportInv
  <2> QED BY <1>1, <2>1 DEF ReportInv
<1>4. WalkInv /\ QuietInv /\ \A l \in 1..now : /\ Copies(l) <= 1 + moves
                                               /\ moves = 0 => Copies(l) = 1
  BY <1>1, FinishedCopies DEF ReportInv
<1>5. taken \in Seq(Lines) /\ now \in Nat /\ DOMAIN taken = 1..Len(taken)
  BY <1>4 DEF WalkInv
<1>6. CopiesBounded'
  <2>1. \A l : Cardinality({i \in DOMAIN taken : taken[i] = l}) = Copies(l)
    BY <1>5 DEF Copies
  <2> SUFFICES ASSUME NEW l \in 1..now
               PROVE  LET c == Cardinality({i \in DOMAIN taken : taken[i] = l})
                      IN  c <= 1 + moves /\ (moves = 0 => c = 1)
    BY <1>2 DEF CopiesBounded, Count
  <2> QED BY <1>4, <2>1
<1>7. ExactWhenQuiet'
  <2>1. (ExactWhenQuiet <=> (report # None /\ report.moves = 0 => \A secs \in Windows :
            Exact(report.windows[secs], report.at, report.rows, secs)))'
    BY ExactParts, PTL
  <2> SUFFICES ASSUME moves = 0, NEW secs \in Windows
               PROVE  Exact(Summary(secs), now, taken, secs)
    BY <1>2, <2>1
  <2>2. \A j, k \in 1..Len(taken) : taken[j] = taken[k] => j = k
    BY <1>4 DEF QuietInv
  <2>3. \A l \in 1..now : \E j \in 1..Len(taken) : taken[j] = l
    <3> SUFFICES ASSUME NEW l \in 1..now, ~\E j \in 1..Len(taken) : taken[j] = l
                 PROVE  FALSE
      OBVIOUS
    <3>1. {j \in 1..Len(taken) : taken[j] = l} = {}
      OBVIOUS
    <3>2. Copies(l) = 0
      BY <3>1, FS_EmptySet DEF Copies
    <3> QED BY <1>4, <3>2
  <2> QED BY <1>5, <2>2, <2>3, SummaryExact DEF Exact, Due, More
<1> QED BY <1>3, <1>6, <1>7

-----------------------------------------------------------------------------
(* The theorems.                                                           *)

\* The invariant: ReportInv holds while a report is being made, and the two
\* promises of the report that was last written stay true.
Promises == ReportInv /\ ExactWhenQuiet /\ CopiesBounded

\* Nothing is reported at the start.
LEMMA InitPromises == ReportInit => Promises
<1> SUFFICES ASSUME ReportInit PROVE Promises
  OBVIOUS
<1>1. LogInv /\ LinesKept /\ ahead = None /\ report = None
  BY InitLog DEF ReportInit
<1> QED BY <1>1 DEF Promises, ReportInv, ExactWhenQuiet, CopiesBounded

\* Every step but Finish keeps the report there is.
LEMMA StepOthers ==
    ASSUME ReportInv, [ReportNext]_logAndReport, ~FinishReport
    PROVE  ReportInv' /\ UNCHANGED report
<1>1. CASE BeginReport
  BY <1>1, StepBegin DEF BeginReport
<1>2. CASE ReadNext
  BY <1>2, StepReadFile DEF ReadNext
<1>3. CASE Dies
  <2>1. ahead' = None /\ UNCHANGED logVars /\ UNCHANGED report
    BY <1>3 DEF Dies
  <2>2. LogInv' /\ LinesKept'
    BY <2>1, StepLog, StepKept DEF ReportInv
  <2> QED BY <2>1, <2>2 DEF ReportInv
<1>4. CASE (WriteLine \/ CompressEnd \/ Create \/ Reopen) /\ UNCHANGED reportVars
  <2>1. UNCHANGED <<ahead, now, taken, moves, report>>
    BY <1>4 DEF reportVars
  <2>2. LogInv' /\ LinesKept'
    BY <1>4, StepLog, StepKept DEF ReportInv, LogNext, Rotate
  <2>3. ahead # None => WalkInv' /\ CopyInv' /\ QuietInv'
    BY <1>4, <2>1, StepUnmoved
  <2> QED BY <2>1, <2>2, <2>3 DEF ReportInv
<1>5. CASE Renames /\ moves' = moves + 1 /\ UNCHANGED <<ahead, now, taken, report>>
  <2>1. LogInv' /\ LinesKept'
    BY <1>5, StepLog, StepKept DEF ReportInv, Renames, LogNext, Rotate
  <2>2. ahead # None => WalkInv' /\ CopyInv' /\ QuietInv'
    BY <1>5, StepMoved
  <2> QED BY <1>5, <2>1, <2>2 DEF ReportInv
<1>6. CASE UNCHANGED logAndReport
  <2>1. /\ UNCHANGED <<files, name, fd, written, rotations, rotating>>
        /\ UNCHANGED <<ahead, now, taken, moves, report>>
    BY <1>6 DEF logAndReport, logVars, reportVars
  <2>2. LogInv' /\ LinesKept'
    <3>1. UNCHANGED logVars
      BY <1>6 DEF logAndReport
    <3> QED BY <3>1, StepLog, StepKept DEF ReportInv
  <2>3. WalkInv' = WalkInv /\ CopyInv' = CopyInv /\ QuietInv' = QuietInv
    <3>1. WalkInv' = WalkInv
      BY <2>1 DEF WalkInv
    <3>2. /\ \A i : Pending(i)' = Pending(i)
          /\ \A l : Copies(l)' = Copies(l)
          /\ \A l, i : InFile(l, i)' = InFile(l, i)
          /\ Compressing' = Compressing
      BY <2>1 DEF Pending, Copies, InFile, Compressing
    <3>3. CopyInv' = CopyInv
      BY <2>1, <3>2 DEF CopyInv
    <3>4. QuietInv' = QuietInv
      BY <2>1, <3>2 DEF QuietInv
    <3> QED BY <3>1, <3>3, <3>4
  <2> QED BY <2>1, <2>2, <2>3 DEF ReportInv
<1> QED BY <1>1, <1>2, <1>3, <1>4, <1>5, <1>6 DEF ReportNext

\* No step breaks them.
LEMMA StepPromises == Promises /\ [ReportNext]_logAndReport => Promises'
<1> SUFFICES ASSUME Promises, [ReportNext]_logAndReport PROVE Promises'
  OBVIOUS
<1>1. CASE FinishReport
  BY <1>1, StepFinish DEF Promises
<1>2. CASE ~FinishReport
  <2>1. ReportInv' /\ report' = report
    BY <1>2, StepOthers DEF Promises
  <2>2. ExactWhenQuiet' = ExactWhenQuiet /\ CopiesBounded' = CopiesBounded
    BY <2>1 DEF ExactWhenQuiet, CopiesBounded, Count, Failed
  <2> QED BY <2>1, <2>2 DEF Promises
<1> QED BY <1>1, <1>2

\* Each window of a report that no rotation touched counts what was logged in
\* it exactly once, per customer and outcome (prod_stats.py:102-179).
THEOREM ExactWhenQuietCorrect == ReportSpec => []ExactWhenQuiet
<1>1. Promises => ExactWhenQuiet
  BY DEF Promises
<1> QED BY <1>1, InitPromises, StepPromises, PTL DEF ReportSpec

\* Otherwise a line is counted once more for each step that renamed a file at
\* most (prod_stats.py:64-92).
THEOREM CopiesBoundedCorrect == ReportSpec => []CopiesBounded
<1>1. Promises => CopiesBounded
  BY DEF Promises
<1> QED BY <1>1, InitPromises, StepPromises, PTL DEF ReportSpec
=============================================================================
