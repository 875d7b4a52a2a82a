--------------------------- MODULE UsageLogProofs ---------------------------
(***************************************************************************)
(* Lemmas about UsageLog that the proofs of its readers share, for any     *)
(* number of lines and rotations: induction over the naturals, what Select *)
(* returns, which inode every path of the log names at each step of a      *)
(* rotation, and how the lines are ordered within and across the files.    *)
(***************************************************************************)
EXTENDS UsageLog, FiniteSetTheorems, TLAPS

-----------------------------------------------------------------------------
(* Induction.  The library's induction theorems take the predicate as an   *)
(* operator; here it is a set, and its well-foundedness is that of the     *)
(* finite sets of naturals under strict inclusion.                         *)

\* A set of naturals that is not empty has a least element.
LEMMA Least ==
    ASSUME NEW T \in SUBSET Nat, T # {}
    PROVE  \E n \in T : \A m \in T : n <= m
<1> DEFINE R == StrictSubsetOrdering(Nat)
           I == {0..n : n \in T}
<1>1. IsWellFoundedOn(R, FiniteSubsetsOf(Nat))
  BY FS_StrictSubsetOrderingWellFounded
<1>2. I \subseteq FiniteSubsetsOf(Nat) /\ I # {}
  <2>1. ASSUME NEW n \in T PROVE 0..n \in FiniteSubsetsOf(Nat)
    <3>1. IsFiniteSet(0..n)
      BY FS_Interval
    <3> QED BY <3>1 DEF FiniteSubsetsOf
  <2> QED BY <2>1
<1>3. PICK J \in I : \A K \in I : ~(<<K, J>> \in R)
  <2> HIDE DEF R, I
  <2> QED BY <1>1, <1>2, WFMin
<1>4. PICK n \in T : J = 0..n
  OBVIOUS
<1>5. ASSUME NEW m \in T, m < n PROVE FALSE
  <2>1. 0..m \subseteq 0..n /\ 0..m # 0..n
    BY <1>5
  <2>2. <<0..m, 0..n>> \in R
    BY <2>1 DEF StrictSubsetOrdering
  <2> QED BY <1>3, <1>4, <2>2
<1> QED BY <1>5

\* A set of integers that is bounded has a greatest one.
LEMMA Greatest ==
    ASSUME NEW T \in SUBSET Int, T # {}, NEW b \in Int, \A x \in T : x <= b
    PROVE  \E n \in T : \A m \in T : n >= m
<1> DEFINE D == {b - x : x \in T}
<1>1. D \in SUBSET Nat /\ D # {}
  <2>1. ASSUME NEW x \in T PROVE b - x \in Nat
    <3>1. x \in Int /\ x <= b
      OBVIOUS
    <3> QED BY <3>1
  <2> QED BY <2>1
<1>2. PICK n \in D : \A m \in D : n <= m
  BY <1>1, Least
<1>3. PICK x \in T : n = b - x
  BY <1>2
<1>4. ASSUME NEW m \in T PROVE x >= m
  <2>1. b - m \in D
    OBVIOUS
  <2>2. b - x <= b - m
    BY <1>2, <1>3, <2>1
  <2>3. x \in Int /\ m \in Int /\ b \in Int
    OBVIOUS
  <2> HIDE DEF D
  <2> QED BY ONLY <2>2, <2>3
<1> QED BY <1>4

\* Induction: a set that has 0 and the successor of each natural it has.
LEMMA Induct ==
    ASSUME NEW S, 0 \in S, \A n \in Nat : n \in S => n + 1 \in S
    PROVE  \A n \in Nat : n \in S
<1> SUFFICES ASSUME NEW T, T = Nat \ S, T # {} PROVE FALSE
  OBVIOUS
<1>1. PICK n \in T : \A m \in T : n <= m
  BY Least
<1>2. n - 1 \in Nat /\ n - 1 \notin T
  BY <1>1
<1> QED BY <1>1, <1>2

-----------------------------------------------------------------------------
(* Select.                                                                 *)

\* Select's recursion, up to n.
OneMore(t, s, S, i) == IF s[i] \in S THEN Append(t, s[i]) ELSE t
Kept(g, s, S, n) == [i \in 0..n |-> IF i = 0 THEN <<>> ELSE OneMore(g[i - 1], s, S, i)]

\* t lists the first n entries of s that are in S; f says where each is from.
Picks(t, s, S, n) ==
    \E f \in [1..Len(t) -> 1..n] :
        /\ \A i, j \in 1..Len(t) : i < j => f[i] < f[j]
        /\ \A i \in 1..Len(t) : t[i] = s[f[i]]
        /\ \A j \in 1..n : s[j] \in S => \E i \in 1..Len(t) : f[i] = j
        /\ \A i \in 1..Len(t) : t[i] \in S

\* One more entry of s, kept or not.
LEMMA PickNext ==
    ASSUME NEW X, NEW s \in Seq(X), NEW S, NEW n \in 1..Len(s),
           NEW t \in Seq(X), Picks(t, s, S, n - 1)
    PROVE  /\ OneMore(t, s, S, n) \in Seq(X)
           /\ Picks(OneMore(t, s, S, n), s, S, n)
<1>1. n \in Nat /\ Len(t) \in Nat /\ s[n] \in X /\ n - 1 \in Nat
  OBVIOUS
<1>2. PICK f \in [1..Len(t) -> 1..(n - 1)] :
        /\ \A i, j \in 1..Len(t) : i < j => f[i] < f[j]
        /\ \A i \in 1..Len(t) : t[i] = s[f[i]]
        /\ \A j \in 1..(n - 1) : s[j] \in S => \E i \in 1..Len(t) : f[i] = j
        /\ \A i \in 1..Len(t) : t[i] \in S
  BY DEF Picks
<1>3. \A i \in 1..Len(t) : f[i] \in 1..n /\ f[i] < n
  BY <1>1, <1>2
<1>4. CASE s[n] \notin S
  <2>1. f \in [1..Len(t) -> 1..n]
    BY <1>2, <1>3
  <2>2. \A j \in 1..n : s[j] \in S => \E i \in 1..Len(t) : f[i] = j
    BY <1>1, <1>2, <1>4
  <2>3. Picks(t, s, S, n)
    BY <1>2, <2>1, <2>2 DEF Picks
  <2> QED BY <1>4, <2>3 DEF OneMore
<1>5. CASE s[n] \in S
  <2> DEFINE u == Append(t, s[n])
             m == Len(t) + 1
             g == [i \in 1..m |-> IF i = m THEN n ELSE f[i]]
  <2>1. /\ u \in Seq(X) /\ Len(u) = m /\ u[m] = s[n] /\ m \in Nat
        /\ \A i \in 1..Len(t) : u[i] = t[i]
        /\ \A i \in 1..m : i = m \/ i \in 1..Len(t)
        /\ m \in 1..m
    BY <1>1
  <2> HIDE DEF u, m
  <2>2. g \in [1..m -> 1..n]
    BY <1>1, <1>3, <2>1
  <2>3. \A i, j \in 1..m : i < j => g[i] < g[j]
    <3> SUFFICES ASSUME NEW i \in 1..m, NEW j \in 1..m, i < j PROVE g[i] < g[j]
      OBVIOUS
    <3>1. i \in 1..Len(t)
      BY <2>1
    <3>2. CASE j = m
      BY <1>3, <3>1, <3>2, <2>1
    <3>3. CASE j \in 1..Len(t)
      BY <1>2, <3>1, <3>3, <2>1 DEF m
    <3> QED BY <2>1, <3>2, <3>3
  <2>4. \A i \in 1..m : u[i] = s[g[i]] /\ u[i] \in S
    BY <1>2, <1>5, <2>1
  <2>5. \A j \in 1..n : s[j] \in S => \E i \in 1..m : g[i] = j
    <3> SUFFICES ASSUME NEW j \in 1..n, s[j] \in S PROVE \E i \in 1..m : g[i] = j
      OBVIOUS
    <3>1. CASE j = n
      BY <2>1, <3>1
    <3>2. CASE j # n
      <4>1. PICK i \in 1..Len(t) : f[i] = j
        BY <1>1, <1>2, <3>2
      <4>2. i \in 1..m /\ i # m
        BY <1>1, <4>1 DEF m
      <4> QED BY <4>1, <4>2
    <3> QED BY <3>1, <3>2
  <2> HIDE DEF g
  <2>6. Picks(u, s, S, n)
    BY <2>1, <2>2, <2>3, <2>4, <2>5 DEF Picks
  <2> QED BY <1>5, <2>1, <2>6 DEF u, OneMore
<1> QED BY <1>4, <1>5

\* The recursion has a solution.
LEMMA KeptExists ==
    ASSUME NEW s, NEW S, NEW n \in Nat
    PROVE  \E g : g = Kept(g, s, S, n)
<1> DEFINE Solved == {k \in Nat : \E g : g = Kept(g, s, S, k)}
<1>1. 0 \in Solved
  <2> DEFINE g == [i \in 0..0 |-> <<>>]
  <2>1. g = Kept(g, s, S, 0)
    BY DEF Kept
  <2> QED BY <2>1
<1>2. ASSUME NEW k \in Nat, k \in Solved PROVE k + 1 \in Solved
  <2>1. PICK g : g = Kept(g, s, S, k)
    BY <1>2
  <2> DEFINE h == [i \in 0..(k + 1) |->
                     IF i = k + 1 THEN OneMore(g[k], s, S, k + 1) ELSE g[i]]
  <2>2. \A i \in 0..k : g[i] = IF i = 0 THEN <<>> ELSE OneMore(g[i - 1], s, S, i)
    BY <2>1 DEF Kept
  <2>3. \A i \in 0..k : h[i] = g[i]
    OBVIOUS
  <2>4. ASSUME NEW i \in 0..(k + 1)
        PROVE  h[i] = IF i = 0 THEN <<>> ELSE OneMore(h[i - 1], s, S, i)
    <3>1. CASE i = k + 1
      BY <2>3, <3>1
    <3>2. CASE i # k + 1
      <4>1. i \in 0..k /\ (i # 0 => i - 1 \in 0..k)
        BY <3>2
      <4> QED BY <2>2, <2>3, <4>1
    <3> QED BY <3>1, <3>2
  <2>5. h = [i \in 0..(k + 1) |-> h[i]]
    OBVIOUS
  <2> HIDE DEF h
  <2>6. h = Kept(h, s, S, k + 1)
    BY <2>4, <2>5 DEF Kept
  <2> QED BY <2>6
<1> HIDE DEF Solved
<1>3. n \in Solved
  BY <1>1, <1>2, Induct
<1> QED BY <1>3 DEF Solved

\* Select returns a sequence over the same set: the entries in S, each once
\* and in their order.
LEMMA SelectPicks ==
    ASSUME NEW X, NEW s \in Seq(X), NEW S
    PROVE  Select(s, S) \in Seq(X) /\ Picks(Select(s, S), s, S, Len(s))
<1> DEFINE kept == CHOOSE g : g = Kept(g, s, S, Len(s))
<1>1. Len(s) \in Nat
  OBVIOUS
<1>2. kept = Kept(kept, s, S, Len(s))
  BY <1>1, KeptExists
<1>3. Select(s, S) = kept[Len(s)]
  BY DEF Select, Kept, OneMore
<1> HIDE DEF kept
<1>4. /\ kept[0] = <<>>
      /\ \A i \in 1..Len(s) : kept[i] = OneMore(kept[i - 1], s, S, i)
  <2>1. \A i \in 0..Len(s) :
          kept[i] = IF i = 0 THEN <<>> ELSE OneMore(kept[i - 1], s, S, i)
    BY <1>2 DEF Kept
  <2> QED BY <1>1, <2>1
<1> DEFINE Good == {k \in Nat : k <= Len(s) => /\ kept[k] \in Seq(X)
                                               /\ Picks(kept[k], s, S, k)}
<1>5. 0 \in Good
  <2>1. <<>> \in Seq(X) /\ Len(<<>>) = 0
    OBVIOUS
  <2>2. Picks(<<>>, s, S, 0)
    <3> DEFINE f == [i \in 1..0 |-> 0]
    <3>1. f \in [1..0 -> 1..0] /\ 1..0 = {}
      OBVIOUS
    <3> QED BY <2>1, <3>1 DEF Picks
  <2> QED BY <1>4, <2>1, <2>2
<1>6. ASSUME NEW k \in Nat, k \in Good PROVE k + 1 \in Good
  <2>1. CASE k + 1 <= Len(s)
    <3> DEFINE n == k + 1
    <3>1. n \in 1..Len(s) /\ n - 1 = k /\ n \in Nat
      BY <1>1, <2>1
    <3>2. kept[k] \in Seq(X) /\ Picks(kept[k], s, S, k)
      BY <1>1, <1>6, <2>1
    <3> HIDE DEF n
    <3>3. kept[n] = OneMore(kept[k], s, S, n)
      BY <1>4, <3>1
    <3>4. Picks(kept[k], s, S, n - 1)
      BY <3>1, <3>2
    <3>5. kept[n] \in Seq(X) /\ Picks(kept[n], s, S, n)
      BY <3>1, <3>2, <3>3, <3>4, PickNext
    <3> QED BY <3>1, <3>5 DEF n
  <2> QED BY <1>1, <2>1
<1>7. Len(s) \in Good
  BY <1>1, <1>5, <1>6, Induct
<1> QED BY <1>1, <1>3, <1>7

\* The same, without the positions.
LEMMA SelectFacts ==
    ASSUME NEW X, NEW s \in Seq(X), NEW S
    PROVE  LET t == Select(s, S)
           IN  /\ t \in Seq(X) /\ Len(t) \in Nat
               /\ \A i \in 1..Len(t) : t[i] \in S /\ \E j \in 1..Len(s) : s[j] = t[i]
               /\ \A j \in 1..Len(s) : s[j] \in S => \E i \in 1..Len(t) : t[i] = s[j]
BY SelectPicks DEF Picks

\* A sequence of numbers in order, each once.
Increasing(s) == \A i, j \in 1..Len(s) : i < j => s[i] < s[j]
Decreasing(s) == \A i, j \in 1..Len(s) : i < j => s[i] > s[j]

\* What is selected from it is in order too.
LEMMA SelectOrder ==
    ASSUME NEW X, NEW s \in Seq(X), NEW S
    PROVE  /\ Increasing(s) => Increasing(Select(s, S))
           /\ Decreasing(s) => Decreasing(Select(s, S))
<1> DEFINE t == Select(s, S)
<1>1. PICK f \in [1..Len(t) -> 1..Len(s)] :
        /\ \A i, j \in 1..Len(t) : i < j => f[i] < f[j]
        /\ \A i \in 1..Len(t) : t[i] = s[f[i]]
  BY SelectPicks DEF Picks
<1> HIDE DEF t
<1>2. Increasing(s) => Increasing(t)
  BY <1>1 DEF Increasing
<1>3. Decreasing(s) => Decreasing(t)
  BY <1>1 DEF Decreasing
<1> QED BY <1>2, <1>3 DEF t

-----------------------------------------------------------------------------
(* The paths.  Which inode a path names is a function of how far the       *)
(* rotation is and of how many there have been: a compressed file's suffix *)
(* is its age, except that nothing has suffix 2 outside a compression.     *)

Compressing == rotating \in {"compressing", "compressed"}

\* The newest inode there is: a rotation creates its own near its end.
Newest == IF rotating \in {"no", "created"} THEN rotations ELSE rotations - 1

Aged(i) == IF i >= 0 THEN i ELSE None

Named(k) ==
    CASE k = 0 -> IF rotating = "renamed" THEN None ELSE Newest
      [] k = 1 -> IF Compressing THEN rotations - 2
                  ELSE IF rotating = "shifted" THEN None ELSE Aged(rotations - 1)
      [] k = 2 -> IF Compressing THEN rotations - 2 ELSE None
      [] OTHER -> IF Compressing THEN Aged(rotations - k) ELSE Aged(rotations + 1 - k)

NamesInv ==
    /\ name = [k \in Paths |-> Named(k)]
    /\ rotating # "no" => rotations >= 1
    /\ Compressing => rotations >= 2

(* The lines.  Each file is in the order the lines were written, and so are *)
(* the files: nginx never writes to an older file than it has written to.   *)
LinesInv ==
    /\ \A i \in Inodes : /\ Increasing(files[i]) /\ Len(files[i]) <= written
                         /\ \A a \in 1..Len(files[i]) : files[i][a] <= written
    /\ \A i, j \in Inodes : i < j =>
           \A a \in 1..Len(files[i]), b \in 1..Len(files[j]) : files[i][a] < files[j][b]
    /\ fd <= Newest
    /\ \A i \in Inodes : i > fd => files[i] = <<>>

LogInv == LogTypeOK /\ NamesInv /\ LinesInv

\* No line is lost while nobody truncates a file.
LinesKept ==
    \A l \in 1..written : \E i \in 0..fd : \E a \in 1..Len(files[i]) : files[i][a] = l

\* An empty log is one.
LEMMA InitLog == LogInit => LogInv /\ LinesKept
<1> SUFFICES ASSUME LogInit PROVE LogInv /\ LinesKept
  OBVIOUS
<1> USE LogBounds, NoneAssumption
<1>1. LogTypeOK
  BY DEF LogInit, LogTypeOK, Inodes, Paths, Lines
<1>2. NamesInv
  BY DEF LogInit, NamesInv, Named, Newest, Aged, Compressing, Paths
<1>3. LinesInv
  BY DEF LogInit, LinesInv, Increasing, Newest, Inodes
<1>4. LinesKept
  BY DEF LogInit, LinesKept
<1> QED BY <1>1, <1>2, <1>3, <1>4 DEF LogInv

\* What the names say, in numbers.
LEMMA NameFacts ==
    ASSUME LogInv
    PROVE  /\ rotations \in Nat /\ rotations <= MaxRotations /\ MaxRotations \in Nat
           /\ None \notin Nat /\ 0 \in Paths /\ Paths \subseteq Nat
           /\ DOMAIN name = Paths
           /\ name[0] = IF rotating = "renamed" THEN None ELSE Newest
           /\ rotations >= 1 => 1 \in Paths /\ 2 \in Paths
           /\ Newest \in Inodes
BY LogBounds, NoneAssumption
   DEF LogInv, LogTypeOK, NamesInv, Named, Newest, Paths, Inodes, Compressing

\* A rotation's steps follow the naming.
LEMMA StepNames == LogInv /\ LogNext => NamesInv'
<1> SUFFICES ASSUME LogInv, LogNext PROVE NamesInv'
  OBVIOUS
<1>1. /\ rotations \in Nat /\ rotations <= MaxRotations /\ MaxRotations \in Nat
      /\ None \notin Nat /\ 0 \in Paths /\ Paths \subseteq Nat /\ DOMAIN name = Paths
      /\ name[0] = IF rotating = "renamed" THEN None ELSE Newest
      /\ rotations >= 1 => 1 \in Paths /\ 2 \in Paths
  BY NameFacts
<1>2. /\ name = [k \in Paths |-> Named(k)]
      /\ rotating # "no" => rotations >= 1
      /\ Compressing => rotations >= 2
  BY DEF LogInv, NamesInv
<1>3. ASSUME /\ rotating' # "no" => rotations' >= 1
             /\ Compressing' => rotations' >= 2
             /\ name' = [k \in Paths |-> name'[k]]
             /\ \A k \in Paths : name'[k] = Named(k)'
      PROVE  NamesInv'
  BY <1>3 DEF NamesInv
<1>4. ASSUME UNCHANGED <<name, rotations>>, rotating' # "no" => rotations >= 1,
             Compressing' => rotations >= 2, \A k \in Paths : Named(k)' = Named(k)
      PROVE  NamesInv'
  BY <1>2, <1>4 DEF NamesInv
<1> USE DEF Named, Newest, Aged, Compressing
<1>5. CASE WriteLine
  <2>1. UNCHANGED <<name, rotations, rotating>>
    BY <1>5 DEF WriteLine
  <2> QED BY <1>2, <1>4, <2>1
<1>6. CASE BeginRotation
  <2>1. /\ rotating = "no" /\ rotations < MaxRotations /\ rotations' = rotations + 1
        /\ name[1] = Aged(rotations - 1)
        /\ (name[1] = None) <=> (rotations = 0)
    BY <1>1, <1>2, <1>6 DEF BeginRotation, Paths
  <2>2. CASE name[1] = None
    <3>1. name' = name /\ rotating' = "shifted" /\ rotations = 0
      BY <1>6, <2>1, <2>2 DEF BeginRotation
    <3>2. ASSUME NEW k \in Paths PROVE name[k] = Named(k)'
      <4>1. k \in Nat /\ name[k] = Named(k)
        BY <1>1, <1>2
      <4>2. rotating = "no" /\ rotations = 0 /\ rotating' = "shifted" /\ rotations' = 1
        BY <2>1, <3>1
      <4>3. CASE k = 0
        BY <4>1, <4>2, <4>3
      <4>4. CASE k = 1
        BY <4>1, <4>2, <4>4
      <4>5. CASE k >= 2
        BY <4>1, <4>2, <4>5
      <4> QED BY <4>1, <4>3, <4>4, <4>5
    <3> QED BY <1>2, <1>3, <2>1, <3>1, <3>2
  <2>3. CASE name[1] # None
    <3>1. /\ name' = [name EXCEPT ![2] = name[1]] /\ rotating' = "compressing"
          /\ rotations >= 1 /\ 2 \in Paths /\ name[1] = rotations - 1
      BY <1>1, <1>6, <2>1, <2>3 DEF BeginRotation
    <3>2. \A k \in Paths : k # 2 => name'[k] = name[k]
      BY <1>1, <3>1
    <3>3. name'[2] = rotations' - 2
      BY <1>1, <2>1, <3>1
    <3>4. ASSUME NEW k \in Paths PROVE name'[k] = Named(k)'
      <4>1. CASE k = 2
        BY <2>1, <3>1, <3>3, <4>1
      <4>2. CASE k \in {0, 1}
        BY <1>1, <1>2, <2>1, <3>1, <3>2, <4>2
      <4>3. CASE k \notin {0, 1, 2}
        BY <1>1, <1>2, <2>1, <3>1, <3>2, <4>3
      <4> QED BY <4>1, <4>2, <4>3
    <3>5. name' = [k \in Paths |-> name'[k]]
      BY <1>1, <1>2, <3>1
    <3> QED BY <1>1, <1>3, <2>1, <3>1, <3>4, <3>5
  <2> QED BY <2>2, <2>3
<1>7. CASE CompressEnd
  <2>1. UNCHANGED <<name, rotations>> /\ Compressing /\ Compressing'
    BY <1>7 DEF CompressEnd
  <2>2. \A k \in Paths : Named(k)' = Named(k)
    BY <1>7, <2>1 DEF CompressEnd
  <2> QED BY <1>2, <1>4, <1>7, <2>1, <2>2 DEF CompressEnd
<1>8. CASE Shift
  <2>1. /\ rotating = "compressed" /\ rotating' = "shifted" /\ rotations' = rotations
        /\ rotations >= 2
        /\ name' = [k \in Paths |-> IF k = 0 THEN name[0]
                                   ELSE IF k \in {1, 2} THEN None ELSE name[k - 1]]
    BY <1>2, <1>8 DEF Shift
  <2>2. ASSUME NEW k \in Paths PROVE name'[k] = Named(k)'
    <3>1. CASE k \in {0, 1, 2}
      BY <1>1, <1>2, <2>1, <3>1
    <3>2. CASE k \notin {0, 1, 2}
      <4>1. k - 1 \in Paths /\ name'[k] = name[k - 1] /\ k >= 3
        BY <1>1, <2>1, <3>2 DEF Paths
      <4>2. CASE k = 3
        BY <1>1, <1>2, <2>1, <4>1, <4>2
      <4>3. CASE k > 3
        BY <1>1, <1>2, <2>1, <4>1, <4>3
      <4> QED BY <1>1, <4>1, <4>2, <4>3
    <3> QED BY <3>1, <3>2
  <2>3. name' = [k \in Paths |-> name'[k]]
    BY <2>1
  <2> QED BY <1>1, <1>2, <1>3, <2>1, <2>2, <2>3
<1>9. CASE Rename
  <2>1. /\ name' = [name EXCEPT ![0] = None, ![1] = name[0]] /\ rotating = "shifted"
        /\ rotating' = "renamed" /\ rotations' = rotations /\ rotations >= 1
        /\ 1 \in Paths /\ name[0] = rotations - 1
    BY <1>1, <1>2, <1>9 DEF Rename
  <2>2. /\ name'[0] = None /\ name'[1] = rotations - 1
        /\ \A k \in Paths : k \notin {0, 1} => name'[k] = name[k]
    BY <1>1, <2>1
  <2>3. ASSUME NEW k \in Paths PROVE name'[k] = Named(k)'
    <3>1. CASE k \in {0, 1}
      BY <1>1, <2>1, <2>2, <3>1
    <3>2. CASE k \notin {0, 1}
      BY <1>1, <1>2, <2>1, <2>2, <3>2
    <3> QED BY <3>1, <3>2
  <2>4. name' = [k \in Paths |-> name'[k]]
    BY <1>1, <1>2, <2>1
  <2> QED BY <1>1, <1>3, <2>1, <2>3, <2>4
<1>10. CASE Create
  <2>1. /\ name' = [name EXCEPT ![0] = rotations] /\ rotating = "renamed"
        /\ rotating' = "created" /\ rotations' = rotations /\ rotations >= 1
    BY <1>2, <1>10 DEF Create
  <2>2. name'[0] = rotations /\ \A k \in Paths : k # 0 => name'[k] = name[k]
    BY <1>1, <2>1
  <2>3. ASSUME NEW k \in Paths PROVE name'[k] = Named(k)'
    BY <1>1, <1>2, <2>1, <2>2
  <2>4. name' = [k \in Paths |-> name'[k]]
    BY <1>1, <1>2, <2>1
  <2> QED BY <1>1, <1>3, <2>1, <2>3, <2>4
<1>11. CASE Reopen
  <2>1. UNCHANGED <<name, rotations>> /\ rotating = "created" /\ rotating' = "no"
    BY <1>11 DEF Reopen
  <2>2. \A k \in Paths : Named(k)' = Named(k)
    BY <2>1
  <2> QED BY <1>2, <1>4, <2>1, <2>2
<1> QED BY <1>5, <1>6, <1>7, <1>8, <1>9, <1>10, <1>11 DEF LogNext, Rotate

\* A request's line goes after all others, in its file and across the files.
LEMMA StepWrite == LogInv /\ WriteLine => LogInv'
<1> SUFFICES ASSUME LogInv, WriteLine PROVE LogInv'
  OBVIOUS
<1> DEFINE l == written + 1
<1>1. /\ files \in [Inodes -> Seq(Lines)] /\ fd \in Inodes /\ written \in Nat
      /\ l \in Lines /\ l \in Nat /\ l > written
  BY LogBounds DEF LogInv, LogTypeOK, WriteLine, Lines
<1>2. /\ files' = [files EXCEPT ![fd] = Append(files[fd], l)] /\ written' = l
      /\ UNCHANGED <<name, fd, rotations, rotating>>
  BY DEF WriteLine
<1>3. Inodes \subseteq Nat
  BY DEF Inodes
<1> HIDE DEF l
<1>4. ASSUME NEW i \in Inodes
      PROVE  /\ files[i] \in Seq(Lines) /\ Len(files[i]) \in Nat
             /\ \A a \in 1..Len(files[i]) : files[i][a] \in Nat
  BY <1>1, LogBounds DEF Lines
<1>5. /\ files'[fd] \in Seq(Lines) /\ Len(files'[fd]) = Len(files[fd]) + 1
      /\ files'[fd][Len(files[fd]) + 1] = l
      /\ \A a \in 1..Len(files[fd]) : files'[fd][a] = files[fd][a]
      /\ \A a \in 1..Len(files'[fd]) : a \in 1..Len(files[fd]) \/ a = Len(files[fd]) + 1
  BY <1>1, <1>2, <1>4
<1>6. \A i \in Inodes : i # fd => files'[i] = files[i]
  BY <1>1, <1>2
<1>7. files' \in [Inodes -> Seq(Lines)]
  BY <1>1, <1>2, <1>5
<1>8. LogTypeOK'
  BY <1>1, <1>2, <1>7 DEF LogInv, LogTypeOK, Lines, l
<1>9. NamesInv'
  BY StepNames DEF LogNext
<1>10. ASSUME NEW i \in Inodes
       PROVE  /\ Increasing(files[i]) /\ Len(files[i]) <= written
              /\ \A a \in 1..Len(files[i]) : files[i][a] <= written
  BY DEF LogInv, LinesInv
<1>11. ASSUME NEW i \in Inodes
       PROVE  /\ Increasing(files'[i]) /\ Len(files'[i]) <= l
              /\ \A a \in 1..Len(files'[i]) : files'[i][a] <= l
  <2>1. CASE i # fd
    BY <1>1, <1>4, <1>6, <1>10, <2>1
  <2>2. CASE i = fd
    <3>1. \A a \in 1..Len(files[fd]) : files[fd][a] < l /\ files[fd][a] \in Nat
      BY <1>1, <1>4, <1>10
    <3>2. Len(files'[fd]) <= l
      BY <1>1, <1>4, <1>5, <1>10 DEF l
    <3>3. \A a \in 1..Len(files'[fd]) : files'[fd][a] <= l
      BY <1>1, <1>5, <3>1
    <3>4. Increasing(files'[fd])
      <4> SUFFICES ASSUME NEW a \in 1..Len(files'[fd]), NEW b \in 1..Len(files'[fd]), a < b
                   PROVE  files'[fd][a] < files'[fd][b]
        BY DEF Increasing
      <4>1. a \in 1..Len(files[fd])
        BY <1>4, <1>5
      <4>2. CASE b \in 1..Len(files[fd])
        BY <1>1, <1>5, <1>10, <4>1, <4>2 DEF Increasing
      <4>3. CASE b = Len(files[fd]) + 1
        BY <1>5, <3>1, <4>1, <4>3
      <4> QED BY <1>5, <4>2, <4>3
    <3> QED BY <2>2, <3>2, <3>3, <3>4
  <2> QED BY <2>1, <2>2
<1>12. ASSUME NEW i \in Inodes, NEW j \in Inodes, i < j,
              NEW a \in 1..Len(files'[i]), NEW b \in 1..Len(files'[j])
       PROVE  files'[i][a] < files'[j][b]
  <2>1. j > fd => files[j] = <<>>
    BY DEF LogInv, LinesInv
  <2>2. j <= fd
    <3> SUFFICES ASSUME j > fd PROVE FALSE
      BY <1>1, <1>3
    <3>1. files'[j] = <<>>
      BY <1>1, <1>3, <1>6, <2>1
    <3> QED BY <3>1
  <2>3. i # fd /\ files'[i] = files[i]
    BY <1>1, <1>3, <1>6, <1>12, <2>2
  <2>4. \A c \in 1..Len(files[j]) : files[i][a] < files[j][c]
    BY <1>12, <2>3 DEF LogInv, LinesInv
  <2>5. CASE j # fd
    BY <1>6, <2>3, <2>4, <2>5
  <2>6. CASE j = fd
    <3>1. files[i][a] <= written /\ files[i][a] \in Nat
      BY <1>4, <1>10, <2>3
    <3>2. CASE b \in 1..Len(files[fd])
      BY <1>5, <2>3, <2>4, <2>6, <3>2
    <3>3. CASE b = Len(files[fd]) + 1
      BY <1>1, <1>5, <2>3, <2>6, <3>1, <3>3
    <3> QED BY <1>5, <2>6, <3>2, <3>3
  <2> QED BY <2>5, <2>6
<1>13. fd' <= Newest' /\ \A i \in Inodes : i > fd' => files'[i] = <<>>
  BY <1>1, <1>2, <1>3, <1>6 DEF LogInv, LinesInv, Newest
<1>14. LinesInv'
  BY <1>2, <1>11, <1>12, <1>13 DEF LinesInv
<1> QED BY <1>8, <1>9, <1>14 DEF LogInv

\* logrotate moves files about and writes nothing; nginx follows it, or not.
LEMMA StepRotate == LogInv /\ Rotate => LogInv'
<1> SUFFICES ASSUME LogInv, Rotate PROVE LogInv'
  OBVIOUS
<1>1. NamesInv'
  BY StepNames DEF LogNext
<1>2. /\ rotations \in Nat /\ rotations <= MaxRotations /\ MaxRotations \in Nat
      /\ name[0] = IF rotating = "renamed" THEN None ELSE Newest
      /\ rotating # "no" => rotations >= 1
      /\ fd \in Inodes /\ fd <= Newest
      /\ None \notin Nat /\ Newest \in Inodes
  BY NameFacts DEF LogInv, NamesInv, LogTypeOK, LinesInv
<1>3. /\ UNCHANGED <<files, written>> /\ rotations' \in 0..MaxRotations
      /\ rotating' \in {"no", "compressing", "compressed", "shifted", "renamed", "created"}
  BY <1>2 DEF Rotate, BeginRotation, CompressEnd, Shift, Rename, Create, Reopen
<1>4. /\ fd' \in Inodes /\ fd' <= Newest' /\ fd <= fd'
  <2>1. CASE Reopen
    BY <1>2, <2>1 DEF Reopen, Newest, Inodes
  <2>2. CASE ~Reopen
    <3>1. fd' = fd
      BY <2>2 DEF Rotate, BeginRotation, CompressEnd, Shift, Rename, Create
    <3>2. Newest <= Newest'
      BY <1>2, <2>2 DEF Rotate, BeginRotation, CompressEnd, Shift, Rename, Create, Newest
    <3>3. Newest \in Nat /\ Newest' \in Int /\ fd \in Nat
      BY <1>2, <1>3 DEF Newest, Inodes
    <3> QED BY <1>2, <3>1, <3>2, <3>3
  <2> QED BY <2>1, <2>2
<1>5. name' \in [Paths -> Inodes \cup {None}]
  <2>1. ASSUME NEW k \in Paths PROVE Named(k)' \in Inodes \cup {None}
    <3>1. rotating' # "no" => rotations' >= 1
      BY <1>1 DEF NamesInv
    <3>2. Compressing' => rotations' >= 2
      BY <1>1 DEF NamesInv
    <3> QED BY <1>2, <1>3, <3>1, <3>2 DEF Named, Newest, Aged, Inodes, Paths, Compressing
  <2> QED BY <1>1, <2>1 DEF NamesInv
<1>6. LogTypeOK'
  BY <1>3, <1>4, <1>5 DEF LogInv, LogTypeOK
<1>7. Inodes \subseteq Nat
  BY DEF Inodes
<1>8. LinesInv'
  <2>1. /\ \A i \in Inodes : /\ Increasing(files[i]) /\ Len(files[i]) <= written
                             /\ \A a \in 1..Len(files[i]) : files[i][a] <= written
        /\ \A i, j \in Inodes : i < j =>
               \A a \in 1..Len(files[i]), b \in 1..Len(files[j]) : files[i][a] < files[j][b]
        /\ \A i \in Inodes : i > fd => files[i] = <<>>
    BY DEF LogInv, LinesInv
  <2>2. \A i \in Inodes : i > fd' => i > fd
    <3>1. fd \in Nat /\ fd' \in Nat
      BY <1>2, <1>4, <1>7
    <3> QED BY <1>4, <1>7, <3>1
  <2>3. \A i \in Inodes : i > fd' => files[i] = <<>>
    BY <2>1, <2>2
  <2>4. files' = files /\ written' = written /\ fd' <= Newest'
    BY <1>3, <1>4
  <2> QED BY ONLY <2>1, <2>3, <2>4 DEF LinesInv, Increasing
<1> QED BY <1>1, <1>6, <1>8 DEF LogInv

\* The log's invariant holds after every step of the log.
LEMMA StepLog == LogInv /\ (LogNext \/ UNCHANGED logVars) => LogInv'
<1>1. LogInv /\ UNCHANGED logVars => LogInv'
  BY DEF logVars, LogInv, LogTypeOK, NamesInv, Named, Newest, Aged, Compressing,
         LinesInv, Increasing
<1> QED BY <1>1, StepWrite, StepRotate DEF LogNext

\* Nor does emptying a file in place disturb the order.
LEMMA StepEmpty ==
    ASSUME LogInv, NEW i \in Inodes, files' = [files EXCEPT ![i] = <<>>],
           UNCHANGED <<name, fd, written, rotations, rotating>>
    PROVE  LogInv'
<1>1. /\ files \in [Inodes -> Seq(Lines)] /\ written \in Nat
      /\ files' \in [Inodes -> Seq(Lines)]
  BY LogBounds DEF LogInv, LogTypeOK
<1>2. files'[i] = <<>> /\ Len(files'[i]) = 0 /\ \A j \in Inodes : j # i => files'[j] = files[j]
  BY <1>1
<1>3. LogTypeOK'
  BY <1>1 DEF LogInv, LogTypeOK
<1>4. NamesInv'
  BY DEF LogInv, NamesInv, Named, Newest, Aged, Compressing
<1>5. LinesInv'
  BY <1>1, <1>2 DEF LogInv, LinesInv, Increasing, Newest
<1> QED BY <1>3, <1>4, <1>5 DEF LogInv

\* No step of the log loses a line.
LEMMA StepKept == LogInv /\ LinesKept /\ (LogNext \/ UNCHANGED logVars) => LinesKept'
<1> SUFFICES ASSUME LogInv, LinesKept, LogNext \/ UNCHANGED logVars PROVE LinesKept'
  OBVIOUS
<1>1. /\ files \in [Inodes -> Seq(Lines)] /\ fd \in Inodes /\ written \in Nat
      /\ fd \in Nat /\ 0..fd \subseteq Inodes /\ LogInv'
  BY StepLog, LogBounds DEF LogInv, LogTypeOK, Inodes
<1>2. CASE WriteLine
  <2>1. /\ files' = [files EXCEPT ![fd] = Append(files[fd], written + 1)]
        /\ written' = written + 1 /\ fd' = fd /\ written + 1 \in Lines
    BY <1>1, <1>2, LogBounds DEF WriteLine, Lines
  <2>2. /\ Len(files[fd]) \in Nat /\ Len(files'[fd]) = Len(files[fd]) + 1
        /\ files'[fd][Len(files[fd]) + 1] = written + 1
        /\ \A a \in 1..Len(files[fd]) : files'[fd][a] = files[fd][a]
        /\ \A i \in Inodes : i # fd => files'[i] = files[i]
    BY <1>1, <2>1
  <2> SUFFICES ASSUME NEW l \in 1..(written + 1)
               PROVE  \E i \in 0..fd : \E a \in 1..Len(files'[i]) : files'[i][a] = l
    BY <2>1 DEF LinesKept
  <2>3. CASE l = written + 1
    <3>1. fd \in 0..fd /\ Len(files[fd]) + 1 \in 1..Len(files'[fd])
      BY <1>1, <2>2
    <3> QED BY <2>2, <2>3, <3>1
  <2>4. CASE l \in 1..written
    <3>1. PICK i \in 0..fd : \E a \in 1..Len(files[i]) : files[i][a] = l
      BY <2>4 DEF LinesKept
    <3>2. PICK a \in 1..Len(files[i]) : files[i][a] = l
      BY <3>1
    <3>3. a \in 1..Len(files'[i]) /\ files'[i][a] = l
      BY <1>1, <2>2, <3>2
    <3> QED BY <3>3
  <2> QED BY <1>1, <2>3, <2>4
<1>3. CASE ~WriteLine
  <2>1. /\ UNCHANGED <<files, written>> /\ fd' \in Nat /\ fd <= fd'
    <3>1. fd' \in Nat
      BY <1>1 DEF LogInv, LogTypeOK, Inodes
    <3>2. CASE Reopen
      <4>1. /\ name[0] = IF rotating = "renamed" THEN None ELSE Newest
            /\ fd <= Newest
        BY NameFacts DEF LogInv, LinesInv
      <4> QED BY <1>1, <3>1, <3>2, <4>1 DEF Reopen
    <3>3. CASE ~Reopen
      BY <1>1, <1>3, <3>1, <3>3
         DEF LogNext, Rotate, BeginRotation, CompressEnd, Shift, Rename, Create, logVars
    <3>4. UNCHANGED <<files, written>>
      BY <1>3 DEF LogNext, Rotate, BeginRotation, CompressEnd, Shift, Rename, Create,
                  Reopen, logVars
    <3> QED BY <3>1, <3>2, <3>3, <3>4
  <2>2. 0..fd \subseteq 0..fd'
    BY <1>1, <2>1
  <2> QED BY <2>1, <2>2 DEF LinesKept
<1> QED BY <1>2, <1>3

-----------------------------------------------------------------------------
(* What the readers need of the names.                                     *)

\* A lower suffix names a younger file, except while usage.log.1 is being
\* compressed beside itself.
LEMMA PathOrder ==
    ASSUME LogInv, NEW j \in Paths, NEW k \in Paths, j < k,
           name[j] # None, name[k] # None
    PROVE  /\ name[j] \in Inodes /\ name[k] \in Inodes
           /\ name[j] > name[k] \/ (j = 1 /\ k = 2 /\ Compressing)
<1>1. /\ rotations \in Nat /\ rotations <= MaxRotations /\ MaxRotations \in Nat
      /\ None \notin Nat /\ Paths \subseteq Nat
  BY NameFacts
<1>2. /\ name \in [Paths -> Inodes \cup {None}]
      /\ name[j] = Named(j) /\ name[k] = Named(k)
      /\ rotating # "no" => rotations >= 1
      /\ Compressing => rotations >= 2
  BY DEF LogInv, LogTypeOK, NamesInv
<1>3. name[j] > name[k] \/ (j = 1 /\ k = 2 /\ Compressing)
  <2>1. CASE j = 0
    <3>1. /\ name[j] = Newest
          /\ rotating \in {"no", "compressing", "compressed", "shifted", "created"}
      BY <1>2, <2>1 DEF Named, LogInv, LogTypeOK
    <3>2. CASE k = 1
      BY <1>1, <1>2, <2>1, <3>1, <3>2 DEF Named, Newest, Aged, Compressing
    <3>3. CASE k = 2
      BY <1>1, <1>2, <2>1, <3>1, <3>3 DEF Named, Newest, Compressing
    <3>4. CASE k >= 3
      BY <1>1, <1>2, <2>1, <3>1, <3>4 DEF Named, Newest, Aged, Compressing
    <3> QED BY <1>1, <2>1, <3>2, <3>3, <3>4
  <2>2. CASE j = 1
    BY <1>1, <1>2, <2>2 DEF Named, Newest, Aged, Compressing
  <2>3. CASE j = 2
    BY <1>1, <1>2, <2>3 DEF Named, Newest, Aged, Compressing
  <2>4. CASE j >= 3
    BY <1>1, <1>2, <2>4 DEF Named, Newest, Aged, Compressing
  <2> QED BY <1>1, <2>1, <2>2, <2>3, <2>4
<1> QED BY <1>2, <1>3

\* Every file has a name.
LEMMA InodeNamed ==
    ASSUME LogInv, NEW i \in 0..Newest
    PROVE  \E k \in Paths : name[k] = i
<1>1. /\ rotations \in Nat /\ rotations <= MaxRotations /\ MaxRotations \in Nat
      /\ None \notin Nat /\ Newest \in Nat
  BY NameFacts DEF Inodes
<1>2. /\ \A k \in Paths : name[k] = Named(k)
      /\ rotating # "no" => rotations >= 1
      /\ Compressing => rotations >= 2
  BY DEF LogInv, NamesInv
<1> DEFINE k == IF i = Newest /\ rotating # "renamed" THEN 0
                ELSE IF Compressing
                     THEN IF i = rotations - 2 THEN 1 ELSE rotations - i
                     ELSE IF i = rotations - 1 THEN 1 ELSE rotations + 1 - i
<1>3. k \in Paths
  BY <1>1, <1>2 DEF Newest, Compressing, Paths
<1>4. Named(k) = i
  <2>1. CASE i = Newest /\ rotating # "renamed"
    BY <1>1, <2>1 DEF Named
  <2>2. CASE ~(i = Newest /\ rotating # "renamed") /\ Compressing
    BY <1>1, <1>2, <2>2 DEF Named, Newest, Aged, Compressing
  <2>3. CASE ~(i = Newest /\ rotating # "renamed") /\ ~Compressing
    BY <1>1, <1>2, <2>3 DEF Named, Newest, Aged, Compressing
  <2> QED BY <2>1, <2>2, <2>3
<1> QED BY <1>2, <1>3, <1>4

=============================================================================
