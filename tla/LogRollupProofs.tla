-------------------------- MODULE LogRollupProofs --------------------------
(***************************************************************************)
(* Proofs about LogRollup, for any log, any rotations, any windows and any *)
(* byte budget.                                                            *)
(***************************************************************************)
EXTENDS LogRollup, UsageLogProofs

-----------------------------------------------------------------------------
(* Maxima.                                                                 *)

\* Max, of integers that are bounded.
LEMMA MaxOfBounded ==
    ASSUME NEW T \in SUBSET Int, T # {}, NEW b \in Int, \A x \in T : x <= b
    PROVE  Max(T) \in T /\ \A x \in T : x <= Max(T)
<1>1. \E n \in T : \A m \in T : n >= m
  BY Greatest
<1>2. Max(T) \in T /\ \A m \in T : Max(T) >= m
  BY <1>1 DEF Max
<1> QED BY <1>2

\* A finite set of naturals is bounded: a least one that is not would be no
\* longer unbounded without one of its elements.
LEMMA FiniteBounded ==
    ASSUME NEW T \in SUBSET Nat, IsFiniteSet(T)
    PROVE  \E b \in Nat : \A x \in T : x <= b
<1> DEFINE R == StrictSubsetOrdering(Nat)
           U == {A \in FiniteSubsetsOf(Nat) : ~\E b \in Nat : \A x \in A : x <= b}
<1> SUFFICES ASSUME U # {} PROVE FALSE
  BY DEF FiniteSubsetsOf
<1>1. IsWellFoundedOn(R, FiniteSubsetsOf(Nat))
  BY FS_StrictSubsetOrderingWellFounded
<1>2. U \subseteq FiniteSubsetsOf(Nat)
  OBVIOUS
<1>3. PICK A \in U : \A B \in U : ~(<<B, A>> \in R)
  <2> HIDE DEF R, U
  <2> QED BY <1>1, <1>2, WFMin
<1>4. A \in SUBSET Nat /\ IsFiniteSet(A) /\ ~\E b \in Nat : \A x \in A : x <= b
  BY <1>3 DEF FiniteSubsetsOf
<1>5. PICK x \in A : x \in Nat
  BY <1>4
<1>6. /\ A \ {x} \subseteq A /\ A \ {x} # A /\ A \ {x} \in SUBSET Nat
      /\ IsFiniteSet(A \ {x})
  BY <1>4, <1>5, FS_RemoveElement
<1>7. A \ {x} \notin U
  <2>1. <<A \ {x}, A>> \in R
    BY <1>4, <1>6 DEF StrictSubsetOrdering
  <2> QED BY <1>3, <2>1
<1>8. PICK b \in Nat : \A y \in A \ {x} : y <= b
  BY <1>6, <1>7 DEF FiniteSubsetsOf
<1>9. \A y \in A : y <= (IF b <= x THEN x ELSE b)
  BY <1>4, <1>5, <1>8
<1> QED BY <1>4, <1>5, <1>9

\* The longest window is one of them.
LEMMA LongestFacts ==
    /\ Longest \in Windows /\ Longest \in Nat \ {0}
    /\ \A secs \in Windows : secs \in Nat /\ secs <= Longest
<1>1. PICK b \in Nat : \A x \in Windows : x <= b
  BY RollupAssumption, WindowsAssumption, FiniteBounded
<1>2. Max(Windows) \in Windows /\ \A x \in Windows : x <= Max(Windows)
  <2>1. Windows \in SUBSET Int /\ Windows # {} /\ b \in Int
    BY RollupAssumption, WindowsAssumption
  <2> QED BY <1>1, <2>1, MaxOfBounded
<1> QED BY <1>2, RollupAssumption, WindowsAssumption DEF Longest

-----------------------------------------------------------------------------
(* The pieces of a refresh.                                                *)

\* The lines kept of a sequence: those young enough, in their order.
LEMMA RecentFacts ==
    ASSUME NEW secs, NEW s \in Seq(Lines)
    PROVE  /\ Recent(secs, s) \in Seq(Lines) /\ Len(Recent(secs, s)) \in Nat
           /\ \A i \in 1..Len(Recent(secs, s)) :
                /\ Age(Recent(secs, s)[i]) <= secs
                /\ \E j \in 1..Len(s) : s[j] = Recent(secs, s)[i]
           /\ \A j \in 1..Len(s) : Age(s[j]) <= secs =>
                \E i \in 1..Len(Recent(secs, s)) : Recent(secs, s)[i] = s[j]
           /\ Increasing(s) => Increasing(Recent(secs, s))
<1> DEFINE S == {l \in Lines : Age(l) <= secs}
           t == Select(s, S)
<1>1. t = Recent(secs, s)
  BY DEF Recent
<1>2. \A j \in 1..Len(s) : s[j] \in Lines
  OBVIOUS
<1>3. /\ t \in Seq(Lines) /\ Len(t) \in Nat
      /\ \A i \in 1..Len(t) : t[i] \in S /\ \E j \in 1..Len(s) : s[j] = t[i]
      /\ \A j \in 1..Len(s) : s[j] \in S => \E i \in 1..Len(t) : t[i] = s[j]
      /\ Increasing(s) => Increasing(t)
  <2> HIDE DEF S
  <2> QED BY SelectFacts, SelectOrder
<1> HIDE DEF t
<1>4. \A i \in 1..Len(t) : Age(t[i]) <= secs
  BY <1>3
<1>5. \A j \in 1..Len(s) : Age(s[j]) <= secs => s[j] \in S
  BY <1>2
<1> HIDE DEF S
<1> QED BY <1>1, <1>3, <1>4, <1>5

\* The files a refresh walks: every path there is, highest suffix first.
LEMMA WalkFacts ==
    ASSUME LogTypeOK
    PROVE  /\ WalkOrder \in Seq(Paths) /\ Decreasing(WalkOrder)
           /\ \A k \in Existing : \E h \in 1..Len(WalkOrder) : WalkOrder[h] = k
<1> DEFINE s == [i \in 1..(MaxRotations + 2) |-> MaxRotations + 2 - i]
<1>1. MaxRotations \in Nat
  BY LogBounds
<1>2. /\ s \in Seq(Paths) /\ Len(s) = MaxRotations + 2
      /\ \A i \in 1..Len(s) : s[i] = MaxRotations + 2 - i
  <2>1. \A i \in 1..(MaxRotations + 2) : MaxRotations + 2 - i \in Paths
    BY <1>1 DEF Paths
  <2>2. MaxRotations + 2 \in Nat
    BY <1>1
  <2> QED BY <2>1, <2>2
<1>3. Decreasing(s)
  BY <1>1, <1>2 DEF Decreasing
<1>4. ASSUME NEW k \in Paths PROVE \E j \in 1..Len(s) : s[j] = k
  <2>1. MaxRotations + 2 - k \in 1..Len(s) /\ s[MaxRotations + 2 - k] = k
    BY <1>1, <1>2 DEF Paths
  <2> QED BY <2>1
<1>5. WalkOrder = Select(s, Existing)
  BY DEF WalkOrder
<1> HIDE DEF s
<1>6. /\ WalkOrder \in Seq(Paths)
      /\ \A j \in 1..Len(s) : s[j] \in Existing =>
             \E h \in 1..Len(WalkOrder) : WalkOrder[h] = s[j]
  <2>1. s \in Seq(Paths)
    BY <1>2
  <2>2. /\ Select(s, Existing) \in Seq(Paths)
        /\ \A j \in 1..Len(s) : s[j] \in Existing =>
               \E h \in 1..Len(Select(s, Existing)) : Select(s, Existing)[h] = s[j]
    BY <2>1, SelectFacts
  <2> QED BY <1>5, <2>2
<1>7. Decreasing(WalkOrder)
  BY <1>2, <1>3, <1>5, SelectOrder
<1>8. \A k \in Existing : \E h \in 1..Len(WalkOrder) : WalkOrder[h] = k
  BY <1>4, <1>6 DEF Existing
<1> QED BY <1>6, <1>7, <1>8

\* What is read of a file: lines of it in their order, and all of them when
\* the budget is not exceeded.
LEMMA FitsFacts ==
    ASSUME NEW k, NEW s \in Seq(Lines), budget \in Nat, budget > 0
    PROVE  /\ Fits(k, s) \in Seq(Lines)
           /\ Len(s) <= budget => Fits(k, s) = s
           /\ \A i \in 1..Len(Fits(k, s)) : \E j \in 1..Len(s) : Fits(k, s)[i] = s[j]
           /\ Increasing(s) => Increasing(Fits(k, s))
<1> DEFINE n == Len(s)
           p == n - budget + 2
<1>1. n \in Nat
  OBVIOUS
<1>2. CASE ~(k <= 1 /\ n > budget)
  BY <1>2 DEF Fits
<1>3. CASE k <= 1 /\ n > budget
  <2> DEFINE t == SubSeq(s, p, n)
  <2>1. Fits(k, s) = t /\ p \in Nat /\ p >= 2 /\ ~(n <= budget)
    BY <1>1, <1>3 DEF Fits
  <2> HIDE DEF p
  <2>2. CASE p <= n
    <3>1. /\ t \in Seq(Lines) /\ Len(t) = n - p + 1
          /\ \A i \in 1..(n - p + 1) : t[i] = s[p + i - 1]
      BY <1>1, <2>1, <2>2
    <3>2. \A i \in 1..Len(t) : p + i - 1 \in 1..n /\ t[i] = s[p + i - 1]
      BY <1>1, <2>1, <2>2, <3>1
    <3> HIDE DEF t, n
    <3>3. Increasing(s) => Increasing(t)
      <4> SUFFICES ASSUME Increasing(s), NEW i \in 1..Len(t), NEW j \in 1..Len(t), i < j
                   PROVE  t[i] < t[j]
        BY DEF Increasing
      <4>1. /\ p + i - 1 \in 1..n /\ t[i] = s[p + i - 1]
            /\ p + j - 1 \in 1..n /\ t[j] = s[p + j - 1]
        BY <3>2
      <4>2. p + i - 1 < p + j - 1
        BY <2>1, <3>1
      <4> QED BY <4>1, <4>2 DEF Increasing, n
    <3> QED BY <2>1, <3>1, <3>2, <3>3 DEF n
  <2>3. CASE p > n
    <3>1. t = <<>>
      BY <1>1, <2>1, <2>3
    <3> QED BY <2>1, <3>1 DEF Increasing
  <2> QED BY <1>1, <2>1, <2>2, <2>3
<1> QED BY <1>2, <1>3

\* A rotation only ever moves a file to a higher suffix; the one it creates
\* is empty.
LEMMA SuffixesGrow ==
    ASSUME LogInv, LogNext, NEW k \in Paths, name'[k] # None
    PROVE  \/ \E j \in Existing : j <= k /\ name[j] = name'[k]
           \/ name'[k] \in Inodes /\ files'[name'[k]] = <<>>
<1>1. /\ rotations \in Nat /\ rotations <= MaxRotations /\ MaxRotations \in Nat
      /\ None \notin Nat /\ 0 \in Paths /\ Paths \subseteq Nat
      /\ DOMAIN name = Paths
      /\ name[0] = IF rotating = "renamed" THEN None ELSE Newest
      /\ rotations >= 1 => 1 \in Paths /\ 2 \in Paths
      /\ rotating # "no" => rotations >= 1
      /\ name \in [Paths -> Inodes \cup {None}]
  BY NameFacts DEF LogInv, NamesInv, LogTypeOK
<1>2. CASE name'[k] = name[k]
  BY <1>1, <1>2 DEF Existing
<1>3. CASE BeginRotation
  <2>1. CASE name[1] = None
    BY <1>2, <1>3, <2>1 DEF BeginRotation
  <2>2. CASE name[1] # None
    <3>1. name' = [name EXCEPT ![2] = name[1]]
      BY <1>3, <2>2 DEF BeginRotation
    <3>2. CASE k = 2
      <4>1. name'[2] = name[1] /\ 1 \in Existing /\ 1 <= 2
        <5>1. 1 \in Paths
          BY <1>1, <3>2 DEF Paths
        <5> QED BY <1>1, <2>2, <3>1, <3>2, <5>1 DEF Existing
      <4> QED BY <3>2, <4>1
    <3> QED BY <1>1, <1>2, <3>1, <3>2
  <2> QED BY <2>1, <2>2
<1>4. CASE CompressEnd
  BY <1>2, <1>4 DEF CompressEnd
<1>5. CASE Shift
  <2>1. name'[k] = IF k = 0 THEN name[0] ELSE IF k \in {1, 2} THEN None ELSE name[k - 1]
    BY <1>5 DEF Shift
  <2>2. CASE k = 0
    BY <1>2, <2>1, <2>2
  <2>3. CASE k # 0
    <3>1. k - 1 \in Paths /\ k - 1 <= k /\ name[k - 1] = name'[k]
      BY <1>1, <2>1, <2>3 DEF Paths
    <3> QED BY <3>1 DEF Existing
  <2> QED BY <2>2, <2>3
<1>6. CASE Rename
  <2>1. name' = [name EXCEPT ![0] = None, ![1] = name[0]]
    BY <1>6 DEF Rename
  <2>2. CASE k = 1
    <3>1. name'[1] = name[0]
      BY <1>1, <2>1, <2>2
    <3>2. 0 \in Existing /\ 0 <= 1
      BY <1>1, <2>2, <3>1 DEF Existing
    <3> QED BY <2>2, <3>1, <3>2
  <2>3. CASE k = 0
    BY <1>1, <2>1, <2>3
  <2> QED BY <1>1, <1>2, <2>1, <2>2, <2>3
<1>7. CASE Create
  <2>1. /\ name' = [name EXCEPT ![0] = rotations] /\ rotating = "renamed"
        /\ files' = files
    BY <1>7 DEF Create
  <2>2. CASE k = 0
    <3>1. name'[k] = rotations /\ rotations \in Inodes
      BY <1>1, <2>1, <2>2 DEF Inodes
    <3>2. fd <= Newest /\ Newest = rotations - 1 /\ fd \in Nat
      BY <2>1 DEF LogInv, LinesInv, LogTypeOK, Newest, Inodes
    <3>3. rotations > fd
      BY <1>1, <3>2
    <3>4. files[rotations] = <<>>
      BY <3>1, <3>3 DEF LogInv, LinesInv
    <3> QED BY <2>1, <3>1, <3>4
  <2> QED BY <1>1, <1>2, <2>1, <2>2
<1>8. CASE WriteLine \/ Reopen
  BY <1>2, <1>8 DEF WriteLine, Reopen
<1> QED BY <1>3, <1>4, <1>5, <1>6, <1>7, <1>8 DEF LogNext, Rotate

-----------------------------------------------------------------------------
(* The inductive invariant.                                                *)

(***************************************************************************)
(* A line kept so far was written before every line the refresh may still  *)
(* read, unless it read the compressed copy of usage.log.1 beside the      *)
(* original.  The suffixes still to read are below the ones read, and a    *)
(* rotation moves files only upwards.                                      *)
(***************************************************************************)
OlderThanRest(r) ==
    /\ r <= written
    /\ \A k \in Existing, h \in 1..Len(walk) : k <= walk[h] =>
           \A a \in 1..Len(files[name[k]]) : r < files[name[k]][a]

OnceInv ==
    walk # None =>
        /\ walk \in Seq(Paths) /\ Decreasing(walk)
        /\ ~twice => Increasing(rows) /\ \A i \in 1..Len(rows) : OlderThanRest(rows[i])

(***************************************************************************)
(* While no rotation runs and the budget lasts, every request of the       *)
(* longest window logged before the refresh has been kept, or is in a file *)
(* the refresh has still to read.                                          *)
(***************************************************************************)
KeptOrAhead(l) ==
    \/ \E i \in 1..Len(rows) : rows[i] = l
    \/ \E h \in 1..Len(walk) :
         /\ walk[h] \in Existing
         /\ \E a \in 1..Len(files[name[walk[h]]]) : files[name[walk[h]]][a] = l

CoverInv ==
    walk # None /\ ~moved =>
        /\ rotating = "no"
        /\ budget >= 0 => \A l \in 1..started : Age(l) <= Longest => KeptOrAhead(l)

\* No line kept is older than the longest window.
AgeInv == \A i \in 1..Len(rows) : Age(rows[i]) <= Longest

\* What the answer says of the longest window.
LongestFlagged ==
    data # None =>
        LET d == data[Longest] IN
        d.partial \/ \E i \in 1..Len(d.lines) : Clock[d.at] - Clock[d.lines[i]] = Longest

RollupInv ==
    /\ TypeOK /\ LogInv /\ LinesKept
    /\ OnceInv /\ CoverInv /\ AgeInv
    /\ NeverDoubleCounts /\ CompleteWhenQuiet /\ LongestFlagged

\* It holds before the first refresh.
LEMMA InitRollupInv == Init => RollupInv
<1> SUFFICES ASSUME Init PROVE RollupInv
  OBVIOUS
<1>1. LogInv /\ LinesKept
  BY InitLog DEF Init
<1>2. TypeOK
  <2>1. LogTypeOK
    BY <1>1 DEF LogInv
  <2>2. started \in 0..MaxLines /\ budget \in Int /\ budget <= MaxBytes
    BY LogBounds, RollupAssumption DEF Init
  <2>3. rows \in Seq(Lines)
    BY DEF Init
  <2>4. moved \in BOOLEAN /\ twice \in BOOLEAN
    BY DEF Init
  <2> QED BY <2>1, <2>2, <2>3, <2>4 DEF Init, TypeOK
<1> QED BY <1>1, <1>2 DEF Init, RollupInv, OnceInv, CoverInv, AgeInv,
           NeverDoubleCounts, CompleteWhenQuiet, LongestFlagged

\* Facts about the files that the steps share.
LEMMA RollupFacts ==
    ASSUME RollupInv
    PROVE  /\ MaxLines \in Nat /\ Lines \subseteq Nat /\ Paths \subseteq Nat
           /\ None \notin Nat /\ None \notin Inodes /\ MaxBytes \in Nat
           /\ name \in [Paths -> Inodes \cup {None}] /\ written \in 0..MaxLines
           /\ started \in 0..MaxLines /\ budget \in Int /\ budget <= MaxBytes
           /\ \A k \in Existing : k \in Paths /\ name[k] \in Inodes
           /\ rows \in Seq(Lines) /\ moved \in BOOLEAN /\ twice \in BOOLEAN
           /\ \A i \in 1..Len(rows) : rows[i] \in Lines /\ rows[i] \in Nat
           /\ \A i \in Inodes : /\ files[i] \in Seq(Lines) /\ Len(files[i]) \in Nat
                                /\ Increasing(files[i])
                                /\ \A a \in 1..Len(files[i]) : /\ files[i][a] \in Nat
                                                               /\ files[i][a] <= written
<1>1. /\ MaxLines \in Nat /\ Lines \subseteq Nat /\ MaxBytes \in Nat
      /\ None \notin Nat /\ Paths \subseteq Nat
  BY LogBounds, RollupAssumption, NameFacts DEF RollupInv, Lines
<1>2. /\ name \in [Paths -> Inodes \cup {None}] /\ written \in 0..MaxLines
      /\ files \in [Inodes -> Seq(Lines)]
      /\ started \in 0..MaxLines /\ budget \in Int /\ budget <= MaxBytes
      /\ rows \in Seq(Lines) /\ moved \in BOOLEAN /\ twice \in BOOLEAN
  BY DEF RollupInv, TypeOK, LogTypeOK
<1>3. \A k \in Existing : k \in Paths /\ name[k] \in Inodes
  BY <1>2 DEF Existing
<1>4. ASSUME NEW i \in Inodes
      PROVE  /\ files[i] \in Seq(Lines) /\ Len(files[i]) \in Nat /\ Increasing(files[i])
             /\ \A a \in 1..Len(files[i]) : files[i][a] \in Nat /\ files[i][a] <= written
  <2>1. /\ files[i] \in Seq(Lines) /\ Increasing(files[i])
        /\ \A a \in 1..Len(files[i]) : files[i][a] <= written
    BY <1>2 DEF RollupInv, LogInv, LinesInv
  <2>2. \A a \in 1..Len(files[i]) : files[i][a] \in Lines
    BY <2>1
  <2>3. \A a \in 1..Len(files[i]) : files[i][a] \in Nat
    BY <1>1, <2>2
  <2>4. Len(files[i]) \in Nat
    BY <2>1
  <2> QED BY <2>1, <2>3, <2>4
<1>5. \A i \in 1..Len(rows) : rows[i] \in Lines /\ rows[i] \in Nat
  <2>1. \A i \in 1..Len(rows) : rows[i] \in Lines
    BY <1>2
  <2> QED BY <1>1, <2>1
<1>6. None \notin Inodes
  BY <1>1 DEF Inodes
<1> QED BY <1>1, <1>2, <1>3, <1>4, <1>5, <1>6

\* A refresh lists the files; every line so far is in one that has a name.
LEMMA StepBegin == ASSUME RollupInv, Begin PROVE RollupInv'
<1> USE RollupFacts
<1>1. /\ UNCHANGED <<files, name, fd, written, rotations, rotating, data>>
      /\ walk' = WalkOrder /\ started' = written /\ budget' = MaxBytes
      /\ rows' = <<>> /\ twice' = FALSE
      /\ (moved') <=> (rotating # "no")
      /\ moved' \in BOOLEAN
  BY DEF Begin, logVars
<1>2. LogInv' /\ LinesKept'
  BY <1>1, StepLog, StepKept DEF RollupInv, logVars
<1>3. /\ WalkOrder \in Seq(Paths) /\ Decreasing(WalkOrder)
      /\ \A k \in Existing : \E h \in 1..Len(WalkOrder) : WalkOrder[h] = k
  BY WalkFacts DEF RollupInv, LogInv
<1>4. TypeOK'
  <2>1. <<>> \in Seq(Lines) /\ MaxBytes <= MaxBytes /\ MaxBytes \in Int
    OBVIOUS
  <2> QED BY <1>1, <1>2, <1>3, <2>1 DEF RollupInv, TypeOK, LogInv
<1>5. OnceInv'
  BY <1>1, <1>3 DEF OnceInv, Increasing, Decreasing
<1>6. CoverInv'
  <2> SUFFICES ASSUME rotating = "no", NEW l \in 1..written PROVE KeptOrAhead(l)'
    BY <1>1 DEF CoverInv
  <2>1. PICK i \in 0..fd : \E a \in 1..Len(files[i]) : files[i][a] = l
    BY DEF RollupInv, LinesKept
  <2>2. i \in 0..Newest
    BY DEF RollupInv, LogInv, LinesInv, LogTypeOK, Newest, Inodes
  <2>3. PICK k \in Paths : name[k] = i
    BY <2>2, InodeNamed DEF RollupInv
  <2>4. k \in Existing
    BY <2>2, <2>3 DEF Existing
  <2>5. PICK h \in 1..Len(WalkOrder) : WalkOrder[h] = k
    BY <1>3, <2>4
  <2> QED BY <1>1, <2>1, <2>3, <2>4, <2>5 DEF KeptOrAhead, Existing
<1>7. AgeInv'
  BY <1>1 DEF AgeInv
<1>8. NeverDoubleCounts' /\ CompleteWhenQuiet' /\ LongestFlagged'
  BY <1>1 DEF RollupInv, NeverDoubleCounts, CompleteWhenQuiet, LongestFlagged
<1> QED BY <1>2, <1>4, <1>5, <1>6, <1>7, <1>8 DEF RollupInv

\* A refresh gives up.
LEMMA StepReadFails == ASSUME RollupInv, ReadFails PROVE RollupInv'
<1>1. /\ UNCHANGED <<files, name, fd, written, rotations, rotating>>
      /\ UNCHANGED <<started, budget, rows, moved, twice>>
      /\ walk' = None /\ data' = None
  BY DEF ReadFails, logVars
<1>2. LogInv' /\ LinesKept'
  BY <1>1, StepLog, StepKept DEF RollupInv, logVars
<1>3. TypeOK'
  BY <1>1, <1>2 DEF RollupInv, TypeOK, LogInv
<1> QED BY <1>1, <1>2, <1>3
        DEF RollupInv, OnceInv, CoverInv, AgeInv, Age, NeverDoubleCounts,
            CompleteWhenQuiet, LongestFlagged

\* The first of the suffixes still to read, and the rest.
LEMMA WalkStep ==
    ASSUME NEW w \in Seq(Paths), w # <<>>
    PROVE  /\ Head(w) \in Paths /\ Head(w) = w[1] /\ Tail(w) \in Seq(Paths)
           /\ Len(w) \in Nat /\ Len(w) >= 1 /\ Len(Tail(w)) = Len(w) - 1
           /\ \A h \in 1..Len(Tail(w)) : h + 1 \in 1..Len(w) /\ Tail(w)[h] = w[h + 1]
           /\ Decreasing(w) => /\ Decreasing(Tail(w))
                               /\ \A h \in 1..Len(Tail(w)) : Tail(w)[h] < Head(w)
<1> DEFINE t == Tail(w)
<1>1. /\ Head(w) \in Paths /\ Head(w) = w[1] /\ t \in Seq(Paths)
      /\ Len(w) \in Nat /\ Len(w) >= 1 /\ Len(t) = Len(w) - 1
  OBVIOUS
<1>2. \A h \in 1..Len(t) : h + 1 \in 1..Len(w) /\ t[h] = w[h + 1]
  OBVIOUS
<1> HIDE DEF t
<1>3. Decreasing(w) => Decreasing(t) /\ \A h \in 1..Len(t) : t[h] < Head(w)
  <2> SUFFICES ASSUME Decreasing(w)
               PROVE  Decreasing(t) /\ \A h \in 1..Len(t) : t[h] < Head(w)
    OBVIOUS
  <2>1. ASSUME NEW i \in 1..Len(t), NEW j \in 1..Len(t), i < j PROVE t[i] > t[j]
    <3>1. i + 1 < j + 1 /\ i + 1 \in 1..Len(w) /\ j + 1 \in 1..Len(w)
      BY <1>1, <1>2, <2>1
    <3> QED BY <1>2, <3>1 DEF Decreasing
  <2>2. ASSUME NEW h \in 1..Len(t) PROVE t[h] < Head(w)
    <3>1. 1 < h + 1 /\ 1 \in 1..Len(w) /\ h + 1 \in 1..Len(w)
      BY <1>1, <1>2
    <3>2. w[1] > w[h + 1]
      BY <3>1 DEF Decreasing
    <3>3. w[1] \in Nat /\ w[h + 1] \in Nat
      <4>1. Paths \subseteq Nat
        BY LogBounds DEF Paths
      <4>2. w[1] \in Paths /\ w[h + 1] \in Paths
        BY <3>1
      <4> QED BY <4>1, <4>2
    <3> QED BY <1>1, <1>2, <3>2, <3>3
  <2> QED BY <2>1, <2>2 DEF Decreasing
<1> QED BY <1>1, <1>2, <1>3 DEF t

\* What one file adds: lines of it, in order, no older than the longest
\* window, and all of those when the budget is enough.
Adds(s) == Recent(Longest, s)

\* They are recent, all that are, and in order.
LEMMA AddsFacts ==
    ASSUME RollupInv, NEW k \in Existing, budget > 0
    PROVE  LET s == files[name[k]]
               t == Adds(Fits(k, s))
           IN  /\ t \in Seq(Lines) /\ Len(t) \in Nat /\ Increasing(t)
               /\ \A i \in 1..Len(t) : /\ Age(t[i]) <= Longest
                                       /\ \E j \in 1..Len(s) : s[j] = t[i]
               /\ Len(s) <= budget =>
                    \A j \in 1..Len(s) : Age(s[j]) <= Longest =>
                        \E i \in 1..Len(t) : t[i] = s[j]
<1> DEFINE s == files[name[k]]
           f == Fits(k, s)
           t == Adds(f)
<1>1. s \in Seq(Lines) /\ Increasing(s) /\ budget \in Nat
  BY RollupFacts
<1> HIDE DEF s
<1>2. /\ f \in Seq(Lines)
      /\ Len(s) <= budget => f = s
      /\ \A i \in 1..Len(f) : \E j \in 1..Len(s) : f[i] = s[j]
      /\ Increasing(f)
  BY <1>1, FitsFacts
<1> HIDE DEF f
<1>3. /\ t \in Seq(Lines) /\ Len(t) \in Nat /\ Increasing(t)
      /\ \A i \in 1..Len(t) : Age(t[i]) <= Longest /\ \E j \in 1..Len(f) : f[j] = t[i]
      /\ \A j \in 1..Len(f) : Age(f[j]) <= Longest => \E i \in 1..Len(t) : t[i] = f[j]
  BY <1>2, RecentFacts DEF Adds
<1> HIDE DEF t
<1>4. \A i \in 1..Len(t) : \E j \in 1..Len(s) : s[j] = t[i]
  BY <1>2, <1>3
<1>5. Len(s) <= budget =>
         \A j \in 1..Len(s) : Age(s[j]) <= Longest => \E i \in 1..Len(t) : t[i] = s[j]
  BY <1>2, <1>3
<1> QED BY <1>3, <1>4, <1>5 DEF t, f, s

\* A sequence and another after it, in order when every entry of the first is
\* below every entry of the second.
LEMMA Joined ==
    ASSUME NEW s \in Seq(Lines), NEW t \in Seq(Lines)
    PROVE  /\ s \o t \in Seq(Lines) /\ Len(s \o t) = Len(s) + Len(t)
           /\ \A i \in 1..Len(s) : i \in 1..Len(s \o t) /\ (s \o t)[i] = s[i]
           /\ \A i \in 1..Len(t) : /\ Len(s) + i \in 1..Len(s \o t)
                                   /\ (s \o t)[Len(s) + i] = t[i]
           /\ \A i \in 1..Len(s \o t) :
                \/ i \in 1..Len(s)
                \/ \E j \in 1..Len(t) : i = Len(s) + j
           /\ /\ Increasing(s) /\ Increasing(t)
              /\ \A i \in 1..Len(s), j \in 1..Len(t) : s[i] < t[j]
              => Increasing(s \o t)
<1> DEFINE u == s \o t
           n == Len(s)
<1>0. n \in Nat /\ Len(t) \in Nat
  OBVIOUS
<1>1. u \in Seq(Lines) /\ Len(u) = n + Len(t)
  BY <1>0
<1>2. \A i \in 1..n : i \in 1..Len(u) /\ u[i] = s[i]
  BY <1>0, <1>1
<1>3. \A i \in 1..Len(t) : n + i \in 1..Len(u) /\ u[n + i] = t[i]
  BY <1>0, <1>1
<1> HIDE DEF u, n
<1>4. ASSUME NEW i \in 1..Len(u), i \notin 1..n PROVE \E j \in 1..Len(t) : i = n + j
  <2>1. i - n \in 1..Len(t) /\ i = n + (i - n)
    BY <1>0, <1>1, <1>4
  <2> QED BY <2>1
<1>5. ASSUME Increasing(s), Increasing(t), \A i \in 1..n, j \in 1..Len(t) : s[i] < t[j],
             NEW i \in 1..Len(u), NEW j \in 1..Len(u), i < j
      PROVE  u[i] < u[j]
  <2>1. CASE j \in 1..n
    <3>1. i \in 1..n
      BY <1>0, <1>1, <1>5, <2>1
    <3> QED BY <1>2, <1>5, <2>1, <3>1 DEF Increasing, n
  <2>2. CASE i \in 1..n /\ j \notin 1..n
    BY <1>2, <1>3, <1>4, <1>5, <2>2
  <2>3. CASE i \notin 1..n /\ j \notin 1..n
    <3>1. PICK a \in 1..Len(t) : i = n + a
      BY <1>4, <2>3
    <3>2. PICK b \in 1..Len(t) : j = n + b
      BY <1>4, <2>3
    <3>3. a < b
      BY <1>0, <1>5, <3>1, <3>2
    <3> QED BY <1>3, <1>5, <3>1, <3>2, <3>3 DEF Increasing
  <2>4. i \in 1..n \/ j \notin 1..n
    BY <1>0, <1>1, <1>5
  <2> QED BY <2>1, <2>2, <2>3, <2>4
<1> QED BY <1>1, <1>2, <1>3, <1>4, <1>5 DEF u, n, Increasing

\* One file is read.  What it adds is younger than the rows, and older than
\* the files that follow; when the budget holds, nothing of it is left out.
LEMMA StepReadFile == ASSUME RollupInv, ReadFile PROVE RollupInv'
<1> USE RollupFacts
<1> DEFINE k == Head(walk)
           t == Adds(Fits(k, files[name[k]]))
<1>1. /\ UNCHANGED <<files, name, fd, written, rotations, rotating>>
      /\ UNCHANGED <<started, data, moved>>
      /\ walk # None /\ walk # <<>> /\ budget > 0 /\ walk' = Tail(walk)
      /\ (twice') <=> (twice \/ (k = 2 /\ rotating = "compressed"))
      /\ twice' \in BOOLEAN
  BY DEF ReadFile, logVars
<1>2. LogInv' /\ LinesKept'
  BY <1>1, StepLog, StepKept DEF RollupInv, logVars
<1>3. walk \in Seq(Paths) /\ Decreasing(walk)
  BY <1>1 DEF RollupInv, OnceInv
<1>4. /\ k \in Paths /\ k = walk[1] /\ walk' \in Seq(Paths)
      /\ Len(walk) \in Nat /\ Len(walk) >= 1 /\ Len(walk') = Len(walk) - 1
      /\ \A h \in 1..Len(walk') : h + 1 \in 1..Len(walk) /\ walk'[h] = walk[h + 1]
      /\ Decreasing(walk') /\ \A h \in 1..Len(walk') : walk'[h] < k /\ walk'[h] \in Paths
  <2>1. \A h \in 1..Len(Tail(walk)) : Tail(walk)[h] \in Paths
    BY <1>1, <1>3, WalkStep
  <2> QED BY <1>1, <1>3, <2>1, WalkStep
<1>5. Existing' = Existing
  BY <1>1 DEF Existing
<1>6. \/ UNCHANGED <<budget, rows>> /\ (k \notin Existing \/ Truncated(k))
      \/ /\ k \in Existing /\ ~Truncated(k)
         /\ rows' = rows \o t /\ budget' = budget - Len(files[name[k]])
  BY <1>4 DEF ReadFile, Existing, Adds, Left
<1> HIDE DEF t
<1>7. CASE UNCHANGED <<budget, rows>> /\ (k \notin Existing \/ Truncated(k))
  <2>1. TypeOK'
    BY <1>1, <1>2, <1>4, <1>7 DEF RollupInv, TypeOK, LogInv
  <2>2. OnceInv'
    <3>1. ASSUME NEW r, OlderThanRest(r) PROVE OlderThanRest(r)'
      BY <1>1, <1>4, <1>5, <3>1 DEF OlderThanRest
    <3> QED BY <1>1, <1>4, <1>7, <3>1 DEF RollupInv, OnceInv, Increasing
  <2>3. CoverInv'
    <3> SUFFICES ASSUME ~moved, budget >= 0
                 PROVE  /\ rotating = "no"
                        /\ \A l \in 1..started : Age(l) <= Longest => KeptOrAhead(l)'
      BY <1>1, <1>7 DEF CoverInv, Age
    <3>1. /\ rotating = "no"
          /\ \A l \in 1..started : Age(l) <= Longest => KeptOrAhead(l)
      BY <1>1 DEF RollupInv, CoverInv
    <3>2. k \notin Existing
      BY <1>7, <3>1 DEF Truncated
    <3>3. ASSUME NEW l, KeptOrAhead(l) PROVE KeptOrAhead(l)'
      <4>1. CASE \E i \in 1..Len(rows) : rows[i] = l
        BY <1>7, <4>1 DEF KeptOrAhead
      <4>2. CASE \E h \in 1..Len(walk) :
                    /\ walk[h] \in Existing
                    /\ \E a \in 1..Len(files[name[walk[h]]]) : files[name[walk[h]]][a] = l
        <5>1. PICK h \in 1..Len(walk) :
                    /\ walk[h] \in Existing
                    /\ \E a \in 1..Len(files[name[walk[h]]]) : files[name[walk[h]]][a] = l
          BY <4>2
        <5>2. h # 1
          BY <1>4, <3>2, <5>1
        <5>3. h - 1 \in 1..Len(walk') /\ walk'[h - 1] = walk[h]
          BY <1>4, <5>2
        <5> QED BY <1>1, <1>5, <5>1, <5>3 DEF KeptOrAhead
      <4> QED BY <3>3, <4>1, <4>2 DEF KeptOrAhead
    <3> QED BY <3>1, <3>3
  <2>4. AgeInv'
    BY <1>1, <1>7 DEF RollupInv, AgeInv, Age
  <2>5. NeverDoubleCounts' /\ CompleteWhenQuiet' /\ LongestFlagged'
    BY <1>1 DEF RollupInv, NeverDoubleCounts, CompleteWhenQuiet, LongestFlagged
  <2> QED BY <1>2, <2>1, <2>2, <2>3, <2>4, <2>5 DEF RollupInv
<1>8. CASE /\ k \in Existing /\ ~Truncated(k)
           /\ rows' = rows \o t /\ budget' = budget - Len(files[name[k]])
  <2> DEFINE s == files[name[k]]
  <2>1. /\ t \in Seq(Lines) /\ Len(t) \in Nat /\ Increasing(t)
        /\ \A i \in 1..Len(t) : Age(t[i]) <= Longest /\ \E j \in 1..Len(s) : s[j] = t[i]
        /\ Len(s) <= budget =>
             \A j \in 1..Len(s) : Age(s[j]) <= Longest => \E i \in 1..Len(t) : t[i] = s[j]
    <3> HIDE DEF k
    <3> QED BY <1>1, <1>8, AddsFacts DEF t
  <2>2. /\ rows' \in Seq(Lines)
        /\ \A i \in 1..Len(rows) : i \in 1..Len(rows') /\ rows'[i] = rows[i]
        /\ \A i \in 1..Len(t) : /\ Len(rows) + i \in 1..Len(rows')
                                /\ rows'[Len(rows) + i] = t[i]
        /\ \A i \in 1..Len(rows') : \/ i \in 1..Len(rows)
                                    \/ \E j \in 1..Len(t) : i = Len(rows) + j
        /\ /\ Increasing(rows) /\ Increasing(t)
           /\ \A i \in 1..Len(rows), j \in 1..Len(t) : rows[i] < t[j]
           => Increasing(rows')
    <3>1. rows \in Seq(Lines) /\ t \in Seq(Lines)
      BY <2>1
    <3>2. rows' = rows \o t
      BY <1>8
    <3> HIDE DEF k, s
    <3> QED BY ONLY <3>1, <3>2, Joined
  <2>3. /\ s \in Seq(Lines) /\ Len(s) \in Nat /\ Increasing(s)
        /\ \A a \in 1..Len(s) : s[a] \in Nat /\ s[a] <= written
    BY <1>8
  <2>4. budget' \in Int /\ budget' <= MaxBytes /\ (budget' >= 0 => Len(s) <= budget)
    BY <1>8, <2>3
  <2>5. TypeOK'
    BY <1>1, <1>2, <1>4, <2>2, <2>4 DEF RollupInv, TypeOK, LogInv
  <2>6. OnceInv'
    <3> SUFFICES ASSUME ~twice' PROVE /\ Increasing(rows')
                                      /\ \A i \in 1..Len(rows') : OlderThanRest(rows[i])'
      BY <1>1, <1>4 DEF OnceInv
    <3>1. /\ Increasing(rows) /\ \A i \in 1..Len(rows) : OlderThanRest(rows[i])
          /\ ~(k = 2 /\ rotating = "compressed")
      BY <1>1 DEF RollupInv, OnceInv
    <3>2. ~(k = 2 /\ Compressing)
      BY <1>8, <3>1 DEF Compressing, Truncated
    <3>3. ASSUME NEW i \in 1..Len(rows), NEW a \in 1..Len(s) PROVE rows[i] < s[a]
      <4>1. 1 \in 1..Len(walk) /\ k <= walk[1]
        BY <1>4
      <4> QED BY <1>8, <3>1, <4>1 DEF OlderThanRest
    <3>4. \A i \in 1..Len(rows), j \in 1..Len(t) : rows[i] < t[j]
      BY <2>1, <3>3
    <3>5. ASSUME NEW j \in Existing, NEW h \in 1..Len(walk'), j <= walk'[h]
          PROVE  j < k /\ name[j] > name[k]
      <4>1. j < k
        BY <1>4, <3>5
      <4> QED BY <1>8, <3>2, <4>1, PathOrder DEF RollupInv, Existing
    <3>6. ASSUME NEW a \in 1..Len(s), NEW j \in Existing, NEW h \in 1..Len(walk'),
                 j <= walk'[h], NEW b \in 1..Len(files[name[j]])
          PROVE  s[a] < files[name[j]][b]
      <4>1. name[k] < name[j] /\ name[k] \in Inodes /\ name[j] \in Inodes
        BY <1>8, <3>5, <3>6 DEF Inodes
      <4> QED BY <4>1 DEF RollupInv, LogInv, LinesInv
    <3>7. ASSUME NEW i \in 1..Len(rows')
          PROVE  /\ rows'[i] <= written
                 /\ \A j \in Existing, h \in 1..Len(walk') : j <= walk'[h] =>
                      \A b \in 1..Len(files[name[j]]) : rows'[i] < files[name[j]][b]
      <4>1. CASE i \in 1..Len(rows)
        <5>1. rows'[i] = rows[i] /\ OlderThanRest(rows[i])
          BY <2>2, <3>1, <4>1
        <5> QED BY <1>4, <5>1 DEF OlderThanRest
      <4>2. CASE \E j \in 1..Len(t) : i = Len(rows) + j
        <5>1. PICK j \in 1..Len(t) : rows'[i] = t[j]
          BY <2>2, <4>2
        <5>2. PICK a \in 1..Len(s) : rows'[i] = s[a]
          BY <2>1, <5>1
        <5> QED BY <2>3, <3>6, <5>2
      <4> QED BY <2>2, <4>1, <4>2
    <3>8. Increasing(rows')
      BY <2>1, <2>2, <3>1, <3>4
    <3>9. \A i \in 1..Len(rows') : OlderThanRest(rows[i])'
      BY <1>1, <1>5, <3>7 DEF OlderThanRest
    <3> QED BY <3>8, <3>9
  <2>7. CoverInv'
    <3> SUFFICES ASSUME ~moved
                 PROVE  /\ rotating = "no"
                        /\ budget' >= 0 =>
                             \A l \in 1..started : Age(l) <= Longest => KeptOrAhead(l)'
      BY <1>1 DEF CoverInv, Age
    <3>1. /\ rotating = "no"
          /\ \A l \in 1..started : Age(l) <= Longest => KeptOrAhead(l)
      BY <1>1 DEF RollupInv, CoverInv
    <3>2. ASSUME budget' >= 0, NEW l \in 1..started, Age(l) <= Longest, KeptOrAhead(l)
          PROVE  KeptOrAhead(l)'
      <4>1. CASE \E i \in 1..Len(rows) : rows[i] = l
        BY <2>2, <4>1 DEF KeptOrAhead
      <4>2. CASE \E h \in 1..Len(walk) :
                    /\ walk[h] \in Existing
                    /\ \E a \in 1..Len(files[name[walk[h]]]) : files[name[walk[h]]][a] = l
        <5>1. PICK h \in 1..Len(walk) :
                    /\ walk[h] \in Existing
                    /\ \E a \in 1..Len(files[name[walk[h]]]) : files[name[walk[h]]][a] = l
          BY <4>2
        <5>2. CASE h = 1
          <6>1. PICK j \in 1..Len(s) : s[j] = l
            BY <1>4, <5>1, <5>2
          <6>2. PICK i \in 1..Len(t) : t[i] = l
            BY <2>1, <2>4, <3>2, <6>1
          <6> QED BY <2>2, <6>2 DEF KeptOrAhead
        <5>3. CASE h # 1
          <6>1. h - 1 \in 1..Len(walk') /\ walk'[h - 1] = walk[h]
            BY <1>4, <5>3
          <6> QED BY <1>1, <1>5, <5>1, <6>1 DEF KeptOrAhead
        <5> QED BY <5>2, <5>3
      <4> QED BY <3>2, <4>1, <4>2 DEF KeptOrAhead
    <3> QED BY <3>1, <3>2
  <2>8. AgeInv'
    <3> SUFFICES ASSUME NEW i \in 1..Len(rows') PROVE Age(rows'[i]) <= Longest
      BY <1>1 DEF AgeInv, Age
    <3>1. CASE i \in 1..Len(rows)
      BY <2>2, <3>1 DEF RollupInv, AgeInv
    <3>2. CASE \E j \in 1..Len(t) : i = Len(rows) + j
      BY <2>1, <2>2, <3>2
    <3> QED BY <2>2, <3>1, <3>2
  <2>9. NeverDoubleCounts' /\ CompleteWhenQuiet' /\ LongestFlagged'
    BY <1>1 DEF RollupInv, NeverDoubleCounts, CompleteWhenQuiet, LongestFlagged
  <2> QED BY <1>2, <2>5, <2>6, <2>7, <2>8, <2>9 DEF RollupInv
<1> QED BY <1>6, <1>7, <1>8

\* The figures are computed from the rows.
LEMMA StepFinish == ASSUME RollupInv, Finish PROVE RollupInv'
<1> USE RollupFacts
<1>1. /\ UNCHANGED <<files, name, fd, written, rotations, rotating>>
      /\ UNCHANGED <<started, budget, rows, moved, twice>>
      /\ walk # None /\ (walk = <<>> \/ budget <= 0) /\ walk' = None
      /\ data' = [secs \in Windows |->
                  [requests |-> Len(Recent(secs, rows)), partial |-> Partial(secs),
                   lines |-> Recent(secs, rows), at |-> started, moved |-> moved,
                   twice |-> twice, starved |-> walk # <<>> \/ budget < 0]]
  BY DEF Finish, logVars
<1>2. LogInv' /\ LinesKept'
  BY <1>1, StepLog, StepKept DEF RollupInv, logVars
<1>3. /\ Longest \in Windows /\ Longest \in Nat \ {0}
      /\ \A secs \in Windows : secs \in Nat /\ secs <= Longest
  BY LongestFacts
<1>4. ASSUME NEW secs \in Windows
      PROVE  /\ data'[secs].lines = Recent(secs, rows)
             /\ data'[secs].at = started
             /\ (data'[secs].partial) <=> Partial(secs)
             /\ (data'[secs].moved) <=> moved
             /\ (data'[secs].twice) <=> twice
             /\ (data'[secs].starved) <=> (walk # <<>> \/ budget < 0)
  <2>1. data'[secs] = [requests |-> Len(Recent(secs, rows)), partial |-> Partial(secs),
                       lines |-> Recent(secs, rows), at |-> started, moved |-> moved,
                       twice |-> twice, starved |-> walk # <<>> \/ budget < 0]
    BY <1>1
  <2>2. ASSUME NEW a, NEW b, NEW c, NEW d, NEW e, NEW f, NEW g, NEW r,
               r = [requests |-> a, partial |-> b, lines |-> c, at |-> d, moved |-> e,
                    twice |-> f, starved |-> g]
        PROVE  r.partial = b /\ r.lines = c /\ r.at = d /\ r.moved = e
               /\ r.twice = f /\ r.starved = g
    BY ONLY <2>2
  <2>3. /\ data'[secs].partial = Partial(secs) /\ data'[secs].lines = Recent(secs, rows)
        /\ data'[secs].at = started /\ data'[secs].moved = moved
        /\ data'[secs].twice = twice /\ data'[secs].starved = (walk # <<>> \/ budget < 0)
    BY ONLY <2>1, <2>2
  <2> QED BY ONLY <2>3
<1>5. ASSUME NEW secs \in Windows
      PROVE  /\ Recent(secs, rows) \in Seq(Lines) /\ Len(Recent(secs, rows)) \in Nat
             /\ \A j \in 1..Len(rows) : Age(rows[j]) <= secs =>
                  \E i \in 1..Len(Recent(secs, rows)) : Recent(secs, rows)[i] = rows[j]
             /\ Increasing(rows) => Increasing(Recent(secs, rows))
  <2>1. rows \in Seq(Lines)
    OBVIOUS
  <2> QED BY ONLY <2>1, RecentFacts
<1>6. TypeOK'
  <2>1. ASSUME NEW secs \in Windows
        PROVE  [requests |-> Len(Recent(secs, rows)), partial |-> Partial(secs),
                lines |-> Recent(secs, rows), at |-> started, moved |-> moved,
                twice |-> twice, starved |-> walk # <<>> \/ budget < 0] \in WindowType
    <3>1. Partial(secs) \in BOOLEAN /\ (walk # <<>> \/ budget < 0) \in BOOLEAN
      BY DEF Partial
    <3> QED BY <1>5, <3>1 DEF WindowType
  <2>2. data' \in [Windows -> WindowType]
    BY <1>1, <2>1
  <2> QED BY <1>1, <1>2, <2>2 DEF RollupInv, TypeOK, LogInv
<1>7. OnceInv' /\ CoverInv'
  BY <1>1 DEF OnceInv, CoverInv
<1>8. AgeInv'
  BY <1>1 DEF RollupInv, AgeInv, Age
<1>9. NeverDoubleCounts'
  <2> SUFFICES ASSUME NEW secs \in Windows, ~twice
               PROVE  IsInjective(Recent(secs, rows))
    BY <1>4 DEF NeverDoubleCounts
  <2> DEFINE t == Recent(secs, rows)
  <2>1. t \in Seq(Lines) /\ Len(t) \in Nat /\ Increasing(t)
    BY <1>1, <1>5 DEF RollupInv, OnceInv
  <2> HIDE DEF t
  <2>2. /\ DOMAIN t = 1..Len(t)
        /\ \A i \in 1..Len(t) : t[i] \in Lines
    BY <2>1
  <2>3. \A i \in 1..Len(t) : t[i] \in Nat
    BY <2>2
  <2>4. \A i, j \in 1..Len(t) : t[i] = t[j] => i = j
    BY <2>1, <2>3 DEF Increasing
  <2> QED BY <2>2, <2>4 DEF IsInjective, t
<1>10. CompleteWhenQuiet'
  <2> SUFFICES ASSUME NEW secs \in Windows, ~moved, ~(walk # <<>> \/ budget < 0),
                      NEW l \in 1..started,
                      Clock[started] - Clock[l] <= secs
               PROVE  l \in Range(Recent(secs, rows))
    BY <1>4 DEF CompleteWhenQuiet
  <2>1. Age(l) <= secs /\ Age(l) <= Longest /\ budget >= 0
    <3>1. started \in 0..MaxLines /\ l \in 0..MaxLines /\ MaxLines \in Nat
      BY LogBounds DEF RollupInv, TypeOK
    <3>2. Clock[started] \in Nat /\ Clock[l] \in Nat
      BY <3>1, RollupAssumption
    <3> QED BY <1>3, <3>2 DEF Age
  <2>2. KeptOrAhead(l)
    BY <1>1, <2>1 DEF RollupInv, CoverInv
  <2>3. PICK j \in 1..Len(rows) : rows[j] = l
    <3>1. Len(walk) = 0
      OBVIOUS
    <3> QED BY <2>2, <3>1 DEF KeptOrAhead
  <2> DEFINE t == Recent(secs, rows)
  <2>4. PICK i \in 1..Len(t) : t[i] = l
    BY <1>5, <2>1, <2>3
  <2>5. DOMAIN t = 1..Len(t)
    BY <1>5
  <2> HIDE DEF t
  <2> QED BY <2>4, <2>5 DEF Range, t
<1>11. LongestFlagged'
  <2> DEFINE t == Recent(Longest, rows)
  <2> SUFFICES ASSUME ~Partial(Longest)
               PROVE  \E i \in 1..Len(t) : Clock[started] - Clock[t[i]] = Longest
    BY <1>3, <1>4 DEF LongestFlagged
  <2>1. ~(Longest > Coverage)
    BY DEF Partial
  <2>2. Len(rows) \in Nat /\ rows # <<>> /\ Len(rows) >= 1
    BY <1>3, <2>1 DEF Coverage
  <2> DEFINE A == {Age(rows[i]) : i \in 1..Len(rows)}
  <2>3. \A i \in 1..Len(rows) : Age(rows[i]) \in Int /\ Age(rows[i]) <= Longest
    <3>1. started \in 0..MaxLines /\ MaxLines \in Nat
      BY LogBounds DEF RollupInv, TypeOK
    <3>2. \A i \in 1..Len(rows) : rows[i] \in 0..MaxLines
      BY <1>3, <3>1 DEF Lines
    <3>3. \A k \in 0..MaxLines : Clock[k] \in Nat
      BY RollupAssumption
    <3>4. \A i \in 1..Len(rows) : Clock[started] \in Nat /\ Clock[rows[i]] \in Nat
      BY <3>1, <3>2, <3>3
    <3> QED BY <3>4 DEF Age, RollupInv, AgeInv
  <2>4. A \in SUBSET Int /\ A # {} /\ \A x \in A : x <= Longest
    BY <2>2, <2>3
  <2>5. Max(A) \in A
    <3> HIDE DEF A
    <3>1. Longest \in Int
      BY <1>3
    <3> QED BY <2>4, <3>1, MaxOfBounded
  <2>6. Coverage = Max(A)
    BY <2>2 DEF Coverage
  <2>7. PICK j \in 1..Len(rows) : Age(rows[j]) = Max(A)
    BY <2>5
  <2>8. Age(rows[j]) = Longest
    <3> HIDE DEF A
    <3> QED BY <1>3, <2>1, <2>3, <2>6, <2>7
  <2>9. Age(rows[j]) <= Longest
    BY <1>3, <2>8
  <2>10. PICK i \in 1..Len(t) : t[i] = rows[j]
    BY <1>3, <1>5, <2>9
  <2> HIDE DEF t
  <2> QED BY <2>8, <2>10 DEF Age
<1> QED BY <1>2, <1>6, <1>7, <1>8, <1>9, <1>10, <1>11 DEF RollupInv

\* The log moves on under a refresh: new lines are the youngest, and files
\* only move to suffixes the refresh has passed.
LEMMA StepRollupLog ==
    ASSUME RollupInv,
           \/ WriteLine /\ UNCHANGED rollupVars
           \/ Rotate /\ moved' = TRUE
                     /\ UNCHANGED <<walk, started, budget, rows, data, twice>>
    PROVE  RollupInv'
<1> USE RollupFacts
<1>1. /\ UNCHANGED <<walk, started, budget, rows, data, twice>>
      /\ moved' \in BOOLEAN
      /\ LogNext
      /\ \/ WriteLine /\ moved' = moved
         \/ Rotate /\ moved' = TRUE
  BY DEF rollupVars, LogNext
<1>2. LogInv' /\ LinesKept'
  BY <1>1, StepLog, StepKept DEF RollupInv
<1>3. TypeOK'
  BY <1>1, <1>2 DEF RollupInv, TypeOK, LogInv
<1>4. \/ files' = files /\ written' = written
      \/ /\ written' = written + 1 /\ UNCHANGED name /\ fd \in Inodes
         /\ files' = [files EXCEPT ![fd] = Append(@, written + 1)]
  BY <1>1 DEF LogNext, WriteLine, Rotate, BeginRotation, CompressEnd, Shift, Rename, Create,
         Reopen, RollupInv, LogInv, LogTypeOK
<1>5. ASSUME NEW i \in Inodes
      PROVE  /\ Len(files[i]) <= Len(files'[i]) /\ Len(files'[i]) \in Nat
             /\ \A a \in 1..Len(files[i]) : /\ a \in 1..Len(files'[i])
                                            /\ files'[i][a] = files[i][a]
             /\ \A a \in 1..Len(files'[i]) : a \notin 1..Len(files[i])
                                             => files'[i][a] = written + 1
  <2>1. CASE files' = files
    BY <2>1
  <2>2. CASE /\ files' = [files EXCEPT ![fd] = Append(files[fd], written + 1)]
             /\ fd \in Inodes
    <3>1. files \in [Inodes -> Seq(Lines)]
      BY DEF RollupInv, TypeOK, LogTypeOK
    <3>2. CASE i = fd
      BY <2>2, <3>1, <3>2
    <3>3. CASE i # fd
      BY <2>2, <3>1, <3>3
    <3> QED BY <3>2, <3>3
  <2> QED BY <1>4, <2>1, <2>2
<1>6. ASSUME walk # None, walk \in Seq(Paths), NEW r \in Nat, OlderThanRest(r)
      PROVE  OlderThanRest(r)'
  <2>1. r <= written /\ r < written + 1 /\ r <= written'
    BY <1>4, <1>6 DEF OlderThanRest
  <2>2. ASSUME NEW k \in Paths, name'[k] # None, NEW h \in 1..Len(walk), k <= walk[h],
               NEW a \in 1..Len(files'[name'[k]])
        PROVE  r < files'[name'[k]][a]
    <3>1. CASE name'[k] \in Inodes /\ files'[name'[k]] = <<>>
      BY <2>2, <3>1
    <3>2. CASE \E j \in Existing : j <= k /\ name[j] = name'[k]
      <4>1. PICK j \in Existing : j <= k /\ name[j] = name'[k]
        BY <3>2
      <4>2. j <= walk[h] /\ name[j] \in Inodes
        <5>1. walk[h] \in Nat /\ j \in Nat /\ k \in Nat
          <6>1. walk[h] \in Paths
            BY <1>6
          <6> QED BY <6>1
        <5> QED BY <2>2, <4>1, <5>1
      <4>3. CASE a \in 1..Len(files[name[j]])
        <5>1. r < files[name[j]][a]
          BY <1>6, <4>1, <4>2, <4>3 DEF OlderThanRest
        <5>2. files'[name[j]][a] = files[name[j]][a]
          BY <1>5, <4>2, <4>3
        <5> QED BY <4>1, <5>1, <5>2
      <4>4. CASE a \notin 1..Len(files[name[j]])
        BY <1>5, <2>1, <2>2, <4>1, <4>2, <4>4
      <4> QED BY <4>3, <4>4
    <3> QED BY <1>1, <2>2, <3>1, <3>2, SuffixesGrow DEF RollupInv
  <2> QED BY <1>1, <2>1, <2>2 DEF OlderThanRest, Existing
<1>7. OnceInv'
  BY <1>1, <1>6 DEF RollupInv, OnceInv, Increasing, Decreasing
<1>8. CoverInv'
  <2> SUFFICES ASSUME walk # None, ~(moved')
               PROVE  /\ rotating' = "no"
                      /\ budget >= 0 =>
                           \A l \in 1..started : Age(l) <= Longest => KeptOrAhead(l)'
    BY <1>1 DEF CoverInv, Age
  <2>1. WriteLine /\ ~moved /\ UNCHANGED <<name, rotating>>
    BY <1>1 DEF WriteLine
  <2>2. ASSUME NEW l, KeptOrAhead(l) PROVE KeptOrAhead(l)'
    <3>1. CASE \E i \in 1..Len(rows) : rows[i] = l
      BY <1>1, <3>1 DEF KeptOrAhead
    <3>2. CASE \E h \in 1..Len(walk) :
                 /\ walk[h] \in Existing
                 /\ \E a \in 1..Len(files[name[walk[h]]]) : files[name[walk[h]]][a] = l
      <4>1. PICK h \in 1..Len(walk) :
                 /\ walk[h] \in Existing
                 /\ \E a \in 1..Len(files[name[walk[h]]]) : files[name[walk[h]]][a] = l
        BY <3>2
      <4>2. PICK a \in 1..Len(files[name[walk[h]]]) : files[name[walk[h]]][a] = l
        BY <4>1
      <4>3. name[walk[h]] \in Inodes
        BY <4>1
      <4>4. /\ a \in 1..Len(files'[name[walk[h]]])
            /\ files'[name[walk[h]]][a] = l
        BY <1>5, <4>2, <4>3
      <4>5. walk[h] \in Existing'
        BY <2>1, <4>1 DEF Existing
      <4> QED BY <1>1, <2>1, <4>4, <4>5 DEF KeptOrAhead
    <3> QED BY <2>2, <3>1, <3>2 DEF KeptOrAhead
  <2> QED BY <2>1, <2>2 DEF RollupInv, CoverInv
<1>9. AgeInv'
  BY <1>1 DEF RollupInv, AgeInv, Age
<1>10. NeverDoubleCounts' /\ CompleteWhenQuiet' /\ LongestFlagged'
  BY <1>1 DEF RollupInv, NeverDoubleCounts, CompleteWhenQuiet, LongestFlagged
<1> QED BY <1>2, <1>3, <1>7, <1>8, <1>9, <1>10 DEF RollupInv

\* The invariant is inductive.
LEMMA StepRollupInv == RollupInv /\ [Next]_vars => RollupInv'
<1> SUFFICES ASSUME RollupInv, [Next]_vars PROVE RollupInv'
  OBVIOUS
<1>1. CASE UNCHANGED vars
  <2>1. UNCHANGED logVars /\ UNCHANGED rollupVars
    BY <1>1 DEF vars
  <2>2. UNCHANGED <<files, name, fd, written, rotations, rotating>>
    BY <2>1 DEF logVars
  <2>3. UNCHANGED <<walk, started, budget, rows, data, moved, twice>>
    BY <2>1 DEF rollupVars
  <2>4. LogInv' /\ LinesKept'
    BY <2>1, StepLog, StepKept DEF RollupInv
  <2>5. TypeOK'
    BY <2>2, <2>3, <2>4 DEF RollupInv, TypeOK, LogInv
  <2>6. OnceInv'
    BY <2>2, <2>3 DEF RollupInv, OnceInv, OlderThanRest, Existing, Increasing, Decreasing
  <2>7. CoverInv' /\ AgeInv'
    BY <2>2, <2>3 DEF RollupInv, CoverInv, AgeInv, KeptOrAhead, Existing, Age
  <2>8. NeverDoubleCounts' /\ CompleteWhenQuiet' /\ LongestFlagged'
    BY <2>3 DEF RollupInv, NeverDoubleCounts, CompleteWhenQuiet, LongestFlagged
  <2> QED BY <2>4, <2>5, <2>6, <2>7, <2>8 DEF RollupInv
<1> QED BY <1>1, StepBegin, StepReadFile, StepReadFails, StepFinish, StepRollupLog
        DEF Next, Refresh

-----------------------------------------------------------------------------
(* The theorems.                                                           *)

\* The invariant holds of every state of every behaviour.
LEMMA RollupInvCorrect == Spec => []RollupInv
BY InitRollupInv, StepRollupInv, PTL DEF Spec

\* Every variable of the roll-up has its type, the figures it publishes too.
THEOREM TypeCorrect == Spec => []TypeOK
<1>1. RollupInv => TypeOK
  BY DEF RollupInv
<1> QED BY <1>1, RollupInvCorrect, PTL

\* No window counts a request twice, however many rotations fall into the
\* walk and wherever, unless the refresh read a finished usage.log.1.gz while
\* usage.log.1 was still there.
THEOREM NeverDoubleCountsCorrect == Spec => []NeverDoubleCounts
<1>1. RollupInv => NeverDoubleCounts
  BY DEF RollupInv
<1> QED BY <1>1, RollupInvCorrect, PTL

\* A refresh that meets no rotation and has budget enough counts every
\* request of every window logged before it began, whichever rotations came
\* before and even when nginx was never told to reopen its log.
THEOREM CompleteWhenQuietCorrect == Spec => []CompleteWhenQuiet
<1>1. RollupInv => CompleteWhenQuiet
  BY DEF RollupInv
<1> QED BY <1>1, RollupInvCorrect, PTL

\* Every answer calls the longest window partial, however long the log, unless
\* a request is exactly that old: refresh() has dropped the older ones before
\* it looks for the oldest (server.py:516, 531, 550).  It is why
\* PartialMeansShort fails.
THEOREM LongestFlagIgnoresLog == Spec => []LongestFlagged
<1>1. RollupInv => LongestFlagged
  BY DEF RollupInv
<1> QED BY <1>1, RollupInvCorrect, PTL
=============================================================================
