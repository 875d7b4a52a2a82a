-------------------------- MODULE AccessTailProofs --------------------------
(***************************************************************************)
(* Proofs about AccessTail, for any number of requests and rotations, any  *)
(* capacity of the deque and any length of the first look back.            *)
(***************************************************************************)
EXTENDS AccessTail, UsageLogProofs

(***************************************************************************)
(* The inductive invariant.                                                *)
(*                                                                         *)
(* The inode a poll has seen is never younger than the newest there is,    *)
(* and each rotation the tail counted moved it to a younger one, which is  *)
(* why it cannot count more than there were.  While the tail's inode is    *)
(* still the live log's and nobody has emptied it, self.pos is inside it.  *)
(***************************************************************************)
PlaceInv ==
    /\ primed <=> inode # None
    /\ pc = "read" => primed
    /\ ~primed => rows = <<>> /\ turns = 0 /\ pos = 0
    /\ inode # None => inode <= Newest /\ turns <= inode
    /\ ~shrunk /\ inode # None /\ name[0] = inode => pos <= Len(Live)

(***************************************************************************)
(* A row is older than whatever the tail can still read: the younger       *)
(* files, what lies behind self.pos, and, when the file has shrunk below   *)
(* self.pos, all of it, because it was written since.                      *)
(***************************************************************************)
RowOrder(r) ==
    /\ r <= written
    /\ inode # None =>
         /\ \A k \in Inodes : k > inode => \A a \in 1..Len(files[k]) : r < files[k][a]
         /\ \A a \in 1..Len(files[inode]) :
                a > pos \/ Len(files[inode]) < pos => r < files[inode][a]

OrderInv ==
    ~torn => Increasing(rows) /\ \A i \in 1..Len(rows) : RowOrder(rows[i])

TailInv == TypeOK /\ LogInv /\ PlaceInv /\ OrderInv /\ TailContiguous

\* It holds before the first poll.
LEMMA InitTailInv == Init => TailInv
<1> SUFFICES ASSUME Init PROVE TailInv
  OBVIOUS
<1>1. LogInv
  BY InitLog DEF Init
<1>2. TypeOK
  <2>1. LogTypeOK
    BY <1>1 DEF LogInv
  <2>2. primed \in BOOLEAN /\ error \in BOOLEAN /\ torn \in BOOLEAN /\ shrunk \in BOOLEAN
    BY DEF Init
  <2>3. pos \in 0..MaxLines /\ turns \in 0..MaxRotations
    BY LogBounds DEF Init
  <2>4. rows \in Seq(Lines) /\ Len(rows) <= MaxRows
    BY TailAssumption DEF Init
  <2> QED BY <2>1, <2>2, <2>3, <2>4 DEF Init, TypeOK
<1>3. PlaceInv /\ OrderInv /\ TailContiguous
  BY NoneAssumption
     DEF Init, LogInit, PlaceInv, OrderInv, TailContiguous, Increasing, Live, Paths
<1> QED BY <1>1, <1>2, <1>3 DEF TailInv

\* What the deque holds after an extension: the newest rows of the old and
\* the new together.
LEMMA ExtendFacts ==
    ASSUME NEW s \in Seq(Lines), NEW t \in Seq(Lines)
    PROVE  /\ Extend(s, t) \in Seq(Lines) /\ Len(Extend(s, t)) <= MaxRows
           /\ \E d \in Nat : /\ Len(Extend(s, t)) + d = Len(s \o t)
                             /\ \A i \in 1..Len(Extend(s, t)) :
                                  Extend(s, t)[i] = (s \o t)[i + d]
<1> DEFINE all == s \o t
           n == Len(all)
           d == IF n <= MaxRows THEN 0 ELSE n - MaxRows
           e == Extend(s, t)
<1>1. all \in Seq(Lines) /\ n \in Nat /\ MaxRows \in Nat \ {0}
  BY TailAssumption
<1>2. e = IF n <= MaxRows THEN all ELSE SubSeq(all, n - MaxRows + 1, n)
  BY DEF Extend
<1>3. d \in Nat
  BY <1>1
<1> HIDE DEF all, e
<1>4. /\ e \in Seq(Lines) /\ Len(e) <= MaxRows /\ Len(e) + d = n
      /\ \A i \in 1..Len(e) : e[i] = all[i + d]
  BY <1>1, <1>2
<1> HIDE DEF d, n
<1> QED BY <1>3, <1>4 DEF all, n, e

\* The live log is the newest file there is.
LEMMA LiveName == LogInv => Newest \in Inodes /\ (name[0] # None => name[0] = Newest)
<1> SUFFICES ASSUME LogInv
             PROVE  Newest \in Inodes /\ (name[0] # None => name[0] = Newest)
  OBVIOUS
<1> QED BY NameFacts

\* What TailInv says of the live log, whose inode is the newest there is.
LEMMA LiveFacts ==
    ASSUME TailInv
    PROVE  /\ Inodes \subseteq Nat /\ None \notin Nat /\ None \notin Inodes
           /\ Newest \in Inodes /\ 0 \in Paths
           /\ name[0] # None => name[0] = Newest
           /\ name[0] = None <=> rotating = "renamed"
           /\ inode # None => inode \in Inodes
           /\ \A i \in Inodes : /\ files[i] \in Seq(Lines) /\ Len(files[i]) \in 0..MaxLines
                                /\ \A a \in 1..Len(files[i]) : /\ files[i][a] \in Lines
                                                               /\ files[i][a] \in Nat
           /\ pos \in Nat /\ written \in 0..MaxLines /\ MaxLines \in Nat
           /\ \A i \in 1..Len(rows) : rows[i] \in Lines /\ rows[i] \in Nat
<1>1. /\ Inodes \subseteq Nat /\ None \notin Nat /\ Newest \in Inodes /\ 0 \in Paths
      /\ name[0] = IF rotating = "renamed" THEN None ELSE Newest
  BY NameFacts DEF TailInv, Inodes
<1>2. /\ files \in [Inodes -> Seq(Lines)] /\ inode \in Inodes \cup {None}
      /\ written \in 0..MaxLines /\ MaxLines \in Nat /\ Lines \subseteq Nat
      /\ pos \in Nat /\ rows \in Seq(Lines)
  BY LogBounds DEF TailInv, TypeOK, LogTypeOK, Lines
<1>3. ASSUME NEW i \in Inodes
      PROVE  /\ files[i] \in Seq(Lines) /\ Len(files[i]) \in 0..MaxLines
             /\ \A a \in 1..Len(files[i]) : files[i][a] \in Lines /\ files[i][a] \in Nat
  <2>1. Len(files[i]) <= written /\ files[i] \in Seq(Lines)
    BY <1>2 DEF TailInv, LogInv, LinesInv
  <2>2. Len(files[i]) \in Nat /\ \A a \in 1..Len(files[i]) : files[i][a] \in Lines
    BY <2>1
  <2>3. Len(files[i]) \in 0..MaxLines
    BY <1>2, <2>1, <2>2
  <2> QED BY <1>2, <2>1, <2>2, <2>3
<1>4. /\ name[0] # None => name[0] = Newest
      /\ name[0] = None <=> rotating = "renamed"
  BY <1>1
<1>5. \A i \in 1..Len(rows) : rows[i] \in Lines /\ rows[i] \in Nat
  <2>1. \A i \in 1..Len(rows) : rows[i] \in Lines
    BY <1>2
  <2> QED BY <1>2, <2>1
<1>6. None \notin Inodes /\ (inode # None => inode \in Inodes)
  BY <1>1, <1>2
<1> QED BY <1>1, <1>2, <1>3, <1>4, <1>5, <1>6

\* A step of the log leaves the tail alone: it appends lines younger than all
\* rows, and a file the tail has left never becomes the live log again.
LEMMA StepTailLog ==
    ASSUME TailInv, LogNext, UNCHANGED tailVars
    PROVE  TailInv'
<1> USE LiveFacts
<1>1. LogInv'
  BY StepLog DEF TailInv
<1>2. UNCHANGED <<pc, pos, inode, primed, turns, rows, error, parsed, skipped, torn, shrunk>>
  BY DEF tailVars
<1>3. TypeOK'
  BY <1>1, <1>2 DEF TailInv, TypeOK, LogInv
<1>4. /\ Newest' \in Inodes /\ Newest <= Newest'
      /\ name'[0] # None => name'[0] = Newest'
  <2>1. Newest' \in Inodes /\ (name'[0] # None => name'[0] = Newest')
    <3>1. (Newest \in Inodes /\ (name[0] # None => name[0] = Newest))'
      BY <1>1, LiveName, PTL
    <3> QED BY <3>1
  <2>2. Newest <= Newest'
    BY DEF LogNext, WriteLine, Rotate, BeginRotation, CompressEnd, Shift, Rename, Create,
           Reopen, Newest, TailInv, LogInv, LogTypeOK
  <2> QED BY <2>1, <2>2
<1>5. inode # None /\ name'[0] = inode => name[0] = inode
  <2> SUFFICES ASSUME inode # None, name'[0] = inode, name[0] # inode PROVE FALSE
    OBVIOUS
  <2>1. inode = Newest' /\ inode <= Newest
    BY <1>4 DEF TailInv, PlaceInv
  <2>2. Newest' = Newest
    BY <1>4, <2>1
  <2>3. name[0] = None /\ rotating = "renamed"
    BY <2>1, <2>2
  <2>4. WriteLine \/ Create
    BY <2>3 DEF LogNext, Rotate, BeginRotation, CompressEnd, Shift, Rename, Create, Reopen
  <2>5. CASE WriteLine
    BY <2>3, <2>5 DEF WriteLine
  <2>6. CASE Create
    BY <2>2, <2>6 DEF Create, Newest, TailInv, LogInv, LogTypeOK
  <2> QED BY <2>4, <2>5, <2>6
<1>6. \/ files' = files /\ written' = written
      \/ /\ written' = written + 1 /\ UNCHANGED name /\ fd \in Inodes
         /\ files' = [files EXCEPT ![fd] = Append(@, written + 1)]
  BY DEF LogNext, WriteLine, Rotate, BeginRotation, CompressEnd, Shift, Rename, Create,
         Reopen, TailInv, LogInv, LogTypeOK
<1>7. ASSUME NEW i \in Inodes
      PROVE  /\ Len(files[i]) <= Len(files'[i]) /\ Len(files'[i]) \in Nat
             /\ \A a \in 1..Len(files[i]) : files'[i][a] = files[i][a]
             /\ \A a \in 1..Len(files'[i]) : a \notin 1..Len(files[i])
                                             => files'[i][a] = written + 1
  <2>1. CASE files' = files
    BY <2>1
  <2>2. CASE /\ files' = [files EXCEPT ![fd] = Append(files[fd], written + 1)]
             /\ fd \in Inodes
    <3>1. files \in [Inodes -> Seq(Lines)]
      BY DEF TailInv, TypeOK, LogTypeOK
    <3>2. CASE i = fd
      BY <2>2, <3>1, <3>2
    <3>3. CASE i # fd
      BY <2>2, <3>1, <3>3
    <3> QED BY <3>2, <3>3
  <2> QED BY <1>6, <2>1, <2>2
<1>8. written <= written' /\ written' \in Nat
  BY <1>6
<1>9. PlaceInv'
  <2>1. inode # None => inode <= Newest'
    BY <1>4 DEF TailInv, PlaceInv
  <2>2. ~shrunk /\ inode # None /\ name'[0] = inode => pos <= Len(files'[inode])
    BY <1>5, <1>7 DEF TailInv, PlaceInv, Live
  <2> QED BY <1>2, <2>1, <2>2 DEF TailInv, PlaceInv, Live
<1>10. ASSUME NEW r \in Nat, RowOrder(r), \E i \in 1..Len(rows) : r = rows[i] PROVE RowOrder(r)'
  <2>1. r <= written' /\ r < written + 1
    BY <1>8, <1>10 DEF RowOrder
  <2>2. ASSUME inode # None, NEW k \in Inodes, k > inode, NEW a \in 1..Len(files'[k])
        PROVE  r < files'[k][a]
    <3>1. CASE a \in 1..Len(files[k])
      BY <1>7, <1>10, <2>2, <3>1 DEF RowOrder
    <3>2. CASE a \notin 1..Len(files[k])
      BY <1>7, <2>1, <3>2
    <3> QED BY <3>1, <3>2
  <2>3. ASSUME inode # None, NEW a \in 1..Len(files'[inode]),
               a > pos \/ Len(files'[inode]) < pos
        PROVE  r < files'[inode][a]
    <3>1. CASE a \in 1..Len(files[inode])
      <4>1. a > pos \/ Len(files[inode]) < pos
        BY <1>7, <2>3
      <4> QED BY <1>7, <1>10, <2>3, <3>1, <4>1 DEF RowOrder
    <3>2. CASE a \notin 1..Len(files[inode])
      BY <1>7, <2>1, <2>3, <3>2
    <3> QED BY <3>1, <3>2
  <2> QED BY <1>2, <2>1, <2>2, <2>3 DEF RowOrder
<1>11. OrderInv'
  BY <1>2, <1>10 DEF TailInv, OrderInv
<1>12. TailContiguous'
  <2> SUFFICES ASSUME name'[0] # None, inode = name'[0], ~shrunk,
                      NEW i \in 1..Len(files'[inode]), i <= pos
               PROVE  files'[inode][i] \in parsed \cup skipped
    BY <1>2 DEF TailContiguous, Live
  <2>1. name[0] = inode /\ inode # None /\ pos <= Len(files[inode])
    BY <1>5 DEF TailInv, PlaceInv, Live
  <2>2. i \in 1..Len(files[inode]) /\ files'[inode][i] = files[inode][i]
    BY <1>7, <2>1
  <2> QED BY <2>1, <2>2 DEF TailInv, TailContiguous, Live
<1> QED BY <1>1, <1>3, <1>9, <1>11, <1>12 DEF TailInv

\* The file and its place in it, after the poll has looked.
LEMMA StepStat == ASSUME TailInv, Stat PROVE TailInv'
<1> USE LiveFacts
<1> DEFINE i == name[0]
<1>1. /\ i = Newest /\ i \in Inodes /\ UNCHANGED <<files, name, fd, written, rotations, rotating>>
      /\ UNCHANGED <<rows, error, parsed, torn>>
      /\ inode' = i /\ shrunk' = FALSE /\ primed' = TRUE /\ pc' = "read"
      /\ turns' = IF Rotated THEN turns + 1 ELSE turns
      /\ pos' = IF ~primed THEN PrimedPos ELSE IF StartOver THEN 0 ELSE pos
  BY DEF Stat, logVars
<1>2. LogInv'
  BY <1>1, StepLog DEF TailInv, logVars
<1>3. /\ primed <=> inode # None
      /\ ~primed => rows = <<>> /\ turns = 0 /\ pos = 0
      /\ inode # None => inode <= Newest /\ turns <= inode
      /\ turns \in Nat /\ PrimeTail \in Nat /\ Len(Live) \in 0..MaxLines
  BY <1>1, TailAssumption DEF TailInv, PlaceInv, TypeOK, Live
<1>4. pos' \in 0..Len(Live) /\ pos' \in Nat
  BY <1>1, <1>3 DEF PrimedPos, StartOver
<1>5. turns' <= i /\ turns' \in Nat
  BY <1>1, <1>3 DEF Rotated
<1>6. PlaceInv'
  BY <1>1, <1>4, <1>5 DEF PlaceInv, Newest, Live
<1>7. skipped' \subseteq Lines
  <2>1. \A a \in 1..Len(Live) : Live[a] \in Lines
    BY <1>1 DEF Live
  <2>2. PrimedPos \in 0..Len(Live)
    BY <1>3 DEF PrimedPos
  <2>3. ~StartOver => pos \in 0..Len(Live)
    BY <1>3 DEF StartOver
  <2>4. skipped \subseteq Lines
    BY DEF TailInv, TypeOK
  <2>5. skipped' = IF ~primed THEN {Live[a] : a \in 1..PrimedPos}
                   ELSE IF shrunk /\ ~StartOver
                   THEN skipped \cup {Live[a] : a \in 1..pos}
                   ELSE skipped
    BY DEF Stat
  <2>6. CASE ~primed
    BY <1>3, <2>1, <2>2, <2>5, <2>6
  <2>7. CASE primed /\ shrunk /\ ~StartOver
    BY <1>3, <2>1, <2>3, <2>4, <2>5, <2>7
  <2> QED BY <2>4, <2>5, <2>6, <2>7
<1>8. TypeOK'
  <2>1. i \in Nat /\ i <= MaxRotations /\ MaxRotations \in Nat
    BY <1>1, LogBounds DEF Inodes
  <2>2. turns' \in 0..MaxRotations
    <3> HIDE DEF i
    <3> QED BY <1>5, <2>1
  <2>3. pos' \in 0..MaxLines
    BY <1>3, <1>4
  <2> QED BY <1>1, <1>2, <1>7, <2>2, <2>3 DEF TailInv, TypeOK, LogInv
<1>9. ASSUME NEW r \in Nat, RowOrder(r), inode # None PROVE RowOrder(r)'
  <2>1. /\ r <= written
        /\ \A k \in Inodes : k > inode => \A a \in 1..Len(files[k]) : r < files[k][a]
        /\ \A a \in 1..Len(files[inode]) :
               a > pos \/ Len(files[inode]) < pos => r < files[inode][a]
    BY <1>9 DEF RowOrder
  <2>2. \A k \in Inodes : k > i => \A a \in 1..Len(files[k]) : r < files[k][a]
    BY <1>1, <1>3, <1>9, <2>1
  <2>3. ASSUME NEW a \in 1..Len(files[i]), a > pos' \/ Len(files[i]) < pos'
        PROVE  r < files[i][a]
    <3>1. CASE i # inode
      <4>1. i > inode
        BY <1>1, <1>3, <1>9, <3>1
      <4> QED BY <1>1, <2>1, <4>1
    <3>2. CASE i = inode
      <4>1. pos' = IF Len(Live) < pos THEN 0 ELSE pos
        BY <1>1, <1>3, <1>9, <3>2 DEF StartOver, Rotated
      <4>2. a > pos \/ Len(files[inode]) < pos
        BY <1>3, <1>4, <2>3, <3>2, <4>1 DEF Live
      <4> QED BY <2>1, <3>2, <4>2
    <3> QED BY <3>1, <3>2
  <2> HIDE DEF i
  <2> QED BY <1>1, <2>1, <2>2, <2>3 DEF RowOrder
<1>10. OrderInv'
  <2>1. CASE inode = None
    <3>1. rows' = <<>>
      BY <1>1, <1>3, <2>1
    <3> QED BY <3>1 DEF OrderInv, Increasing
  <2>2. CASE inode # None
    BY <1>1, <1>9, <2>2 DEF TailInv, OrderInv
  <2> QED BY <2>1, <2>2
<1>11. TailContiguous'
  <2> SUFFICES ASSUME NEW a \in 1..Len(Live), a <= pos'
               PROVE  Live[a] \in parsed \cup skipped'
    BY <1>1 DEF TailContiguous, Live
  <2>1. skipped' = IF ~primed THEN {Live[b] : b \in 1..PrimedPos}
                   ELSE IF shrunk /\ ~StartOver
                   THEN skipped \cup {Live[b] : b \in 1..pos}
                   ELSE skipped
    BY DEF Stat
  <2>2. CASE ~primed
    <3>1. a \in 1..PrimedPos
      BY <1>1, <1>4, <2>2
    <3> QED BY <2>1, <2>2, <3>1
  <2>3. CASE primed
    <3>1. ~StartOver /\ pos' = pos
      BY <1>1, <1>3, <2>3
    <3>2. CASE shrunk
      <4>1. a \in 1..pos
        BY <3>1
      <4> QED BY <2>1, <2>3, <3>1, <3>2, <4>1
    <3>3. CASE ~shrunk
      <4>1. inode = name[0] /\ name[0] # None
        BY <1>1, <1>3, <2>3, <3>1 DEF StartOver, Rotated
      <4>2. Live[a] \in parsed \cup skipped
        BY <3>1, <3>3, <4>1 DEF TailInv, TailContiguous
      <4> QED BY <2>1, <2>3, <3>3, <4>2
    <3> QED BY <3>2, <3>3
  <2> QED BY <2>2, <2>3
<1> QED BY <1>2, <1>6, <1>8, <1>10, <1>11 DEF TailInv

\* A failed stat, or a failed open, moves nothing.
LEMMA StepError == ASSUME TailInv, StatError \/ OpenError PROVE TailInv'
<1>1. /\ UNCHANGED <<logVars, pos, inode, primed, turns, rows, parsed, skipped, torn, shrunk>>
      /\ error' = TRUE /\ pc' = "stat"
  BY DEF StatError, OpenError
<1>2. UNCHANGED <<files, name, fd, written, rotations, rotating>>
  BY <1>1 DEF logVars
<1>3. LogInv'
  BY <1>1, StepLog DEF TailInv
<1>4. TypeOK'
  BY <1>1, <1>2, <1>3 DEF TailInv, TypeOK, LogInv
<1>5. PlaceInv'
  BY <1>1, <1>2 DEF TailInv, PlaceInv, Newest, Live
<1>6. OrderInv'
  <2>1. ASSUME NEW r, RowOrder(r) PROVE RowOrder(r)'
    BY <1>1, <1>2, <2>1 DEF RowOrder
  <2> QED BY <1>1, <2>1 DEF TailInv, OrderInv, Increasing
<1>7. TailContiguous'
  BY <1>1, <1>2 DEF TailInv, TailContiguous, Live
<1> QED BY <1>3, <1>4, <1>5, <1>6, <1>7 DEF TailInv

\* Someone empties the live log: no row moves, and nothing unread remains of
\* it for a row to be younger than.
LEMMA StepTruncate == ASSUME TailInv, Truncate PROVE TailInv'
<1> USE LiveFacts
<1>1. /\ UNCHANGED <<name, fd, written, rotations, rotating, pc, pos, inode,
                   primed, turns, rows, error, parsed, skipped, torn>>
      /\ shrunk' = TRUE /\ files' = [files EXCEPT ![name[0]] = <<>>]
      /\ name[0] # None /\ name[0] = Newest
  BY DEF Truncate
<1>2. LogInv'
  BY <1>1, StepEmpty DEF TailInv
<1>3. TypeOK'
  BY <1>1, <1>2 DEF TailInv, TypeOK, LogInv
<1>4. PlaceInv'
  BY <1>1 DEF TailInv, PlaceInv, Newest
<1>5. \A k \in Inodes : files'[k] = files[k] \/ Len(files'[k]) = 0
  BY <1>1 DEF TailInv, TypeOK, LogTypeOK
<1>6. ASSUME NEW r \in Nat, RowOrder(r) PROVE RowOrder(r)'
  <2>1. ASSUME NEW k \in Inodes, NEW a \in 1..Len(files'[k]) PROVE files'[k] = files[k]
    BY <1>5, <2>1
  <2>2. r <= written'
    BY <1>1, <1>6 DEF RowOrder
  <2>3. inode # None =>
         \A k \in Inodes : k > inode => \A a \in 1..Len(files'[k]) : r < files'[k][a]
    BY <1>6, <2>1 DEF RowOrder
  <2>4. inode # None =>
         \A a \in 1..Len(files'[inode]) :
                a > pos \/ Len(files'[inode]) < pos => r < files'[inode][a]
    BY <1>6, <2>1 DEF RowOrder
  <2> QED BY <1>1, <2>2, <2>3, <2>4 DEF RowOrder
<1>7. OrderInv'
  BY <1>1, <1>6 DEF TailInv, OrderInv, Increasing
<1>8. TailContiguous'
  BY <1>1 DEF TailContiguous
<1> QED BY <1>2, <1>3, <1>4, <1>7, <1>8 DEF TailInv

\* The lines behind self.pos.
Chunk == SubSeq(Live, pos + 1, Len(Live))

\* Which lines those are: none at all when the file ends before self.pos.
LEMMA ChunkFacts ==
    ASSUME TailInv, name[0] # None
    PROVE  /\ Live = files[Newest] /\ Len(Live) \in 0..MaxLines
           /\ Chunk \in Seq(Lines)
           /\ Len(Chunk) = IF Len(Live) > pos THEN Len(Live) - pos ELSE 0
           /\ \A a \in 1..Len(Chunk) : /\ pos + a \in 1..Len(Live)
                                       /\ Chunk[a] = Live[pos + a]
           /\ \A a \in 1..Len(Live) : a > pos => /\ a - pos \in 1..Len(Chunk)
                                                 /\ Chunk[a - pos] = Live[a]
<1>1. /\ Live = files[Newest] /\ Live \in Seq(Lines) /\ Len(Live) \in 0..MaxLines
      /\ pos \in Nat /\ MaxLines \in Nat
  BY LiveFacts DEF Live
<1> DEFINE m == Len(Live)
           p == pos + 1
<1>2. m \in Nat /\ p \in Nat /\ p >= 1
  BY <1>1
<1>3. CASE m >= p
  <2>1. /\ SubSeq(Live, p, m) \in Seq(Lines) /\ Len(SubSeq(Live, p, m)) = m - p + 1
        /\ \A a \in 1..(m - p + 1) : SubSeq(Live, p, m)[a] = Live[p + a - 1]
    BY <1>1, <1>2, <1>3
  <2>2. Len(Chunk) = m - pos /\ m > pos
    BY <1>1, <1>3, <2>1 DEF Chunk
  <2>3. \A a \in 1..Len(Chunk) : pos + a \in 1..m /\ Chunk[a] = Live[pos + a]
    <3> SUFFICES ASSUME NEW a \in 1..Len(Chunk)
                 PROVE  pos + a \in 1..m /\ Chunk[a] = Live[pos + a]
      OBVIOUS
    <3>1. a \in 1..(m - p + 1) /\ p + a - 1 = pos + a
      BY <1>1, <2>2
    <3> QED BY <1>1, <2>1, <2>2, <3>1 DEF Chunk
  <2>4. \A a \in 1..m : a > pos => a - pos \in 1..Len(Chunk) /\ Chunk[a - pos] = Live[a]
    BY <1>1, <2>2, <2>3
  <2> QED BY <1>1, <2>1, <2>2, <2>3, <2>4 DEF Chunk
<1>4. CASE m < p
  <2>1. SubSeq(Live, p, m) = <<>>
    BY <1>1, <1>2, <1>4
  <2> QED BY <1>1, <1>4, <2>1 DEF Chunk
<1> QED BY <1>2, <1>3, <1>4

\* The poll reads to the end of the file it looked at, or of another when the
\* log was rotated in between.
LEMMA StepRead == ASSUME TailInv, Read PROVE TailInv'
<1> USE LiveFacts
<1>1. /\ UNCHANGED <<files, name, fd, written, rotations, rotating>>
      /\ UNCHANGED <<inode, primed, turns, skipped, shrunk>>
      /\ name[0] # None /\ rows' = Extend(rows, Chunk) /\ error' = FALSE
      /\ parsed' = parsed \cup {Chunk[b] : b \in 1..Len(Chunk)}
      /\ pos' = IF Len(Live) > pos THEN Len(Live) ELSE pos
      /\ (torn') <=> (torn \/ name[0] # inode)
      /\ torn' \in BOOLEAN /\ pc' = "stat"
  BY DEF Read, ReadPos, Chunk, logVars, TailInv, TypeOK
<1>2. LogInv'
  BY <1>1, StepLog DEF TailInv, logVars
<1>3. /\ Live = files[Newest] /\ Len(Live) \in 0..MaxLines
      /\ Chunk \in Seq(Lines)
      /\ Len(Chunk) = IF Len(Live) > pos THEN Len(Live) - pos ELSE 0
      /\ \A a \in 1..Len(Chunk) : pos + a \in 1..Len(Live) /\ Chunk[a] = Live[pos + a]
      /\ \A a \in 1..Len(Live) : a > pos => /\ a - pos \in 1..Len(Chunk)
                                            /\ Chunk[a - pos] = Live[a]
  BY <1>1, ChunkFacts
<1>4. rows \in Seq(Lines)
  BY DEF TailInv, TypeOK
<1>5. /\ rows' \in Seq(Lines) /\ Len(rows') <= MaxRows
      /\ \E d \in Nat : /\ Len(rows') + d = Len(rows \o Chunk)
                        /\ \A i \in 1..Len(rows') : rows'[i] = (rows \o Chunk)[i + d]
  <2>1. /\ Extend(rows, Chunk) \in Seq(Lines) /\ Len(Extend(rows, Chunk)) <= MaxRows
        /\ \E d \in Nat : /\ Len(Extend(rows, Chunk)) + d = Len(rows \o Chunk)
                          /\ \A i \in 1..Len(Extend(rows, Chunk)) :
                               Extend(rows, Chunk)[i] = (rows \o Chunk)[i + d]
    BY <1>3, <1>4, ExtendFacts
  <2> QED BY <1>1, <2>1
<1>6. /\ pos' \in Nat /\ pos' >= pos /\ pos' \in 0..MaxLines
      /\ Live' = Live /\ Len(Live) <= pos'
  BY <1>1, <1>3 DEF TailInv, TypeOK, Live
<1>7. TypeOK'
  <2>1. parsed' \subseteq Lines
    BY <1>1, <1>3 DEF TailInv, TypeOK
  <2> QED BY <1>1, <1>2, <1>5, <1>6, <2>1 DEF TailInv, TypeOK, LogInv
<1>8. PlaceInv'
  <2>1. primed
    BY DEF Read, TailInv, PlaceInv
  <2>2. inode # None => inode <= Newest' /\ turns <= inode
    BY <1>1 DEF TailInv, PlaceInv, Newest
  <2>3. ~shrunk /\ inode # None /\ name[0] = inode => pos' <= Len(Live')
    BY <1>1, <1>3, <1>6 DEF TailInv, PlaceInv
  <2> QED BY <1>1, <2>1, <2>2, <2>3 DEF TailInv, PlaceInv
<1>9. OrderInv'
  <2> SUFFICES ASSUME ~torn, name[0] = inode
               PROVE  /\ Increasing(rows')
                      /\ \A i \in 1..Len(rows') : RowOrder(rows[i])'
    BY <1>1 DEF OrderInv
  <2> DEFINE all == rows \o Chunk
             n == Len(rows)
  <2> DEFINE place(a) == pos + (a - n)
  <2>1. /\ n \in Nat /\ Len(all) \in Nat
        /\ \A a \in 1..Len(all) : a \in 1..n \/ a \in (n + 1)..Len(all)
        /\ \A a \in 1..n : all[a] = rows[a] /\ rows[a] \in Nat
        /\ \A a \in (n + 1)..Len(all) : /\ place(a) \in 1..Len(Live) /\ place(a) > pos
                                        /\ all[a] = Live[place(a)]
        /\ \A a, b \in (n + 1)..Len(all) : a < b => place(a) < place(b)
    <3>0. n \in Nat /\ Len(Chunk) \in Nat
      BY <1>3, <1>4
    <3>1. n \in Nat /\ Len(Chunk) \in Nat /\ Len(all) = n + Len(Chunk)
      <4>1. ASSUME NEW s \in Seq(Lines), NEW t \in Seq(Lines)
            PROVE  Len(s \o t) = Len(s) + Len(t)
        OBVIOUS
      <4> QED BY <1>3, <1>4, <3>0, <4>1
    <3>2. \A a \in 1..n : all[a] = rows[a] /\ rows[a] \in Nat
      BY <1>3, <1>4
    <3>3. ASSUME NEW a \in (n + 1)..Len(all)
          PROVE  /\ place(a) \in 1..Len(Live) /\ place(a) > pos
                 /\ all[a] = Live[place(a)]
      <4> DEFINE c == a - n
      <4>1. c \in 1..Len(Chunk) /\ c \in Nat /\ c > 0
        BY <3>1
      <4>2. all[a] = Chunk[c]
        BY <1>3, <1>4, <3>1
      <4> HIDE DEF c, all
      <4>3. pos + c \in 1..Len(Live) /\ Chunk[c] = Live[pos + c] /\ pos + c > pos
        BY <1>3, <4>1
      <4> QED BY <4>2, <4>3 DEF c
    <3> HIDE DEF all, n
    <3>4. \A a, b \in (n + 1)..Len(all) : a < b => place(a) < place(b)
      BY <3>1
    <3> QED BY <3>1, <3>2, <3>3, <3>4
  <2>2. /\ Increasing(rows) /\ \A a \in 1..n : RowOrder(rows[a])
        /\ inode = Newest /\ inode # None
    BY <1>1 DEF TailInv, OrderInv
  <2>3. /\ Increasing(files[Newest])
        /\ \A a \in 1..Len(Live) : Live[a] <= written /\ Live[a] \in Nat
        /\ \A k \in Inodes : k > Newest =>
              \A a \in 1..Len(Live), b \in 1..Len(files[k]) : Live[a] < files[k][b]
    BY <1>3 DEF TailInv, LogInv, LinesInv
  <2> HIDE DEF all, n, place
  <2>4. ASSUME NEW a \in 1..Len(all), NEW b \in 1..Len(all), a < b PROVE all[a] < all[b]
    <3>1. CASE b \in 1..n
      BY <2>1, <2>2, <2>4, <3>1 DEF Increasing, n
    <3>2. CASE a \in 1..n /\ b \in (n + 1)..Len(all)
      <4>1. RowOrder(rows[a]) /\ rows[a] = all[a]
        BY <2>1, <2>2, <3>2
      <4>2. \A c \in 1..Len(files[inode]) :
               c > pos \/ Len(files[inode]) < pos => rows[a] < files[inode][c]
        BY <2>2, <4>1 DEF RowOrder
      <4>3. place(b) \in 1..Len(Live) /\ place(b) > pos /\ all[b] = Live[place(b)]
        BY <2>1, <3>2
      <4> QED BY <1>3, <2>2, <4>1, <4>2, <4>3
    <3>3. CASE a \in (n + 1)..Len(all) /\ b \in (n + 1)..Len(all)
      <4>1. /\ place(a) \in 1..Len(Live) /\ all[a] = Live[place(a)]
            /\ place(b) \in 1..Len(Live) /\ all[b] = Live[place(b)]
            /\ place(a) < place(b)
        BY <2>1, <2>4, <3>3
      <4> QED BY <1>3, <2>3, <4>1 DEF Increasing
    <3> QED BY <2>1, <2>4, <3>1, <3>2, <3>3
  <2>5. ASSUME NEW a \in 1..Len(all)
        PROVE  /\ all[a] <= written
               /\ \A k \in Inodes : k > inode =>
                     \A b \in 1..Len(files[k]) : all[a] < files[k][b]
               /\ \A b \in 1..Len(files[inode]) :
                     b > pos' \/ Len(files[inode]) < pos' => all[a] < files[inode][b]
    <3>1. CASE a \in 1..n
      <4>1. RowOrder(rows[a]) /\ all[a] = rows[a] /\ rows[a] \in Nat
        BY <2>1, <2>2, <3>1 DEF n
      <4>2. ASSUME NEW b \in 1..Len(files[inode]),
                   b > pos' \/ Len(files[inode]) < pos'
            PROVE  rows[a] < files[inode][b]
        <5>1. b > pos \/ Len(files[inode]) < pos
          BY <1>1, <1>3, <2>2, <4>2
        <5> QED BY <2>2, <4>1, <5>1 DEF RowOrder
      <4>3. /\ rows[a] <= written
            /\ \A k \in Inodes : k > inode => \A b \in 1..Len(files[k]) : rows[a] < files[k][b]
        BY <2>2, <4>1 DEF RowOrder
      <4> QED BY <4>1, <4>2, <4>3
    <3>2. CASE a \in (n + 1)..Len(all)
      <4>1. /\ place(a) \in 1..Len(Live) /\ all[a] = Live[place(a)] /\ place(a) > pos
        BY <2>1, <3>2
      <4>2. pos' = Len(Live)
        BY <1>1, <1>3, <4>1
      <4>3. /\ all[a] <= written /\ all[a] \in Nat
            /\ \A k \in Inodes : k > Newest =>
                  \A b \in 1..Len(files[k]) : all[a] < files[k][b]
        BY <2>3, <4>1
      <4>4. \A b \in 1..Len(files[inode]) :
                  ~(b > pos' \/ Len(files[inode]) < pos')
        BY <1>3, <2>2, <4>2
      <4> QED BY <2>2, <4>3, <4>4
    <3> QED BY <2>1, <3>1, <3>2
  <2>6. PICK d \in Nat : /\ Len(rows') + d = Len(all)
                         /\ \A i \in 1..Len(rows') : rows'[i] = all[i + d]
    BY <1>5 DEF all
  <2>7. \A i \in 1..Len(rows') : i + d \in 1..Len(all)
    BY <1>5, <2>1, <2>6
  <2>8. Increasing(rows')
    <3> SUFFICES ASSUME NEW i \in 1..Len(rows'), NEW j \in 1..Len(rows'), i < j
                 PROVE  rows'[i] < rows'[j]
      BY DEF Increasing
    <3>1. i + d \in 1..Len(all) /\ j + d \in 1..Len(all) /\ i + d < j + d
      BY <2>6, <2>7
    <3>2. all[i + d] < all[j + d]
      BY <2>4, <3>1 DEF Increasing
    <3> QED BY <2>6, <3>2
  <2>9. ASSUME NEW i \in 1..Len(rows') PROVE RowOrder(rows[i])'
    <3>1. rows'[i] = all[i + d] /\ i + d \in 1..Len(all)
      BY <2>6, <2>7
    <3>2. /\ rows'[i] <= written
          /\ \A k \in Inodes : k > inode =>
                \A b \in 1..Len(files[k]) : rows'[i] < files[k][b]
          /\ \A b \in 1..Len(files[inode]) :
                b > pos' \/ Len(files[inode]) < pos' => rows'[i] < files[inode][b]
      BY <2>5, <3>1
    <3> QED BY <1>1, <3>2 DEF RowOrder
  <2> QED BY <2>8, <2>9
<1>10. TailContiguous'
  <2> SUFFICES ASSUME inode = name[0], ~shrunk, NEW a \in 1..Len(Live), a <= pos'
               PROVE  Live[a] \in parsed' \cup skipped
    BY <1>1, <1>6 DEF TailContiguous
  <2>1. CASE a > pos
    BY <1>1, <1>3, <2>1
  <2>2. CASE a <= pos
    BY <1>1, <2>2 DEF TailInv, TailContiguous
  <2> QED BY <2>1, <2>2
<1> QED BY <1>2, <1>7, <1>8, <1>9, <1>10 DEF TailInv

\* The invariant is inductive: the log's steps, the poll's and a truncation.
LEMMA StepTailInv == TailInv /\ [Next]_vars => TailInv'
<1> SUFFICES ASSUME TailInv, [Next]_vars PROVE TailInv'
  OBVIOUS
<1>1. CASE UNCHANGED vars
  <2>1. UNCHANGED logVars /\ UNCHANGED tailVars
    BY <1>1 DEF vars
  <2>2. UNCHANGED <<files, name, fd, written, rotations, rotating>>
    BY <2>1 DEF logVars
  <2>3. LogInv'
    BY <2>1, StepLog DEF TailInv
  <2> QED BY <2>1, <2>2, <2>3
          DEF tailVars, TailInv, TypeOK, LogInv, PlaceInv, OrderInv, RowOrder, Increasing,
              TailContiguous, Newest, Live
<1> QED BY <1>1, StepTailLog, StepStat, StepError, StepRead, StepTruncate DEF Next, Poll

-----------------------------------------------------------------------------
(* The theorems.                                                           *)

\* It holds of every state of every behaviour.
LEMMA TailInvCorrect == Spec => []TailInv
BY InitTailInv, StepTailInv, PTL DEF Spec

\* Every variable of the tail has its type: the deque never holds more than
\* its capacity, and the inode it watches is one the log has had.
THEOREM TypeCorrect == Spec => []TypeOK
<1>1. TailInv => TypeOK
  BY DEF TailInv
<1> QED BY <1>1, TailInvCorrect, PTL

\* Whatever the rotations, truncations and writes between a poll's stat and
\* its open, and between polls, no request is in the deque twice and the rows
\* are in the order of the log, unless a poll opened a file other than the
\* one it had looked at.
THEOREM CountedOnceInOrderCorrect == Spec => []CountedOnceInOrder
<1>1. TailInv => CountedOnceInOrder
  BY DEF TailInv, OrderInv, Increasing, CountedOnceInOrder
<1> QED BY <1>1, TailInvCorrect, PTL

\* Everything before self.pos in the file the tail watches has been parsed,
\* or was deliberately stepped over.
THEOREM TailContiguousCorrect == Spec => []TailContiguous
<1>1. TailInv => TailContiguous
  BY DEF TailInv
<1> QED BY <1>1, TailInvCorrect, PTL

\* The page never reports a rotation that did not happen, though a poll may
\* miss several.
THEOREM RotationsRealCorrect == Spec => []RotationsReal
<1>1. TailInv => RotationsReal
  <2> SUFFICES ASSUME TailInv PROVE turns <= rotations
    BY DEF RotationsReal
  <2>1. /\ primed <=> inode # None
        /\ ~primed => rows = <<>> /\ turns = 0 /\ pos = 0
        /\ inode # None => inode <= Newest /\ turns <= inode
    BY DEF TailInv, PlaceInv
  <2>2. rotations \in Nat /\ turns \in Nat
    BY DEF TailInv, TypeOK, LogTypeOK
  <2>3. CASE inode = None
    BY <2>1, <2>2, <2>3
  <2>4. CASE inode # None
    <3>1. inode \in Nat /\ Newest <= rotations /\ Newest \in Nat
      BY <2>2, <2>4, LiveFacts DEF Newest
    <3> QED BY <2>1, <2>2, <2>4, <3>1
  <2> QED BY <2>3, <2>4
<1> QED BY <1>1, TailInvCorrect, PTL
=============================================================================
