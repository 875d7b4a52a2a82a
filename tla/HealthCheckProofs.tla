------------------------- MODULE HealthCheckProofs -------------------------
(***************************************************************************)
(* Type correctness of HealthCheck, its refinement of HealthReport, and    *)
(* its four invariants, for every selection of sections, load and number   *)
(* of keys.                                                                *)
(***************************************************************************)
EXTENDS HealthCheck, FiniteSetTheorems, SequenceTheorems, TLAPS

Hows == {"once", "every", "last", "turns", "alias", "seen", "alike", "agree",
         "surfaces", "graded", "frames", "linear", "steady", "billing",
         "correct", "load", "spread"}

IsCheck(c) == /\ c.how \in Hows /\ c.bad \in {"WARN", "FAIL"}
              /\ Len(c.via) \in Nat
IsPlan(p) == /\ Len(p) \in 1..18
             /\ \A c \in 1..Len(p) : IsCheck(p[c])

\* How many requests a check of that many makes.
LEMMA TimesLength == \A n \in Nat : \A via : Len(Times(n, via)) = n
  BY DEF Times

\* The constructors give checks.
LEMMA SingleCheck ==
    ASSUME NEW pass, NEW bad \in {"WARN", "FAIL"}
    PROVE  /\ IsCheck(Once(pass, bad))
           /\ IsCheck(Read(pass, bad))
           /\ IsCheck(Stream(pass, bad))
  BY DEF IsCheck, Once, Read, Stream, Hows

\* So does the one for checks of several requests.
LEMMA MultiCheck ==
    ASSUME NEW how \in Hows, NEW via, Len(via) \in Nat, NEW pass,
           NEW bad \in {"WARN", "FAIL"}
    PROVE  IsCheck(Multi(how, via, pass, bad))
  BY DEF IsCheck, Multi

\* The tables are made of checks, section by section.
LEMMA PlansOK ==
    /\ IsPlan(PlanA) /\ IsPlan(PlanB) /\ IsPlan(PlanC) /\ IsPlan(PlanD)
    /\ IsPlan(PlanE) /\ IsPlan(PlanF) /\ IsPlan(PlanG) /\ IsPlan(PlanH)
    /\ IsPlan(PlanI) /\ IsPlan(PlanJ) /\ IsPlan(PlanK) /\ IsPlan(PlanL)
    /\ IsPlan(PlanM) /\ IsPlan(PlanN) /\ IsPlan(PlanS)
  <1>1. /\ Len(<<>>) \in Nat /\ Len(<<"plain">>) \in Nat
        /\ Len(<<"stream", "plain">>) \in Nat /\ Len(<<"plain", "payload">>) \in Nat
        /\ Len(<<"late", "stream">>) \in Nat
        /\ \A n \in Nat : \A via : Len(Times(n, via)) \in Nat
    BY TimesLength
  <1>2. 2 \in Nat /\ 3 \in Nat /\ 5 \in Nat /\ 6 \in Nat /\ NumKeys \in Nat
    BY LoadAssumption
  <1> USE SingleCheck, MultiCheck, <1>1, <1>2 DEF Hows, IsPlan
  <1>a. IsPlan(PlanA) BY DEF PlanA
  <1>b. IsPlan(PlanB)
    <2>1. \A i \in 1..11 :
             IsCheck(Once(IF Params[i] = "2xx" THEN Serve ELSE Refuse, "FAIL"))
      BY SingleCheck
    <2> QED BY <2>1 DEF PlanB
  <1>c. IsPlan(PlanC) BY DEF PlanC
  <1>d. IsPlan(PlanD) BY DEF PlanD
  <1>e. IsPlan(PlanE) BY DEF PlanE, Times
  <1>f. IsPlan(PlanF) BY DEF PlanF
  <1>g. IsPlan(PlanG) BY DEF PlanG
  <1>h. IsPlan(PlanH) BY DEF PlanH
  <1>i. IsPlan(PlanI) BY DEF PlanI
  <1>j. IsPlan(PlanJ) BY DEF PlanJ
  <1>k. IsPlan(PlanK) BY DEF PlanK
  <1>l. IsPlan(PlanL) BY DEF PlanL
  <1>m. IsPlan(PlanM) BY DEF PlanM
  <1>n. IsPlan(PlanN) BY DEF PlanN
  <1>s. IsPlan(PlanS) BY DEF PlanS, Times
  <1> QED BY <1>a, <1>b, <1>c, <1>d, <1>e, <1>f, <1>g, <1>h, <1>i, <1>j,
             <1>k, <1>l, <1>m, <1>n, <1>s

\* Each section's table is one of them.
LEMMA PlanOK == ASSUME NEW s \in Sections PROVE IsPlan(Plan[s])
  BY PlansOK DEF Sections, Plan

\* No section has more than eighteen checks.
LEMMA PlanLength == \A s \in Sections : Checks(s) \in 1..18
  <1> TAKE s \in Sections
  <1>1. IsPlan(Plan[s]) BY PlanOK
  <1> DEFINE p == Plan[s]
  <1>2. IsPlan(p) BY <1>1
  <1> HIDE DEF p
  <1>3. Len(p) \in 1..18 BY <1>2 DEF IsPlan
  <1> QED BY <1>3 DEF p, Checks

\* A verdict is one of the four statuses.
LEMMA VerdictOK ==
    ASSUME IsCheck(Doing) PROVE Verdict \in Statuses
  BY DEF Verdict, Tally, IsCheck, Hows, Statuses

-----------------------------------------------------------------------------
\* Whatever the endpoint does, the program gets one of the replies.
LEMMA ReplyOK ==
    ASSUME TypeOK PROVE \A via : Returned(mode, via) \in Replies
  BY DEF TypeOK, Returned, Replies

\* So the replies of a check stay a sequence of replies.
LEMMA GotOK == ASSUME TypeOK PROVE Got \in Seq(Replies)
  <1>1. heard \in Seq(Replies) BY DEF TypeOK
  <1>2. \A r \in Replies : Append(heard, r) \in Seq(Replies) BY <1>1
  <1> QED BY <1>2, ReplyOK DEF Got

\* The running section and check are in the tables.
LEMMA Running ==
    ASSUME TypeOK, section # None
    PROVE  section \in Sections /\ check \in 1..Checks(section)
  BY DEF TypeOK

\* The running check is one of the tables'.
LEMMA RunningCheck ==
    ASSUME TypeOK, section # None PROVE IsCheck(Doing)
  <1>1. section \in Sections /\ check \in 1..Len(Plan[section])
    BY Running DEF Checks
  <1>2. IsPlan(Plan[section]) BY <1>1, PlanOK
  <1> QED BY <1>1, <1>2 DEF IsPlan, Doing

\* A check that is not the last has a successor in its section.
LEMMA NextCheck ==
    ASSUME NEW s \in Sections, NEW c \in 1..Checks(s)
    PROVE  c \in 1..18 /\ (c # Checks(s) => c + 1 \in 1..Checks(s) /\ c + 1 \in 0..18)
  <1>1. Checks(s) \in 1..18 BY PlanLength
  <1> QED BY <1>1

\* A reported row keeps the report well-formed and leaves the section or moves
\* to its next check.
LEMMA ReportOK ==
    ASSUME TypeOK, section # None, NEW status \in Statuses, Report(status)
    PROVE  TypeOK'
  <1>1. section \in Sections /\ check \in 1..Checks(section) BY Running
  <1>2. rows' \in Seq(Rows)
    <2>1. check \in 0..18 BY DEF TypeOK
    <2>2. [sec |-> section, check |-> check, status |-> status,
           heard |-> heard] \in Rows
      BY <1>1, <2>1 DEF Rows, TypeOK
    <2> QED BY <2>2 DEF Report, TypeOK
  <1>3. section' \in (Sections \cup {None}) \ todo'
    BY SelectionsAssumption DEF Report, TypeOK
  <1>4. check' \in 0..18 /\ (section' # None => check' \in 1..Checks(section'))
    <2>1. CASE check = Checks(section) BY <2>1 DEF Report
    <2>2. CASE check # Checks(section)
      <3>1. section' = section /\ check' = check + 1 BY <2>2 DEF Report
      <3> QED BY <1>1, <2>2, <3>1, NextCheck
    <2> QED BY <2>1, <2>2
  <1>5. chosen' # None BY DEF Report, TypeOK
  <1> QED BY <1>2, <1>3, <1>4, <1>5 DEF Report, endpoint, TypeOK

\* Every step of the program and of the endpoint keeps the types.
THEOREM StepTypeOK == TypeOK /\ [Next]_vars => TypeOK'
  <1> SUFFICES ASSUME TypeOK, [Next]_vars PROVE TypeOK'
    OBVIOUS
  <1>3. ASSUME NEW s \in todo, Enter(s) PROVE TypeOK'
    <2>1. s \in Sections BY DEF TypeOK
    <2>2. Checks(s) \in 1..18 BY <2>1, PlanLength
    <2>3. 1 \in 1..Checks(s) /\ 1 \in 0..18 BY <2>2
    <2>4. section' = s /\ check' = 1 /\ todo' = todo \ {s} BY <1>3 DEF Enter
    <2>5. chosen' # None BY <1>3 DEF Enter, TypeOK
    <2> QED BY <1>3, <2>1, <2>3, <2>4, <2>5 DEF Enter, TypeOK, endpoint
  <1> USE DEF TypeOK, report, endpoint
  <1>1. CASE NoKeys BY <1>1 DEF NoKeys
  <1>2. CASE Start BY <1>2, SelectionsAssumption DEF Start
  <1>4. CASE Ask BY <1>4, GotOK DEF Ask
  <1>5. CASE Crash
    <2>1. [sec |-> section, check |-> 0, status |-> "FAIL", heard |-> Got]
             \in Rows
      BY <1>5, GotOK DEF Crash, Rows, Statuses
    <2>2. rows' \in Seq(Rows) BY <1>5, <2>1 DEF Crash
    <2>3. heard' \in Seq(Replies) BY <1>5 DEF Crash
    <2> QED BY <1>5, <2>2, <2>3, SelectionsAssumption DEF Crash
  <1>6. CASE Judge
    <2>1. IsCheck(Doing) BY <1>6, RunningCheck DEF Judge
    <2> QED BY <1>6, <2>1, VerdictOK, ReportOK DEF Judge
  <1>7. CASE LeftOut
    <2>1. section # None
      BY <1>7, SelectionsAssumption DEF LeftOut, Sections
    <2> QED BY <1>7, <2>1, ReportOK DEF LeftOut, Statuses
  <1>8. CASE StartBatch
    <2>1. LeastOf(Concurrency, Total - pool.started) \in 0..Concurrency
      BY <1>8, LoadAssumption DEF StartBatch, LeastOf
    <2>2. pool.started + LeastOf(Concurrency, Total - pool.started) \in 0..Total
      BY <1>8, LoadAssumption DEF StartBatch, LeastOf
    <2> QED BY <1>8, <2>1, <2>2 DEF StartBatch
  <1>9. CASE WorkerAnswers
    <2>1. Append(pool.results, Returned(mode, "plain")) \in Seq(Replies)
      BY ReplyOK
    <2>2. pool.alive - 1 \in 0..Concurrency
      BY <1>9, LoadAssumption DEF WorkerAnswers
    <2> QED BY <1>9, <2>1, <2>2 DEF WorkerAnswers
  <1>10. CASE WorkerDies
    <2>1. pool.alive - 1 \in 0..Concurrency
      BY <1>10, LoadAssumption DEF WorkerDies
    <2> QED BY <1>10, <2>1 DEF WorkerDies
  <1>11. CASE JoinBatch BY <1>11, LoadAssumption DEF JoinBatch
  <1>12. CASE Finish BY <1>12 DEF Finish
  <1>13. CASE CannotWrite BY <1>13 DEF CannotWrite
  <1>14. CASE Change BY <1>14, LoadAssumption DEF Change
  <1>15. CASE UNCHANGED vars BY <1>15 DEF vars
  <1> QED BY <1>1, <1>2, <1>3, <1>4, <1>5, <1>6, <1>7, <1>8, <1>9, <1>10,
             <1>11, <1>12, <1>13, <1>14, <1>15 DEF Next, Program

\* Every run keeps its report, its place in the sections and its threads within
\* their types (kvv_health.py:67-88, 994-1020, 1311-1324).
THEOREM TypeCorrect == Spec => []TypeOK
  <1>1. Init => TypeOK
    BY LoadAssumption, SelectionsAssumption DEF Init, TypeOK, NoLoad
  <1> QED BY <1>1, StepTypeOK, PTL DEF Spec

-----------------------------------------------------------------------------
(***************************************************************************)
(* The refinement.  Only a row added to the report changes what the rows   *)
(* say of the sections; the rest of a step is seen in Left and exit.       *)
(***************************************************************************)
LEMMA RowAdded ==
    ASSUME TypeOK, NEW r \in Rows, rows' = Append(rows, r)
    PROVE  /\ Full' = IF r.check = Checks(r.sec) THEN Full \cup {r.sec} ELSE Full
           /\ Cut' = IF r.check = 0 THEN Cut \cup {r.sec} ELSE Cut
           /\ Failed' = (Failed \/ r.status = "FAIL")
  <1>1. /\ rows \in Seq(Rows) /\ Len(rows) \in Nat
        /\ DOMAIN rows = 1..Len(rows)
        /\ DOMAIN rows' = 1..(Len(rows) + 1)
        /\ rows'[Len(rows) + 1] = r
        /\ \A i \in 1..Len(rows) : rows'[i] = rows[i]
    BY DEF TypeOK
  <1>2. r.sec \in Sections BY DEF Rows
  <1>3. \A i \in DOMAIN rows' : i \in DOMAIN rows \/ i = Len(rows) + 1
    BY <1>1
  <1>4. DOMAIN rows \subseteq DOMAIN rows' /\ Len(rows) + 1 \in DOMAIN rows'
    BY <1>1
  <1> DEFINE n == Len(rows) + 1
  <1>5. /\ \A i \in DOMAIN rows' : i \in DOMAIN rows \/ i = n
        /\ n \in DOMAIN rows' /\ rows'[n] = r
        /\ \A i \in DOMAIN rows : i \in DOMAIN rows' /\ rows'[i] = rows[i]
    BY <1>1, <1>3, <1>4
  <1> HIDE DEF n
  <1>6. Full' = IF r.check = Checks(r.sec) THEN Full \cup {r.sec} ELSE Full
    BY <1>2, <1>5, Zenon DEF Full
  <1>7. Cut' = IF r.check = 0 THEN Cut \cup {r.sec} ELSE Cut
    BY <1>2, <1>5, Zenon DEF Cut
  <1>8. Failed' = (Failed \/ r.status = "FAIL")
    BY <1>5, Zenon DEF Failed
  <1> QED BY <1>6, <1>7, <1>8

\* A step that leaves the report alone is a stutter of the promise.
LEMMA Quiet ==
    ASSUME UNCHANGED report PROVE UNCHANGED Promise!vars
  BY DEF report, Promise!vars, Full, Cut, Failed, Left

\* What the rows say is a matter of the rows only.
LEMMA RowsSame ==
    ASSUME UNCHANGED rows PROVE UNCHANGED <<Full, Cut, Failed>>
  BY DEF Full, Cut, Failed

\* A row of the running check fails, completes its section, or neither.
LEMMA ReportStep ==
    ASSUME TypeOK, section # None, NEW status \in Statuses, Report(status)
    PROVE  [Promise!Next]_Promise!vars
  <1>1. section \in Sections /\ check \in 1..Checks(section) BY Running
  <1> DEFINE r == [sec |-> section, check |-> check, status |-> status,
                   heard |-> heard]
  <1>2. r \in Rows /\ check # 0
    <2>1. check \in 0..18 /\ heard \in Seq(Replies) BY DEF TypeOK
    <2>2. check # 0 BY <1>1, NextCheck
    <2> QED BY <1>1, <2>1, <2>2 DEF Rows
  <1>3. rows' = Append(rows, r) BY DEF Report
  <1>4. /\ Full' = IF check = Checks(section) THEN Full \cup {section} ELSE Full
        /\ Cut' = Cut
        /\ Failed' = (Failed \/ status = "FAIL")
    BY <1>2, <1>3, RowAdded
  <1>5. Failed' \in {Failed, TRUE}
    <2>1. Failed' = TRUE \/ Failed' = FALSE BY Zenon DEF Failed
    <2>2. Failed = TRUE \/ Failed = FALSE BY Zenon DEF Failed
    <2> QED BY <1>4, <2>1, <2>2
  <1>6. /\ UNCHANGED <<chosen, exit>> /\ todo' = todo
        /\ section \in Left /\ section \notin todo
    BY DEF Report, Left, TypeOK
  <1>7. CASE check = Checks(section)
    <2>1. Left' = Left \ {section} BY <1>6, <1>7 DEF Report, Left
    <2>2. Promise!Complete(section)
      BY <1>4, <1>5, <1>6, <1>7, <2>1 DEF Promise!Complete
    <2> QED BY <1>6, <2>2 DEF Promise!Next
  <1>8. CASE check # Checks(section)
    <2>1. Left' = Left BY <1>6, <1>8 DEF Report, Left
    <2>2. CASE Failed' = Failed
      BY <1>4, <1>6, <1>8, <2>1, <2>2 DEF Promise!vars
    <2>3. CASE Failed'
      BY <1>4, <1>6, <1>8, <2>1, <2>3 DEF Promise!Next, Promise!Fail
    <2> QED BY <1>5, <2>2, <2>3
  <1> QED BY <1>7, <1>8

\* A crash cuts the section short.
LEMMA CrashStep ==
    ASSUME TypeOK, Crash PROVE Promise!Next
  <1>1. section \in Sections /\ check \in 1..Checks(section)
    BY Running DEF Crash
  <1> DEFINE r == [sec |-> section, check |-> 0, status |-> "FAIL",
                   heard |-> Got]
  <1>2. r \in Rows BY <1>1, GotOK DEF Rows, Statuses
  <1>3. rows' = Append(rows, r) BY DEF Crash
  <1>4. 0 # Checks(section) BY <1>1, PlanLength
  <1>5. Full' = Full /\ Cut' = Cut \cup {section} /\ Failed'
    BY <1>2, <1>3, <1>4, RowAdded
  <1>6. /\ UNCHANGED <<chosen, exit>>
        /\ section \in Left /\ Left' = Left \ {section}
    BY DEF Crash, Left, TypeOK
  <1>7. Promise!CutShort(section) BY <1>5, <1>6 DEF Promise!CutShort
  <1> QED BY <1>6, <1>7 DEF Promise!Next

\* Every step is a step of the promise, or none of its business.
LEMMA StepImplements == TypeOK /\ [Next]_vars => [Promise!Next]_Promise!vars
  <1> SUFFICES ASSUME TypeOK, [Next]_vars
               PROVE  [Promise!Next]_Promise!vars
    OBVIOUS
  <1> USE DEF report, endpoint
  <1>1. CASE NoKeys
    <2>1. Promise!GiveUp BY <1>1, RowsSame DEF NoKeys, Promise!GiveUp, Left
    <2> QED BY <2>1 DEF Promise!Next
  <1>2. CASE Start
    <2>1. Left = {} /\ section = None /\ section' = None
      BY <1>2 DEF Start, TypeOK, Left
    <2>2. chosen' \in SUBSET Sections /\ Left' = chosen'
      BY <1>2, <2>1, SelectionsAssumption DEF Start, Left
    <2>3. Promise!Choose BY <1>2, <2>2, RowsSame DEF Start, Promise!Choose
    <2> QED BY <2>3 DEF Promise!Next
  <1>3. ASSUME NEW s \in todo, Enter(s) PROVE UNCHANGED Promise!vars
    <2>1. Left' = Left
      BY <1>3, SelectionsAssumption DEF Enter, Left, TypeOK
    <2> QED BY <1>3, <2>1, RowsSame DEF Enter, Promise!vars
  <1>4. CASE Ask BY <1>4, Quiet DEF Ask
  <1>5. CASE Crash BY <1>5, CrashStep
  <1>6. CASE Judge
    <2>1. section # None /\ Report(Verdict) BY <1>6 DEF Judge
    <2>2. Verdict \in Statuses BY <2>1, RunningCheck, VerdictOK
    <2> QED BY <2>1, <2>2, ReportStep
  <1>7. CASE LeftOut
    <2>1. section # None
      BY <1>7, SelectionsAssumption DEF LeftOut, Sections
    <2> QED BY <1>7, <2>1, ReportStep DEF LeftOut, Statuses
  <1>8. CASE StartBatch BY <1>8, Quiet DEF StartBatch
  <1>9. CASE WorkerAnswers BY <1>9, Quiet DEF WorkerAnswers
  <1>10. CASE WorkerDies BY <1>10, Quiet DEF WorkerDies
  <1>11. CASE JoinBatch BY <1>11, Quiet DEF JoinBatch
  <1>12. CASE Finish
    <2>1. Left = {} /\ Left' = Left BY <1>12 DEF Finish, Left
    <2>2. exit' = IF Failed THEN 1 ELSE 0 BY <1>12 DEF Finish, Failed
    <2>3. Promise!Close
      BY <1>12, <2>1, <2>2, RowsSame DEF Finish, Promise!Close
    <2> QED BY <2>3 DEF Promise!Next
  <1>13. CASE CannotWrite
    <2>1. Promise!GiveUp
      BY <1>13, RowsSame DEF CannotWrite, Promise!GiveUp, Left
    <2> QED BY <2>1 DEF Promise!Next
  <1>14. CASE Change BY <1>14, Quiet DEF Change
  <1>15. CASE UNCHANGED vars BY <1>15, Quiet DEF vars
  <1> QED BY <1>1, <1>2, <1>3, <1>4, <1>5, <1>6, <1>7, <1>8, <1>9, <1>10,
             <1>11, <1>12, <1>13, <1>14, <1>15 DEF Next, Program

\* Whatever the endpoint answers, whenever its behaviour changes and however
\* the threads of section K end, a run does what HealthReport promises
\* (kvv_health.py:1274-1357).
THEOREM Implements == Spec => ImplementsReport
  <1>1. Init => Promise!Init
    BY DEF Init, Promise!Init, Full, Cut, Failed, Left
  <1> QED BY <1>1, TypeCorrect, StepImplements, PTL
          DEF Spec, ImplementsReport, Promise!Spec

-----------------------------------------------------------------------------
(***************************************************************************)
(* The meaning of exit code 0.  What is chosen is at all times spread over *)
(* full, cut and Left, and a cut section has left a FAIL behind.           *)
(***************************************************************************)
Accounted ==
    /\ chosen = None => Full = {} /\ Cut = {} /\ Left = {} /\ ~Failed
    /\ chosen # None => Full \cup Cut \cup Left = chosen
    /\ Cut # {} => Failed
    /\ exit = 0 => chosen # None /\ Left = {} /\ ~Failed

\* The account stays balanced under every step of the promise.
LEMMA StepAccounted ==
    ASSUME TypeOK', Accounted, [Promise!Next]_Promise!vars
    PROVE  Accounted'
  <1>0. chosen' = None => Left' = {} BY DEF TypeOK, Left
  <1>1. CASE Promise!GiveUp
    BY <1>1 DEF Promise!GiveUp, Accounted
  <1>2. CASE Promise!Choose
    BY <1>0, <1>2, SelectionsAssumption DEF Promise!Choose, Accounted
  <1>3. CASE Promise!Fail
    BY <1>3 DEF Promise!Fail, Accounted
  <1>4. CASE Promise!Close
    BY <1>4 DEF Promise!Close, Accounted
  <1>5. ASSUME NEW s \in Left, Promise!Complete(s) PROVE Accounted'
    BY <1>5 DEF Promise!Complete, Accounted
  <1>6. ASSUME NEW s \in Left, Promise!CutShort(s) PROVE Accounted'
    BY <1>6 DEF Promise!CutShort, Accounted
  <1>7. CASE UNCHANGED Promise!vars
    BY <1>7 DEF Promise!vars, Accounted
  <1> QED BY <1>1, <1>2, <1>3, <1>4, <1>5, <1>6, <1>7 DEF Promise!Next

\* Exit code 0 means that every chosen section was reported to its last check
\* and that nothing failed (kvv_health.py:1311-1324, 1357).
THEOREM CleanIsComplete == Spec => []CleanMeansComplete
  <1>1. Init => Accounted
    BY SelectionsAssumption DEF Init, Accounted, Full, Cut, Failed, Left
  <1>2. TypeOK /\ TypeOK' /\ Accounted /\ [Next]_vars => Accounted'
    BY StepImplements, StepAccounted
  <1>3. Accounted => CleanMeansComplete
    BY DEF Accounted, CleanMeansComplete, Promise!CleanMeansComplete
  <1> QED BY <1>1, <1>2, <1>3, TypeCorrect, PTL DEF Spec

-----------------------------------------------------------------------------
(***************************************************************************)
(* The tables again: which checks can pass on an outage.                   *)
(***************************************************************************)

\* The kinds of checks that send nothing, and the checks there are of them; all
\* others are judged by the replies to their own requests.
Readers == {"graded", "frames", "correct", "load", "spread"}
Own(s, c) == s # "K" /\ <<s, c>> \notin {<<"E", 10>>, <<"F", 2>>, <<"N", 2>>}

\* What the verdicts rely on, of the check c of section s: how many requests
\* it makes, which replies it passes on, that the kinds that compare replies
\* are used by the lenient checks only, and whose replies it reads.
Sound(d, s, c) ==
    /\ d.how \in {"once", "seen", "alias"} => Len(d.via) = 1
    /\ d.how \in {"turns", "last", "agree", "surfaces"} => Len(d.via) = 2
    /\ d.how \notin Readers => Own(s, c)
    /\ d.how = "graded" => <<s, c>> = <<"E", 10>>
    /\ d.how = "frames" => <<s, c>> = <<"F", 2>>
    /\ d.how = "correct" => <<s, c>> = <<"N", 2>>
    /\ d.how = "load" => <<s, c>> = <<"K", 1>>
    /\ d.how = "spread" => <<s, c>> = <<"K", 2>>
    /\ d.how \in {"once", "every", "turns", "last", "alias"} =>
           /\ "none" \notin d.pass
           /\ <<s, c>> \notin Lenient => d.pass \cap Outage = {}
    /\ d.how \in {"last", "agree", "alike", "surfaces", "linear", "steady"} =>
           <<s, c>> \in Lenient
    /\ d.how \in {"alike", "surfaces"} =>
           <<s, c>> \in Deaf

SoundPlan(p, s) == \A c \in 1..Len(p) : Sound(p[c], s, c)

\* A check of one request that passes on no outage is sound wherever it is.
LEMMA SingleSound ==
    ASSUME NEW s, NEW c, Own(s, c), NEW bad, NEW pass, pass \cap Outage = {}
    PROVE  /\ Sound(Once(pass, bad), s, c)
           /\ Sound(Read(pass, bad), s, c)
           /\ Sound(Stream(pass, bad), s, c)
  BY DEF Sound, Once, Read, Stream, Outage, Readers

\* A lenient one may pass on an outage, but not on silence.
LEMMA LenientSound ==
    ASSUME NEW s, NEW c, Own(s, c), <<s, c>> \in Lenient, NEW bad, NEW pass,
           "none" \notin pass
    PROVE  /\ Sound(Once(pass, bad), s, c)
           /\ Sound(Stream(pass, bad), s, c)
  BY DEF Sound, Once, Stream, Readers

\* So is a check of several requests that compares none of them, and one that
\* compares them where that is known.
LEMMA MultiSound ==
    ASSUME NEW s, NEW c, Own(s, c), NEW bad, NEW pass, pass \cap Outage = {}, NEW via
    PROVE  /\ Sound(Multi("every", via, pass, bad), s, c)
           /\ Len(via) = 2 => Sound(Multi("turns", via, pass, bad), s, c)
           /\ Len(via) = 1 => \A how \in {"seen", "alias"} :
                                 Sound(Multi(how, via, pass, bad), s, c)
           /\ Sound(Multi("billing", via, pass, bad), s, c)
           /\ <<s, c>> \in Lenient =>
                /\ \A how \in {"linear", "steady"} : Sound(Multi(how, via, pass, bad), s, c)
                /\ Len(via) = 2 => \A how \in {"last", "agree"} :
                                      Sound(Multi(how, via, pass, bad), s, c)
           /\ <<s, c>> \in {<<"B", 15>>, <<"G", 4>>} =>
                Sound(Multi("alike", via, pass, bad), s, c)
           /\ <<s, c>> = <<"J", 4>> /\ Len(via) = 2 =>
                Sound(Multi("surfaces", via, pass, bad), s, c)
  BY DEF Sound, Multi, Outage, Lenient, Deaf, Readers

\* The checks that send nothing stand where they should.
LEMMA ReaderSound ==
    ASSUME NEW bad
    PROVE  /\ Sound(Multi("graded", <<>>, {}, bad), "E", 10)
           /\ Sound(Multi("frames", <<>>, {}, bad), "F", 2)
           /\ Sound(Multi("correct", <<>>, {}, bad), "N", 2)
           /\ Sound(Multi("load", <<>>, {}, bad), "K", 1)
           /\ Sound(Multi("spread", <<>>, {}, bad), "K", 2)
  BY DEF Sound, Multi, Readers

\* The sets of replies without an outage in them.
LEMMA NoOutage ==
    /\ Answer \cap Outage = {} /\ Serve \cap Outage = {} /\ Content \cap Outage = {}
    /\ Absence \cap Outage = {} /\ Refuse \cap Outage = {} /\ Either \cap Outage = {}
    /\ Exact \cap Outage = {} /\ {} \cap Outage = {}
    /\ "none" \notin Closed /\ "none" \notin Framed
  BY DEF Answer, Serve, Content, Absence, Refuse, Either, Exact, Closed, Framed, Outage

\* Every check of the tables is sound.
LEMMA PlansSound ==
    /\ SoundPlan(PlanA, "A") /\ SoundPlan(PlanB, "B") /\ SoundPlan(PlanC, "C")
    /\ SoundPlan(PlanD, "D") /\ SoundPlan(PlanE, "E") /\ SoundPlan(PlanF, "F")
    /\ SoundPlan(PlanG, "G") /\ SoundPlan(PlanH, "H") /\ SoundPlan(PlanI, "I")
    /\ SoundPlan(PlanJ, "J") /\ SoundPlan(PlanK, "K") /\ SoundPlan(PlanL, "L")
    /\ SoundPlan(PlanM, "M") /\ SoundPlan(PlanN, "N") /\ SoundPlan(PlanS, "S")
  <1> DEFINE Calm == {Answer, Serve, Content, Absence, Refuse, Either, Exact}
  <1>0. /\ \A s \in {"A", "B", "C", "D", "G", "H", "I", "J", "L", "M", "S"} : \A c : Own(s, c)
        /\ \A c \in 1..15 : c # 10 => Own("E", c)
        /\ \A c \in 1..4 : c # 2 => Own("F", c) /\ Own("N", c)
    BY DEF Own
  <1>1. \A pass \in Calm : \A bad, s, c :
           Own(s, c) => /\ Sound(Once(pass, bad), s, c)
                        /\ Sound(Read(pass, bad), s, c)
                        /\ Sound(Stream(pass, bad), s, c)
    BY SingleSound, NoOutage
  <1>2. \A pass \in {Closed, Framed} : \A bad, s, c :
           Own(s, c) /\ <<s, c>> \in Lenient =>
              Sound(Once(pass, bad), s, c) /\ Sound(Stream(pass, bad), s, c)
    BY LenientSound, NoOutage
  <1>3. /\ Answer \in Calm /\ Serve \in Calm /\ Content \in Calm /\ Absence \in Calm
        /\ Refuse \in Calm /\ Either \in Calm /\ Exact \in Calm
    OBVIOUS
  <1>4. /\ Len(<<"plain">>) = 1 /\ Len(<<>>) = 0 /\ Len(Times(2, "plain")) = 2
        /\ Len(<<"stream", "plain">>) = 2 /\ Len(<<"plain", "payload">>) = 2
    BY TimesLength
  <1> HIDE DEF Calm
  <1> USE <1>0, <1>1, <1>3 DEF SoundPlan
  <1>a. SoundPlan(PlanA, "A")
    <2>1. Sound(Once(Closed, "WARN"), "A", 7) BY <1>2 DEF Lenient
    <2> QED BY <2>1 DEF PlanA
  <1>b. SoundPlan(PlanB, "B")
    <2>1. \A i \in 1..11 :
             Sound(Once(IF Params[i] = "2xx" THEN Serve ELSE Refuse, "FAIL"), "B", i)
      BY <1>1
    <2>2. Sound(Multi("alike", Times(2, "plain"), {}, "WARN"), "B", 15)
      BY MultiSound
    <2> DEFINE p == [i \in 1..11 |->
                       Once(IF Params[i] = "2xx" THEN Serve ELSE Refuse, "FAIL")]
               q == <<Read(Answer, "WARN"), Once(Refuse, "FAIL"), Once(Absence, "WARN"),
                      Multi("alike", Times(2, "plain"), {}, "WARN"),
                      Once(Answer, "WARN"), Once(Refuse, "WARN"), Once(Answer, "WARN")>>
    <2>3. \A i \in 1..7 : Sound(q[i], "B", 11 + i)
      BY <2>2
    <2>4. PlanB = p \o q BY DEF PlanB
    <2>5. /\ Len(p) = 11 /\ Len(q) = 7 /\ Len(p \o q) = 18
          /\ \A c \in 1..11 : (p \o q)[c] = p[c]
          /\ \A c \in 12..18 : (p \o q)[c] = q[c - 11]
      OBVIOUS
    <2>6. \A c \in 1..11 : Sound(p[c], "B", c) BY <2>1
    <2> HIDE DEF p, q
    <2>7. ASSUME NEW c \in 12..18 PROVE Sound(q[c - 11], "B", c)
      <3>1. c - 11 \in 1..7 /\ 11 + (c - 11) = c OBVIOUS
      <3>2. Sound(q[c - 11], "B", 11 + (c - 11)) BY <2>3, <3>1
      <3> QED BY <3>1, <3>2
    <2>8. \A c \in 1..18 : c \in 1..11 \/ c \in 12..18 OBVIOUS
    <2> QED BY ONLY <2>4, <2>5, <2>6, <2>7, <2>8 DEF SoundPlan
  <1>c. SoundPlan(PlanC, "C")
    <2>1. /\ Sound(Multi("every", Times(5, "plain"), Answer, "FAIL"), "C", 4)
          /\ Sound(Multi("turns", Times(2, "plain"), Answer, "WARN"), "C", 8)
      BY <1>4, MultiSound, NoOutage
    <2>2. Sound(Stream(Framed, "WARN"), "C", 9) BY <1>2 DEF Lenient
    <2> QED BY <2>1, <2>2 DEF PlanC
  <1>d. SoundPlan(PlanD, "D")
    <2> QED BY DEF PlanD
  <1>e. SoundPlan(PlanE, "E")
    <2>1. Sound(Multi("graded", <<>>, {}, "WARN"), "E", 10)
      BY ReaderSound
    <2> DEFINE p == <<Read(Serve, "FAIL")>> \o Times(8, Read(Serve, "WARN")) \o
                    <<Multi("graded", <<>>, {}, "WARN")>> \o
                    Times(4, Read(Absence, "WARN")) \o <<Once(Either, "FAIL")>>
    <2>2. /\ Len(p) = 15 /\ p[1] = Read(Serve, "FAIL")
          /\ \A c \in 2..9 : p[c] = Read(Serve, "WARN")
          /\ p[10] = Multi("graded", <<>>, {}, "WARN")
          /\ \A c \in 11..14 : p[c] = Read(Absence, "WARN")
          /\ p[15] = Once(Either, "FAIL")
      BY DEF Times
    <2>3. PlanE = p BY DEF PlanE
    <2> HIDE DEF p
    <2>4. ASSUME NEW c \in 1..15 PROVE Sound(p[c], "E", c)
      <3>1. c = 1 \/ c \in 2..9 \/ c = 10 \/ c \in 11..14 \/ c = 15 OBVIOUS
      <3> QED BY <2>1, <2>2, <3>1
    <2> QED BY <2>2, <2>3, <2>4
  <1>f. SoundPlan(PlanF, "F")
    <2>1. Sound(Stream(Framed, "FAIL"), "F", 1) BY <1>2 DEF Lenient
    <2>2. Sound(Multi("frames", <<>>, {}, "FAIL"), "F", 2) BY ReaderSound
    <2>3. Sound(Multi("agree", <<"stream", "plain">>, {}, "WARN"), "F", 3)
      BY <1>4, MultiSound DEF Lenient
    <2> QED BY <2>1, <2>2, <2>3 DEF PlanF
  <1>g. SoundPlan(PlanG, "G")
    <2>1. Sound(Multi("linear", Times(3, "payload"), {}, "WARN"), "G", 1)
      BY MultiSound DEF Lenient
    <2>2. Sound(Multi("last", <<"plain", "payload">>, Answer, "WARN"), "G", 3)
      BY <1>4, MultiSound, NoOutage DEF Lenient
    <2>3. Sound(Multi("alike", <<"late", "stream">>, {}, "WARN"), "G", 4)
      BY MultiSound
    <2> QED BY <2>1, <2>2, <2>3 DEF PlanG
  <1>h. SoundPlan(PlanH, "H")
    <2>1. \A c : Sound(Multi("seen", <<"plain">>, {}, "FAIL"), "H", c)
      BY <1>4, MultiSound
    <2> QED BY <2>1 DEF PlanH
  <1>i. SoundPlan(PlanI, "I")
    <2> QED BY DEF PlanI
  <1>j. SoundPlan(PlanJ, "J")
    <2>1. Sound(Multi("surfaces", Times(2, "plain"), {}, "WARN"), "J", 4)
      BY <1>4, MultiSound
    <2> QED BY <2>1 DEF PlanJ
  <1>k. SoundPlan(PlanK, "K")
    <2>1. /\ Sound(Multi("load", <<>>, {}, "FAIL"), "K", 1)
          /\ Sound(Multi("spread", <<>>, {}, "WARN"), "K", 2)
      BY ReaderSound
    <2> QED BY <2>1 DEF PlanK
  <1>l. SoundPlan(PlanL, "L")
    <2>1. Sound(Multi("steady", Times(6, "plain"), {}, "WARN"), "L", 1)
      BY MultiSound DEF Lenient
    <2>2. Sound(Multi("billing", Times(NumKeys, "payload"), {}, "FAIL"), "L", 2)
      BY MultiSound
    <2>3. Sound(Multi("alias", <<"plain">>, Serve, "FAIL"), "L", 4)
      BY <1>4, MultiSound, NoOutage
    <2> QED BY <2>1, <2>2, <2>3 DEF PlanL
  <1>m. SoundPlan(PlanM, "M")
    <2> QED BY DEF PlanM
  <1>n. SoundPlan(PlanN, "N")
    <2>0. Own("N", 1) BY DEF Own
    <2>1. Sound(Multi("every", Times(3, "payload"), Content, "WARN"), "N", 1)
      BY <2>0, MultiSound, NoOutage
    <2>2. Sound(Multi("correct", <<>>, {}, "WARN"), "N", 2)
      BY ReaderSound
    <2> QED BY <2>1, <2>2 DEF PlanN
  <1>s. SoundPlan(PlanS, "S")
    <2> DEFINE p == Times(9, Once(Answer, "FAIL")) \o
                    <<Once(Answer, "FAIL"), Once(Serve, "WARN")>>
    <2>1. /\ Len(p) = 11 /\ \A c \in 1..9 : p[c] = Once(Answer, "FAIL")
          /\ p[10] = Once(Answer, "FAIL") /\ p[11] = Once(Serve, "WARN")
      BY DEF Times
    <2>2. PlanS = p BY DEF PlanS
    <2> HIDE DEF p
    <2>3. \A c \in 1..11 : c \in 1..9 \/ c = 10 \/ c = 11 OBVIOUS
    <2> QED BY <2>1, <2>2, <2>3
  <1> QED BY <1>a, <1>b, <1>c, <1>d, <1>e, <1>f, <1>g, <1>h, <1>i, <1>j,
             <1>k, <1>l, <1>m, <1>n, <1>s

\* The same, by the section's name.
LEMMA PlanSound == \A s \in Sections : SoundPlan(Plan[s], s)
  BY PlansSound DEF Sections, Plan

\* So is the check that is running.
LEMMA SoundDoing ==
    ASSUME TypeOK, section # None PROVE Sound(Doing, section, check)
  <1>1. section \in Sections /\ check \in 1..Len(Plan[section])
    BY Running DEF Checks
  <1> QED BY <1>1, PlanSound DEF SoundPlan, Doing

-----------------------------------------------------------------------------
(***************************************************************************)
(* The inductive invariant, in five parts.                                 *)
(***************************************************************************)

\* The rows of the running section are its checks so far; the sections to
\* come have none.
OrderInv ==
    /\ chosen = None => rows = <<>>
    /\ \A i \in DOMAIN rows : rows[i].sec \notin todo
    /\ section # None =>
         /\ \A i \in DOMAIN rows : rows[i].sec = section => rows[i].check \in 1..(check - 1)
         /\ \A c \in 1..(check - 1) :
               \E i \in DOMAIN rows : rows[i].sec = section /\ rows[i].check = c
    /\ CheckedInOrder

\* A check has had no more replies than it makes requests, and the second turn
\* of a conversation follows a first that went well.
HeardInv ==
    /\ section = None => heard = <<>>
    /\ section # None =>
         /\ Len(heard) <= Len(Doing.via)
         /\ Doing.how = "turns" /\ Len(heard) = 2 => heard[1] = "good"

\* A thread of the pool is alive, has left a reply, or has died; nothing
\* starts any more when the load check has passed.
LoadInv ==
    /\ pool.alive <= pool.batch
    /\ Len(pool.results) + pool.alive <= pool.started
    /\ \A i \in DOMAIN rows :
          rows[i].sec = "K" /\ rows[i].check = 1 /\ rows[i].status = "PASS" =>
             /\ pool.batch = 0
             /\ Len(pool.results) = Total
             /\ \A k \in DOMAIN pool.results : pool.results[k] \in Serve

\* The check of each section, all but K and N, that fails on silence.
Telltale == {<<"A", 1>>, <<"B", 1>>, <<"C", 1>>, <<"D", 1>>, <<"E", 1>>, <<"F", 1>>,
             <<"G", 2>>, <<"H", 1>>, <<"I", 1>>, <<"J", 1>>, <<"L", 2>>, <<"M", 1>>,
             <<"S", 1>>}

TellInv ==
    \A i \in DOMAIN rows :
        /\ /\ <<rows[i].sec, rows[i].check>> \in Telltale
           /\ \A k \in DOMAIN rows[i].heard : rows[i].heard[k] = "none"
           => rows[i].status = "FAIL"
        /\ rows[i].sec = "K" /\ rows[i].check = 1 => rows[i].status \in {"PASS", "FAIL"}

\* What later verdicts read is there: section K has its rows once its threads
\* are done, the checks that are read again have had all their replies, and a
\* crash row is a FAIL.
Reread == {<<"E", c>> : c \in 2..7} \cup {<<"F", 1>>, <<"N", 1>>}
Requests(id) == IF id = <<"N", 1>> THEN 3 ELSE 1

ReadInv ==
    \A i \in DOMAIN rows :
        /\ rows[i].check = 0 => rows[i].status = "FAIL"
        /\ rows[i].sec = "K" /\ rows[i].check # 0 => pool.batch = 0 /\ pool.started = Total
        /\ <<rows[i].sec, rows[i].check>> \in Reread =>
              Len(rows[i].heard) = Requests(<<rows[i].sec, rows[i].check>>)

\* RepliesTo, of given rows and replies of the pool.
SaidIn(rs, results, s, c) ==
    IF s = "K"
    THEN {results[k] : k \in DOMAIN results} \cup {r \in {"torn"} : Len(results) < Total}
    ELSE {r \in Replies : \E i \in DOMAIN rs :
             /\ rs[i].sec = s /\ rs[i].check \in ReadBy(s, c)
             /\ \E k \in DOMAIN rs[i].heard : rs[i].heard[k] = r}

\* What the running check's verdict rests on, when q are the replies to it.
Grounds(q) ==
    IF Own(section, check) THEN {q[k] : k \in DOMAIN q}
    ELSE SaidIn(rows, pool.results, section, check)

\* What a verdict may say of the replies it rests on.
PassOK(status, said, id) ==
    status = "PASS" =>
       /\ said \cap Outage # {} => id \in Lenient
       /\ said = {"none"} => id \in Deaf

\* PassMeansAnswered, row by row, before and after a step.
LEMMA PassRows ==
    /\ PassMeansAnswered <=>
         \A i \in DOMAIN rows :
            PassOK(rows[i].status, SaidIn(rows, pool.results, rows[i].sec, rows[i].check),
                   <<rows[i].sec, rows[i].check>>)
    /\ PassMeansAnswered' <=>
         \A i \in DOMAIN rows' :
            PassOK(rows'[i].status, SaidIn(rows', pool'.results, rows'[i].sec, rows'[i].check),
                   <<rows'[i].sec, rows'[i].check>>)
  BY DEF PassMeansAnswered, PassOK, RepliesTo, SaidIn

\* A check reads nothing that comes after it.
LEMMA ReadsBack ==
    ASSUME NEW s, NEW c \in Nat, c >= 1, NEW b \in ReadBy(s, c)
    PROVE  b \in 1..c
  BY DEF ReadBy

\* The replies a row keeps are replies.
LEMMA RowReplies ==
    TypeOK => \A i \in DOMAIN rows : rows[i].heard \in Seq(Replies)
  <1> SUFFICES ASSUME TypeOK, NEW i \in DOMAIN rows PROVE rows[i].heard \in Seq(Replies)
    OBVIOUS
  <1>1. rows \in Seq(Rows) BY DEF TypeOK
  <1>2. rows[i] \in Rows BY <1>1
  <1> QED BY <1>2 DEF Rows

\* There is one row of each earlier check of the running section.
LEMMA EarlierRow ==
    ASSUME TypeOK, OrderInv, section # None, NEW c \in 1..(check - 1)
    PROVE  \E i \in DOMAIN rows :
              /\ rows[i].sec = section /\ rows[i].check = c
              /\ rows[i].heard = HeardBy(c)
              /\ \A j \in DOMAIN rows :
                    rows[j].sec = section /\ rows[j].check = c => j = i
  <1> DEFINE P(i) == rows[i].sec = section /\ rows[i].check = c
  <1>1. rows \in Seq(Rows) /\ Len(rows) \in Nat /\ DOMAIN rows = 1..Len(rows)
    BY DEF TypeOK
  <1>2. \E i \in 1..Len(rows) : P(i)
    BY <1>1 DEF OrderInv
  <1>3. PICK i \in 1..Len(rows) : P(i) /\ HeardBy(c) = rows[i].heard
    BY <1>2 DEF HeardBy
  <1>4. ASSUME NEW j \in DOMAIN rows, P(j), j # i PROVE FALSE
    <2>1. c \in Nat /\ i \in DOMAIN rows
      BY <1>1, <1>3
    <2>2. i < j \/ j < i
      BY <1>1, <1>4, <2>1
    <2> QED BY <1>1, <1>3, <1>4, <2>1, <2>2 DEF OrderInv, CheckedInOrder
  <1> QED BY <1>1, <1>3, <1>4

TellOK(status, replies, id) ==
    /\ id \in Telltale /\ (\A k \in DOMAIN replies : replies[k] = "none")
       => status = "FAIL"
    /\ id = <<"K", 1>> => status \in {"PASS", "FAIL"}

\* A check that sends nothing passes on the replies others had.
LEMMA ReaderPass ==
    ASSUME TypeOK, OrderInv, ReadInv, section # None, Sound(Doing, section, check),
           Doing.how \in Readers, Verdict = "PASS",
           section = "K" /\ check = 1 =>
              /\ Len(pool.results) = Total
              /\ \A k \in DOMAIN pool.results : pool.results[k] \in Serve
    PROVE  PassOK("PASS", Grounds(heard), <<section, check>>)
  <1> DEFINE S == SaidIn(rows, pool.results, section, check)
             id == <<section, check>>
  <1>1. ~Skipped /\ \A good \in BOOLEAN : Tally(good) = "PASS" => good = TRUE
    <2>1. Doing.bad \in {"WARN", "FAIL"} BY RunningCheck DEF IsCheck
    <2> QED BY <2>1 DEF Verdict, Tally
  <1>2. Grounds(heard) = S
    BY DEF Grounds, Sound, Own, Readers
  <1>3. CASE Doing.how = "load"
    <2>1. section = "K" /\ check = 1 BY <1>3 DEF Sound
    <2>2. /\ S = {pool.results[k] : k \in DOMAIN pool.results} \cup
                 {r \in {"torn"} : Len(pool.results) < Total}
          /\ Len(pool.results) = Total /\ Total \in Nat
      BY <2>1, LoadAssumption DEF SaidIn
    <2>3. S \subseteq Serve BY <2>1, <2>2
    <2> HIDE DEF S
    <2> QED BY <1>2, <2>3 DEF PassOK, Serve, Outage
  <1>4. CASE Doing.how = "spread"
    BY <1>4 DEF Sound, PassOK, Lenient, Deaf
  <1>5. CASE Doing.how = "graded"
    <2>1. section = "E" /\ check = 10 /\ id \in Lenient BY <1>5 DEF Sound, Lenient
    <2>2. ~\A c \in 2..7 : Earlier(c) \notin Content BY <1>1, <1>5 DEF Skipped
    <2>3. PICK c \in 2..7 : Earlier(c) \in Content BY <2>2
    <2>4. c \in 1..(check - 1) BY <2>1
    <2>5. PICK i \in DOMAIN rows : /\ rows[i].sec = section /\ rows[i].check = c
                                  /\ rows[i].heard = HeardBy(c)
      BY <2>4, EarlierRow
    <2>6. rows[i].heard \in Seq(Replies) BY RowReplies
    <2>7. Len(rows[i].heard) = 1
      <3>1. <<rows[i].sec, rows[i].check>> \in Reread BY <2>1, <2>5 DEF Reread
      <3>2. Requests(<<rows[i].sec, rows[i].check>>) = 1 BY <2>1, <2>5 DEF Requests
      <3> QED BY <3>1, <3>2 DEF ReadInv
    <2>8. 1 \in DOMAIN rows[i].heard /\ rows[i].heard[1] = Earlier(c)
      BY <2>5, <2>6, <2>7 DEF Earlier
    <2>9. Earlier(c) \in S
      <3>1. Earlier(c) \in Replies BY <2>3 DEF Content, Replies
      <3>2. ReadBy(section, check) = 2..7 BY <2>1 DEF ReadBy
      <3> QED BY <2>1, <2>5, <2>8, <3>1, <3>2 DEF SaidIn
    <2> HIDE DEF S
    <2> QED BY <1>2, <2>1, <2>3, <2>9 DEF PassOK, Content
  <1>6. CASE Doing.how = "frames"
    <2>1. section = "F" /\ check = 2 /\ 1 \in 1..(check - 1) BY <1>6 DEF Sound
    <2>2. Earlier(1) \in Content
      <3>1. Verdict = Tally(Earlier(1) \in Content) BY <1>1, <1>6 DEF Verdict
      <3>2. (Earlier(1) \in Content) \in BOOLEAN OBVIOUS
      <3>3. (Earlier(1) \in Content) = TRUE BY <1>1, <3>1, <3>2
      <3> QED BY <3>3
    <2>3. PICK i \in DOMAIN rows : /\ rows[i].sec = section /\ rows[i].check = 1
                                  /\ rows[i].heard = HeardBy(1)
                                  /\ \A j \in DOMAIN rows :
                                        rows[j].sec = section /\ rows[j].check = 1 => j = i
      BY <2>1, EarlierRow
    <2>4. Len(rows[i].heard) = 1
      <3>1. <<rows[i].sec, rows[i].check>> \in Reread BY <2>1, <2>3 DEF Reread
      <3>2. Requests(<<rows[i].sec, rows[i].check>>) = 1 BY <2>1, <2>3 DEF Requests
      <3> QED BY <3>1, <3>2 DEF ReadInv
    <2>5. \A k \in DOMAIN rows[i].heard : rows[i].heard[k] \in Content
      <3>1. rows[i].heard \in Seq(Replies) BY RowReplies
      <3>2. DOMAIN rows[i].heard = {1} BY <2>4, <3>1
      <3> QED BY <2>2, <2>3, <3>2 DEF Earlier
    <2>6. S \subseteq Content
      <3>1. ReadBy(section, check) = {1} BY <2>1 DEF ReadBy
      <3> QED BY <2>1, <2>3, <2>5, <3>1 DEF SaidIn
    <2> HIDE DEF S
    <2> QED BY <1>2, <2>6 DEF PassOK, Content, Outage
  <1>7. CASE Doing.how = "correct"
    <2>1. section = "N" /\ check = 2 /\ 1 \in 1..(check - 1) BY <1>7 DEF Sound
    <2>2. \A k \in 1..3 : HeardBy(1)[k] = "good"
      BY <1>1, <1>7 DEF Verdict
    <2>3. PICK i \in DOMAIN rows : /\ rows[i].sec = section /\ rows[i].check = 1
                                  /\ rows[i].heard = HeardBy(1)
                                  /\ \A j \in DOMAIN rows :
                                        rows[j].sec = section /\ rows[j].check = 1 => j = i
      BY <2>1, EarlierRow
    <2>4. Len(rows[i].heard) = 3
      <3>1. <<rows[i].sec, rows[i].check>> \in Reread BY <2>1, <2>3 DEF Reread
      <3>2. Requests(<<rows[i].sec, rows[i].check>>) = 3 BY <2>1, <2>3 DEF Requests
      <3> QED BY <3>1, <3>2 DEF ReadInv
    <2>5. \A k \in DOMAIN rows[i].heard : rows[i].heard[k] = "good"
      <3>1. rows[i].heard \in Seq(Replies) BY RowReplies
      <3>2. DOMAIN rows[i].heard = 1..3 BY <2>4, <3>1
      <3> QED BY <2>2, <2>3, <3>2
    <2>6. S \subseteq {"good"}
      <3>1. ReadBy(section, check) = {1} BY <2>1 DEF ReadBy
      <3> QED BY <2>1, <2>3, <2>5, <3>1 DEF SaidIn
    <2> HIDE DEF S
    <2> QED BY <1>2, <2>6 DEF PassOK, Outage
  <1> QED BY <1>3, <1>4, <1>5, <1>6, <1>7 DEF Readers

\* A check that passes was answered, each kind for its own reason.
LEMMA VerdictPass ==
    ASSUME TypeOK, OrderInv, HeardInv, ReadInv, section # None, Asked,
           section = "K" /\ check = 1 /\ Verdict = "PASS" =>
              /\ Len(pool.results) = Total
              /\ \A k \in DOMAIN pool.results : pool.results[k] \in Serve
    PROVE  PassOK(Verdict, Grounds(heard), <<section, check>>)
  <1> DEFINE said == {heard[k] : k \in DOMAIN heard}
             id == <<section, check>>
             d == Doing
             Fine(S) == /\ S \cap Outage # {} => id \in Lenient
                        /\ S = {"none"} => id \in Deaf
  <1> SUFFICES ASSUME Verdict = "PASS" PROVE Fine(Grounds(heard))
    BY DEF PassOK
  <1>1. /\ d.how \in Hows /\ d.bad \in {"WARN", "FAIL"} /\ Sound(d, section, check)
    BY RunningCheck, SoundDoing DEF IsCheck
  <1>2. ~Skipped
    BY DEF Verdict
  <1>3. /\ heard \in Seq(Replies) /\ Len(heard) \in Nat /\ DOMAIN heard = 1..Len(heard)
        /\ Len(heard) <= Len(d.via)
        /\ d.how = "turns" /\ Len(heard) = 2 => heard[1] = "good"
        /\ Len(heard) = Len(d.via) \/ (d.how = "turns" /\ heard # <<>> /\ heard[1] # "good")
    BY <1>2 DEF HeardInv, TypeOK, Asked
  <1>4. \A good \in BOOLEAN : Tally(good) = "PASS" => good = TRUE
    BY <1>1 DEF Tally
  <1>5. Verdict = CASE d.how = "once"  -> Tally(heard[1] \in d.pass)
      [] d.how = "every" -> Tally(\A i \in DOMAIN heard : heard[i] \in d.pass)
      [] d.how = "last"  -> Tally(heard[2] \in d.pass)
      [] d.how = "turns" ->
            IF Len(heard) = 1 THEN "FAIL" ELSE Tally(heard[2] \in d.pass)
      [] d.how = "alias" -> Tally(heard[1] \in d.pass)
      [] d.how = "seen"  ->
            IF heard[1] \in Serve \ {"good"} THEN "WARN"
            ELSE Tally(heard[1] = "good")
      [] d.how = "alike" -> Tally(AllSay)
      [] d.how = "agree" -> Tally(AllSay /\ Said(heard[1]) # "nothing")
      [] d.how = "surfaces" ->
            Tally((heard[1] \in Serve) = (heard[2] \in Serve))
      [] d.how = "graded"  -> Tally(Cardinality(Graded) > 1 /\ Rising)
      [] d.how = "frames"  -> Tally(Earlier(1) \in Content)
      [] d.how = "linear"  ->
            IF Cardinality(Points) < 2 THEN "FAIL"
            ELSE IF OnLine THEN "PASS" ELSE "WARN"
      [] d.how = "steady"  -> Tally(\E r \in Content : Said2xx = {r})
      [] d.how = "billing" ->
            IF \E i \in DOMAIN heard : heard[i] \notin Serve THEN "FAIL"
            ELSE IF AllSay THEN "PASS" ELSE "WARN"
      [] d.how = "correct" ->
            Tally(\A k \in 1..3 : HeardBy(1)[k] = "good")
      [] d.how = "load"    -> Tally(AllServed)
      [] d.how = "spread"  ->
            Tally(\A i \in DOMAIN pool.results :
                      pool.results[i] \notin {"throttle", "fault", "gateway"})
    BY <1>2 DEF Verdict
  <1> HIDE DEF d
  <1>6. ASSUME d.how \in {"once", "alias"} PROVE Fine(said)
    <2>1. heard[1] \in d.pass
      <3>1. Verdict = Tally(heard[1] \in d.pass)
        BY <1>5, <1>6
      <3>2. (heard[1] \in d.pass) \in BOOLEAN
        OBVIOUS
      <3>3. (heard[1] \in d.pass) = TRUE
        BY <1>4, <3>1, <3>2
      <3> QED BY <3>3
    <2>2. Len(heard) = 1 /\ "none" \notin d.pass /\ (id \notin Lenient => d.pass \cap Outage = {})
      BY <1>1, <1>3, <1>6 DEF Sound
    <2>3. said = {heard[1]}
      BY <1>3, <2>2
    <2> QED BY <2>1, <2>2, <2>3
  <1>7. ASSUME d.how = "every" PROVE Fine(said)
    <2>1. \A i \in DOMAIN heard : heard[i] \in d.pass
      BY <1>4, <1>5, <1>7
    <2>2. "none" \notin d.pass /\ (id \notin Lenient => d.pass \cap Outage = {})
      BY <1>1, <1>7 DEF Sound
    <2> QED BY <2>1, <2>2
  <1>8. ASSUME d.how = "last" PROVE Fine(said)
    <2>1. heard[2] \in d.pass
      <3>1. Verdict = Tally(heard[2] \in d.pass)
        BY <1>5, <1>8
      <3>2. (heard[2] \in d.pass) \in BOOLEAN
        OBVIOUS
      <3>3. (heard[2] \in d.pass) = TRUE
        BY <1>4, <3>1, <3>2
      <3> QED BY <3>3
    <2>2. /\ Len(heard) = 2 /\ "none" \notin d.pass /\ id \in Lenient
      BY <1>1, <1>3, <1>8 DEF Sound
    <2>3. heard[2] \in said
      BY <1>3, <2>2
    <2> QED BY <2>1, <2>2, <2>3
  <1>9. ASSUME d.how = "turns" PROVE Fine(said)
    <2>1. Len(heard) # 1 /\ heard[2] \in d.pass
      <3>1. Verdict = IF Len(heard) = 1 THEN "FAIL" ELSE Tally(heard[2] \in d.pass)
        BY <1>5, <1>9
      <3>2. Len(heard) # 1 /\ Verdict = Tally(heard[2] \in d.pass)
        BY <3>1
      <3>3. (heard[2] \in d.pass) \in BOOLEAN
        OBVIOUS
      <3>4. (heard[2] \in d.pass) = TRUE
        BY <1>4, <3>2, <3>3
      <3> QED BY <3>2, <3>4
    <2>2. /\ Len(d.via) = 2 /\ "none" \notin d.pass
          /\ (id \notin Lenient => d.pass \cap Outage = {})
      BY <1>1, <1>9 DEF Sound
    <2>3. Len(heard) = 2
      <3>1. heard # <<>> => Len(heard) # 0
        BY <1>3
      <3> QED BY <1>3, <2>1, <2>2, <3>1
    <2>4. heard[1] = "good"
      BY <1>3, <1>9, <2>3
    <2>5. said = {heard[1], heard[2]}
      BY <1>3, <2>3
    <2> QED BY <2>1, <2>2, <2>4, <2>5 DEF Outage
  <1>10. ASSUME d.how = "seen" PROVE Fine(said)
    <2>1. heard[1] = "good"
      BY <1>4, <1>5, <1>10
    <2>2. Len(heard) = 1
      BY <1>1, <1>3, <1>10 DEF Sound
    <2>3. said = {heard[1]}
      BY <1>3, <2>2
    <2> QED BY <2>1, <2>3 DEF Outage
  <1>11. ASSUME d.how \in {"alike", "surfaces"} PROVE Fine(said)
    BY <1>1, <1>11 DEF Sound, Deaf, Lenient
  <1>12. ASSUME d.how = "agree" PROVE Fine(said)
    <2>1. Said(heard[1]) # "nothing"
      BY <1>4, <1>5, <1>12
    <2>2. Len(heard) = 2 /\ id \in Lenient
      BY <1>1, <1>3, <1>12 DEF Sound
    <2>3. heard[1] \in said
      BY <1>3, <2>2
    <2>4. heard[1] # "none"
      BY <2>1 DEF Said, Framed
    <2> QED BY <2>2, <2>3, <2>4
  <1>13. CASE d.how \in Readers
    BY <1>1, <1>13, ReaderPass DEF PassOK, d
  <1>14. ASSUME d.how = "linear" PROVE Fine(said)
    <2>1. ~(Cardinality(Points) < 2)
      BY <1>5, <1>14
    <2>2. Points # {}
      <3>1. Cardinality({}) = 0 BY FS_EmptySet
      <3>2. ~(Cardinality({}) < 2) => FALSE BY <3>1
      <3> QED BY <2>1, <3>2
    <2>3. PICK k \in DOMAIN heard : heard[k] \in Content
      BY <2>2 DEF Points
    <2> QED BY <1>1, <1>14, <2>3 DEF Sound, Content
  <1>15. ASSUME d.how = "steady" PROVE Fine(said)
    <2>1. PICK r \in Content : Said2xx = {r}
      BY <1>4, <1>5, <1>15
    <2>2. r \in said
      BY <2>1 DEF Said2xx
    <2> QED BY <1>1, <1>15, <2>1, <2>2 DEF Sound, Content
  <1>16. ASSUME d.how = "billing" PROVE Fine(said)
    <2>1. \A i \in DOMAIN heard : heard[i] \in Serve
      BY <1>5, <1>16
    <2> QED BY <2>1 DEF Serve, Outage
  <1>17. d.how \notin Readers => Grounds(heard) = said
    BY <1>1 DEF Sound, Grounds
  <1> QED BY <1>1, <1>6, <1>7, <1>8, <1>9, <1>10, <1>11, <1>12, <1>13, <1>14, <1>15, <1>16,
             <1>17 DEF Hows, Readers

\* The telltale checks of the tables.
LEMMA TellPlan ==
    \A s \in Sections, c \in 1..18 :
        LET d == Plan[s][c] IN
        /\ <<s, c>> \in Telltale =>
             /\ d.how \in {"once", "seen", "billing"} /\ d.bad = "FAIL" /\ Len(d.via) > 0
             /\ d.how = "once" => "none" \notin d.pass
        /\ <<s, c>> = <<"K", 1>> => d.how = "load" /\ d.bad = "FAIL"
  <1>1. /\ PlanA[1] = Once(Answer, "FAIL")
        /\ PlanB[1] = Once(IF Params[1] = "2xx" THEN Serve ELSE Refuse, "FAIL")
        /\ PlanC[1] = Once(Answer, "FAIL") /\ PlanD[1] = Once(Answer, "FAIL")
        /\ PlanE[1] = Read(Serve, "FAIL") /\ PlanF[1] = Stream(Framed, "FAIL")
        /\ PlanG[2] = Read(Answer, "FAIL")
        /\ PlanH[1] = Multi("seen", <<"plain">>, {}, "FAIL")
        /\ PlanI[1] = Read(Answer, "FAIL") /\ PlanJ[1] = Once(Answer, "FAIL")
        /\ PlanK[1] = Multi("load", <<>>, {}, "FAIL")
        /\ PlanL[2] = Multi("billing", Times(NumKeys, "payload"), {}, "FAIL")
        /\ PlanM[1] = Once(Serve, "FAIL") /\ PlanS[1] = Once(Answer, "FAIL")
    <2>1. PlanA[1] = Once(Answer, "FAIL") BY DEF PlanA
    <2>2. PlanB[1] = Once(IF Params[1] = "2xx" THEN Serve ELSE Refuse, "FAIL")
      <3> DEFINE p == [i \in 1..11 |->
                         Once(IF Params[i] = "2xx" THEN Serve ELSE Refuse, "FAIL")]
                 q == <<Read(Answer, "WARN"), Once(Refuse, "FAIL"), Once(Absence, "WARN"),
                        Multi("alike", Times(2, "plain"), {}, "WARN"),
                        Once(Answer, "WARN"), Once(Refuse, "WARN"), Once(Answer, "WARN")>>
      <3>1. PlanB = p \o q BY DEF PlanB
      <3>2. Len(p) = 11 /\ Len(q) = 7 /\ (p \o q)[1] = p[1] OBVIOUS
      <3>3. p[1] = Once(IF Params[1] = "2xx" THEN Serve ELSE Refuse, "FAIL") OBVIOUS
      <3> HIDE DEF p, q
      <3> QED BY <3>1, <3>2, <3>3
    <2>3. PlanC[1] = Once(Answer, "FAIL") BY DEF PlanC
    <2>4. PlanD[1] = Once(Answer, "FAIL") BY DEF PlanD
    <2>5. PlanE[1] = Read(Serve, "FAIL") BY DEF PlanE, Times
    <2>6. PlanF[1] = Stream(Framed, "FAIL") BY DEF PlanF
    <2>7. PlanG[2] = Read(Answer, "FAIL") BY DEF PlanG
    <2>8. PlanH[1] = Multi("seen", <<"plain">>, {}, "FAIL") BY DEF PlanH
    <2>9. PlanI[1] = Read(Answer, "FAIL") BY DEF PlanI
    <2>10. PlanJ[1] = Once(Answer, "FAIL") BY DEF PlanJ
    <2>11. PlanK[1] = Multi("load", <<>>, {}, "FAIL") BY DEF PlanK
    <2>12. PlanL[2] = Multi("billing", Times(NumKeys, "payload"), {}, "FAIL") BY DEF PlanL
    <2>13. PlanM[1] = Once(Serve, "FAIL") BY DEF PlanM
    <2>14. PlanS[1] = Once(Answer, "FAIL") BY DEF PlanS, Times
    <2> QED BY ONLY <2>1, <2>2, <2>3, <2>4, <2>5, <2>6, <2>7, <2>8, <2>9, <2>10, <2>11,
                    <2>12, <2>13, <2>14
  <1>2. /\ \A pass, bad : /\ Once(pass, bad).how = "once" /\ Once(pass, bad).bad = bad
                          /\ Len(Once(pass, bad).via) = 1 /\ Once(pass, bad).pass = pass
                          /\ Read(pass, bad).how = "once" /\ Read(pass, bad).bad = bad
                          /\ Len(Read(pass, bad).via) = 1 /\ Read(pass, bad).pass = pass
                          /\ Stream(pass, bad).how = "once" /\ Stream(pass, bad).bad = bad
                          /\ Len(Stream(pass, bad).via) = 1 /\ Stream(pass, bad).pass = pass
        /\ \A how, via, pass, bad : /\ Multi(how, via, pass, bad).how = how
                                    /\ Multi(how, via, pass, bad).via = via
                                    /\ Multi(how, via, pass, bad).bad = bad
    BY DEF Once, Read, Stream, Multi
  <1>3. Len(<<"plain">>) = 1 /\ Len(Times(NumKeys, "payload")) > 0
    <2>1. NumKeys \in Nat /\ NumKeys > 0 BY LoadAssumption
    <2>2. Len(Times(NumKeys, "payload")) = NumKeys BY <2>1, TimesLength
    <2> QED BY <2>1, <2>2
  <1>4. /\ "none" \notin Answer /\ "none" \notin Serve /\ "none" \notin Refuse
        /\ "none" \notin Framed
    BY DEF Answer, Serve, Refuse, Framed
  <1> DEFINE Good(d) ==
               /\ d.how \in {"once", "seen", "billing"} /\ d.bad = "FAIL" /\ Len(d.via) > 0
               /\ d.how = "once" => "none" \notin d.pass
  <1>5. /\ Good(PlanA[1]) /\ Good(PlanC[1]) /\ Good(PlanD[1]) /\ Good(PlanE[1])
        /\ Good(PlanF[1]) /\ Good(PlanG[2]) /\ Good(PlanI[1]) /\ Good(PlanJ[1])
        /\ Good(PlanM[1]) /\ Good(PlanS[1])
    BY <1>1, <1>2, <1>3, <1>4
  <1>6. Good(PlanB[1])
    BY <1>1, <1>2, <1>3, <1>4
  <1>7. Good(PlanH[1]) /\ Good(PlanL[2])
    <2>1. /\ PlanH[1].how = "seen" /\ PlanH[1].bad = "FAIL" /\ PlanH[1].via = <<"plain">>
      BY <1>1, <1>2
    <2>2. /\ PlanL[2].how = "billing" /\ PlanL[2].bad = "FAIL"
          /\ PlanL[2].via = Times(NumKeys, "payload")
      BY <1>1, <1>2
    <2> QED BY <1>3, <2>1, <2>2
  <1>8. PlanK[1].how = "load" /\ PlanK[1].bad = "FAIL"
    BY <1>1, <1>2
  <1> HIDE DEF Good
  <1>9. ASSUME NEW s, NEW c, <<s, c>> \in Telltale PROVE Good(Plan[s][c])
    BY <1>5, <1>6, <1>7, <1>9 DEF Plan, Telltale
  <1>10. ASSUME NEW s, NEW c, <<s, c>> = <<"K", 1>>
         PROVE  Plan[s][c].how = "load" /\ Plan[s][c].bad = "FAIL"
    BY <1>8, <1>10 DEF Plan
  <1> QED BY <1>9, <1>10 DEF Good

\* A telltale check fails on silence.
LEMMA VerdictTell ==
    ASSUME TypeOK, HeardInv, section # None, Asked
    PROVE  TellOK(Verdict, heard, <<section, check>>)
  <1> DEFINE id == <<section, check>>
             d == Doing
  <1>1. /\ section \in Sections /\ check \in 1..18
        /\ d.bad \in {"WARN", "FAIL"} /\ Sound(d, section, check)
    BY Running, PlanLength, RunningCheck, SoundDoing DEF IsCheck
  <1>2. /\ id \in Telltale =>
             /\ d.how \in {"once", "seen", "billing"} /\ d.bad = "FAIL" /\ Len(d.via) > 0
             /\ d.how = "once" => "none" \notin d.pass
        /\ id = <<"K", 1>> => d.how = "load" /\ d.bad = "FAIL"
    BY <1>1, TellPlan DEF Doing
  <1>3. ASSUME id \in Telltale, \A k \in DOMAIN heard : heard[k] = "none"
        PROVE  Verdict = "FAIL"
    <2>1. ~Skipped
      BY <1>2, <1>3 DEF Skipped
    <2>2. /\ heard \in Seq(Replies) /\ DOMAIN heard = 1..Len(heard) /\ Len(heard) \in Nat
          /\ Len(heard) = Len(d.via)
      BY <1>2, <1>3, <2>1 DEF Asked, TypeOK
    <2>3. 1 \in DOMAIN heard /\ heard[1] = "none"
      BY <1>2, <1>3, <2>2
    <2>4. CASE d.how = "once"
      <3>1. Verdict = Tally(heard[1] \in d.pass) BY <2>1, <2>4 DEF Verdict
      <3>2. (heard[1] \in d.pass) = FALSE BY <1>2, <1>3, <2>3, <2>4
      <3> QED BY <1>2, <1>3, <3>1, <3>2 DEF Tally
    <2>5. CASE d.how = "seen"
      <3>1. Verdict = IF heard[1] \in Serve \ {"good"} THEN "WARN"
                      ELSE Tally(heard[1] = "good")
        BY <2>1, <2>5 DEF Verdict
      <3>2. Verdict = Tally(heard[1] = "good") /\ (heard[1] = "good") = FALSE
        BY <2>3, <3>1 DEF Serve
      <3> QED BY <1>2, <1>3, <3>2 DEF Tally
    <2>6. CASE d.how = "billing"
      <3>1. Verdict = IF \E i \in DOMAIN heard : heard[i] \notin Serve THEN "FAIL"
                      ELSE IF AllSay THEN "PASS" ELSE "WARN"
        BY <2>1, <2>6 DEF Verdict
      <3> QED BY <2>3, <3>1 DEF Serve
    <2> QED BY <1>2, <1>3, <2>4, <2>5, <2>6
  <1>4. ASSUME id = <<"K", 1>> PROVE Verdict \in {"PASS", "FAIL"}
    <2>1. ~Skipped
      BY <1>2, <1>4 DEF Skipped
    <2>2. Verdict = Tally(AllServed)
      BY <1>2, <1>4, <2>1 DEF Verdict
    <2> QED BY <1>2, <1>4, <2>2 DEF Tally
  <1> QED BY <1>3, <1>4 DEF TellOK

\* A check that is read again is judged when all its replies are there.
LEMMA VerdictRead ==
    ASSUME TypeOK, section # None, Asked, <<section, check>> \in Reread
    PROVE  Len(heard) = Requests(<<section, check>>)
  <1> DEFINE d == Doing
  <1>1. \/ section = "E" /\ check \in 2..7
        \/ section = "F" /\ check = 1
        \/ section = "N" /\ check = 1
    BY DEF Reread
  <1>2. d.how \in {"once", "every"} /\ Len(d.via) = Requests(<<section, check>>)
    <2>1. CASE section = "E" /\ check \in 2..7
      <3> DEFINE q == <<Read(Serve, "FAIL")>> \o Times(8, Read(Serve, "WARN")) \o
                      <<Multi("graded", <<>>, {}, "WARN")>> \o
                      Times(4, Read(Absence, "WARN")) \o <<Once(Either, "FAIL")>>
      <3>1. \A c \in 2..9 : q[c] = Read(Serve, "WARN") BY DEF Times
      <3>2. PlanE = q BY DEF PlanE
      <3> HIDE DEF q
      <3>3. d = Read(Serve, "WARN") BY <2>1, <3>1, <3>2 DEF Doing, Plan
      <3>4. Requests(<<section, check>>) = 1 BY <2>1 DEF Requests
      <3> QED BY <3>3, <3>4 DEF Read, Once
    <2>2. CASE section = "F" /\ check = 1
      <3>1. d = Stream(Framed, "FAIL") BY <2>2 DEF Doing, Plan, PlanF
      <3>2. Requests(<<section, check>>) = 1 BY <2>2 DEF Requests
      <3> QED BY <3>1, <3>2 DEF Stream, Once
    <2>3. CASE section = "N" /\ check = 1
      <3>1. d = Multi("every", Times(3, "payload"), Content, "WARN")
        BY <2>3 DEF Doing, Plan, PlanN
      <3>2. Requests(<<section, check>>) = 3 /\ Len(Times(3, "payload")) = 3
        BY <2>3, TimesLength DEF Requests
      <3> QED BY <3>1, <3>2 DEF Multi
    <2> QED BY <1>1, <2>1, <2>2, <2>3
  <1> QED BY <1>2 DEF Asked, Skipped

\* The load check passes only when as many replies as requests are 2xx, and
\* there are no more replies than that.
LEMMA VerdictLoad ==
    ASSUME TypeOK, HeardInv, LoadInv, section = "K", check = 1, Asked, LoadDone,
           Verdict = "PASS"
    PROVE  /\ pool.batch = 0 /\ Len(pool.results) = Total
           /\ \A k \in DOMAIN pool.results : pool.results[k] \in Serve
  <1> DEFINE n == Len(pool.results)
             T == {i \in 1..n : pool.results[i] \in Serve}
  <1>0. section # None
    BY SelectionsAssumption DEF Sections
  <1>1. Doing.how = "load" /\ Doing.bad = "FAIL"
    <2>1. section \in Sections /\ <<section, check>> = <<"K", 1>> /\ check \in 1..18
      BY DEF Sections
    <2> QED BY <2>1, TellPlan DEF Doing
  <1>2. Verdict = Tally(AllServed)
    BY <1>1 DEF Verdict
  <1>3. AllServed
    BY <1>1, <1>2 DEF Tally
  <1>4. /\ pool.results \in Seq(Replies) /\ n \in Nat /\ DOMAIN pool.results = 1..n
        /\ pool.alive \in Nat /\ pool.started = Total /\ Total \in Nat
        /\ pool.batch = 0
    BY LoadAssumption DEF TypeOK, LoadDone
  <1>5. n <= Total
    BY <1>4 DEF LoadInv
  <1>6. Cardinality(T) = Total
    BY <1>3, <1>4 DEF AllServed, Served
  <1>7. IsFiniteSet(1..n) /\ Cardinality(1..n) = n
    <2> HIDE DEF n
    <2>1. n \in Int /\ 1 \in Int BY <1>4
    <2>2. IsFiniteSet(1..n) /\ Cardinality(1..n) = IF 1 > n THEN 0 ELSE n - 1 + 1
      BY <2>1, FS_Interval
    <2>3. (1 > n => n = 0) /\ n - 1 + 1 = n BY <1>4
    <2> QED BY <2>2, <2>3
  <1>8. Cardinality(T) <= n /\ (Cardinality(T) = n => T = 1..n)
    BY <1>7, FS_Subset
  <1> HIDE DEF n, T
  <1>9. n = Total /\ T = 1..n
    BY <1>4, <1>5, <1>6, <1>8
  <1> QED BY <1>4, <1>9 DEF n, T

-----------------------------------------------------------------------------
(***************************************************************************)
(* The steps.                                                              *)
(***************************************************************************)
HealthInv ==
    /\ TypeOK /\ OrderInv /\ HeardInv /\ LoadInv /\ TellInv /\ ReadInv
    /\ PassMeansAnswered

\* A row for the running check, or for its crash, continues the section's.
LEMMA AddRow ==
    ASSUME HealthInv, section # None, NEW r \in Rows, rows' = Append(rows, r),
           UNCHANGED pool, r.sec = section, r.check \in {0, check},
           r.check = 0 => r.status = "FAIL",
           r.check # 0 => PassOK(r.status, Grounds(r.heard), <<r.sec, r.check>>),
           <<r.sec, r.check>> \in Reread => Len(r.heard) = Requests(<<r.sec, r.check>>),
           r.sec = "K" /\ r.check # 0 => pool.batch = 0 /\ pool.started = Total,
           TellOK(r.status, r.heard, <<r.sec, r.check>>)
    PROVE  /\ CheckedInOrder' /\ TellInv' /\ ReadInv' /\ PassMeansAnswered'
           /\ DOMAIN rows' = DOMAIN rows \cup {Len(rows) + 1}
           /\ Len(rows) + 1 \notin DOMAIN rows
           /\ rows'[Len(rows) + 1] = r
           /\ \A i \in DOMAIN rows : rows'[i] = rows[i]
  <1> DEFINE n == Len(rows) + 1
  <1>1. /\ rows \in Seq(Rows) /\ Len(rows) \in Nat /\ DOMAIN rows = 1..Len(rows)
        /\ DOMAIN rows' = DOMAIN rows \cup {n} /\ n \notin DOMAIN rows
        /\ rows'[n] = r /\ \A i \in DOMAIN rows : rows'[i] = rows[i]
        /\ \A i \in DOMAIN rows : i < n /\ ~(n < i) /\ ~(n < n)
    BY DEF HealthInv, TypeOK
  <1>2. section \in Sections /\ check \in Nat /\ check >= 1
    BY Running, PlanLength DEF HealthInv
  <1> HIDE DEF n
  <1>3. CheckedInOrder'
    <2>1. ASSUME NEW i \in DOMAIN rows', NEW c \in 1..(rows'[i].check - 1)
          PROVE  \E j \in DOMAIN rows' : /\ j < i /\ rows'[j].sec = rows'[i].sec
                                         /\ rows'[j].check = c
      <3>1. CASE i \in DOMAIN rows
        <4>1. PICK j \in DOMAIN rows : j < i /\ rows[j].sec = rows[i].sec /\ rows[j].check = c
          BY <1>1, <2>1, <3>1 DEF HealthInv, OrderInv, CheckedInOrder
        <4> QED BY <1>1, <3>1, <4>1
      <3>2. CASE i = n
        <4>1. c \in 1..(check - 1)
          BY <1>1, <1>2, <2>1, <3>2
        <4>2. PICK j \in DOMAIN rows : rows[j].sec = section /\ rows[j].check = c
          BY <4>1 DEF HealthInv, OrderInv
        <4> QED BY <1>1, <3>2, <4>2
      <3> QED BY <1>1, <3>1, <3>2
    <2>2. ASSUME NEW i \in DOMAIN rows', NEW j \in DOMAIN rows', j < i,
                 rows'[j].sec = rows'[i].sec
          PROVE  /\ rows'[j].check # 0
                 /\ rows'[i].check = 0 \/ rows'[j].check < rows'[i].check
      <3>1. CASE i \in DOMAIN rows
        <4>1. j \in DOMAIN rows
          BY <1>1, <2>2, <3>1
        <4> QED BY <1>1, <2>2, <3>1, <4>1 DEF HealthInv, OrderInv, CheckedInOrder
      <3>2. CASE i = n
        <4>1. j \in DOMAIN rows /\ rows[j].sec = section
          BY <1>1, <2>2, <3>2
        <4>2. rows[j].check \in 1..(check - 1)
          BY <4>1 DEF HealthInv, OrderInv
        <4> QED BY <1>1, <1>2, <3>2, <4>1, <4>2
      <3> QED BY <1>1, <3>1, <3>2
    <2> QED BY <2>1, <2>2 DEF CheckedInOrder
  <1>4. TellInv'
    <2> SUFFICES ASSUME NEW i \in DOMAIN rows'
                 PROVE  TellOK(rows'[i].status, rows'[i].heard, <<rows'[i].sec, rows'[i].check>>)
      BY DEF TellInv, TellOK
    <2>1. CASE i \in DOMAIN rows
      <3>1. TellOK(rows[i].status, rows[i].heard, <<rows[i].sec, rows[i].check>>)
        BY <2>1 DEF HealthInv, TellInv, TellOK
      <3> QED BY <1>1, <2>1, <3>1
    <2>2. CASE i = n
      BY <1>1, <2>2
    <2> QED BY <1>1, <2>1, <2>2
  <1>5. PassMeansAnswered'
    <2> DEFINE Old(s, c) == SaidIn(rows, pool.results, s, c)
               New(s, c) == SaidIn(rows', pool'.results, s, c)
    <2> SUFFICES ASSUME NEW i \in DOMAIN rows', rows'[i].status = "PASS"
                 PROVE  PassOK("PASS", New(rows'[i].sec, rows'[i].check),
                               <<rows'[i].sec, rows'[i].check>>)
      BY PassRows DEF PassOK
    <2>1. CASE i \in DOMAIN rows
      <3> DEFINE s == rows[i].sec
                 c == rows[i].check
      <3>1. rows'[i] = rows[i] BY <1>1, <2>1
      <3>2. PassOK("PASS", Old(s, c), <<s, c>>)
        BY <2>1, <3>1, PassRows DEF HealthInv
      <3>3. c \in Nat /\ c >= 1
        <4>1. rows[i] \in Rows BY <1>1, <2>1
        <4>2. c \in 0..18 BY <4>1 DEF Rows
        <4>3. c # 0 BY <2>1, <3>1 DEF HealthInv, ReadInv
        <4> QED BY <4>2, <4>3
      <3>4. s = section => c < check
        <4>1. s = section => c \in 1..(check - 1)
          BY <2>1 DEF HealthInv, OrderInv
        <4> QED BY <1>2, <3>3, <4>1
      <3> HIDE DEF s, c
      <3>5. r.sec = s => r.check \notin ReadBy(s, c)
        BY <1>2, <3>3, <3>4, ReadsBack
      <3>6. New(s, c) = Old(s, c)
        <4>1. CASE s = "K"
          BY <4>1 DEF SaidIn
        <4>2. CASE s # "K"
          <5>1. \A b \in DOMAIN rows' :
                   rows'[b].sec = s /\ rows'[b].check \in ReadBy(s, c) => b \in DOMAIN rows
            BY <1>1, <3>5
          <5> DEFINE Has(rs, b, v) == /\ rs[b].sec = s /\ rs[b].check \in ReadBy(s, c)
                                      /\ \E k \in DOMAIN rs[b].heard : rs[b].heard[k] = v
          <5>2. /\ Old(s, c) = {v \in Replies : \E b \in DOMAIN rows : Has(rows, b, v)}
                /\ New(s, c) = {v \in Replies : \E b \in DOMAIN rows' : Has(rows', b, v)}
            BY <4>2 DEF SaidIn
          <5>3. ASSUME NEW v
                PROVE  (\E b \in DOMAIN rows : Has(rows, b, v)) <=>
                       (\E b \in DOMAIN rows' : Has(rows', b, v))
            <6>1. ASSUME NEW b \in DOMAIN rows PROVE b \in DOMAIN rows' /\ rows'[b] = rows[b]
              BY <1>1
            <6>2. ASSUME NEW b \in DOMAIN rows', Has(rows', b, v) PROVE b \in DOMAIN rows
              BY <5>1, <6>2
            <6> QED BY <6>1, <6>2
          <5> QED BY <5>2, <5>3
        <4> QED BY <4>1, <4>2
      <3> QED BY <3>1, <3>2, <3>6 DEF s, c
    <2>2. CASE i = n
      <3>1. r.check = check /\ r.status = "PASS" /\ check # 0
        BY <1>1, <1>2, <2>2
      <3>2. PassOK("PASS", Grounds(r.heard), <<section, check>>)
        BY <3>1
      <3>3. New(section, check) = Grounds(r.heard)
        <4>1. CASE section = "K"
          BY <4>1 DEF SaidIn, Grounds, Own
        <4>2. CASE section # "K" /\ ~Own(section, check)
          <5>1. check \notin ReadBy(section, check)
            BY <4>2 DEF Own, ReadBy
          <5> QED BY <1>1, <3>1, <4>2, <5>1 DEF SaidIn, Grounds
        <4>3. CASE Own(section, check)
          <5>1. section # "K" /\ ReadBy(section, check) = {check}
            BY <4>3 DEF Own, ReadBy
          <5>2. ASSUME NEW j \in DOMAIN rows, rows[j].sec = section PROVE rows[j].check # check
            <6>1. rows[j].check \in 1..(check - 1)
              BY <5>2 DEF HealthInv, OrderInv
            <6> QED BY <1>2, <6>1
          <5>3. /\ r.heard \in Seq(Replies)
                /\ \A k \in DOMAIN r.heard : r.heard[k] \in Replies
            BY DEF Rows
          <5> QED BY <1>1, <3>1, <4>3, <5>1, <5>2, <5>3 DEF SaidIn, Grounds
        <4> QED BY <4>1, <4>2, <4>3
      <3> QED BY <1>1, <2>2, <3>1, <3>2, <3>3
    <2> QED BY <1>1, <2>1, <2>2
  <1>6. ReadInv'
    BY <1>1 DEF HealthInv, ReadInv
  <1> QED BY <1>1, <1>3, <1>4, <1>5, <1>6 DEF n

\* A check makes some number of requests.
LEMMA RequestsTyped == TypeOK /\ section # None => Len(Doing.via) \in Nat
  BY RunningCheck DEF IsCheck

\* A step that adds no row says nothing new of any, if no reply comes in that
\* one of them rests on.
LEMMA RowsKept ==
    ASSUME HealthInv, UNCHANGED rows,
           \/ UNCHANGED pool
           \/ \A i \in DOMAIN rows : ~(rows[i].sec = "K" /\ rows[i].check # 0)
           \/ /\ pool'.results = pool.results /\ pool'.started = pool.started
              /\ pool.batch = 0 => pool'.batch = 0
    PROVE  CheckedInOrder' /\ TellInv' /\ ReadInv' /\ PassMeansAnswered'
  <1>1. CheckedInOrder /\ TellInv /\ ReadInv /\ PassMeansAnswered
    BY DEF HealthInv, OrderInv
  <1>2. CheckedInOrder'
    BY <1>1 DEF CheckedInOrder
  <1>3. TellInv'
    BY <1>1 DEF TellInv
  <1>4. ReadInv'
    BY <1>1 DEF ReadInv
  <1>5. PassMeansAnswered'
    <2> SUFFICES ASSUME NEW i \in DOMAIN rows, rows[i].status = "PASS"
                 PROVE  PassOK("PASS", SaidIn(rows, pool'.results, rows[i].sec, rows[i].check),
                               <<rows[i].sec, rows[i].check>>)
      BY PassRows DEF PassOK
    <2>1. PassOK("PASS", SaidIn(rows, pool.results, rows[i].sec, rows[i].check),
                 <<rows[i].sec, rows[i].check>>)
      BY <1>1, PassRows
    <2>2. pool'.results = pool.results \/ rows[i].sec # "K"
      BY <1>1 DEF ReadInv
    <2>3. SaidIn(rows, pool'.results, rows[i].sec, rows[i].check) =
             SaidIn(rows, pool.results, rows[i].sec, rows[i].check)
      BY <2>2 DEF SaidIn
    <2> QED BY <2>1, <2>3
  <1> QED BY <1>2, <1>3, <1>4, <1>5

\* The running section's end, or its next check.
LEMMA StepReport ==
    ASSUME HealthInv, section # None, NEW status \in Statuses, Report(status),
           PassOK(status, Grounds(heard), <<section, check>>),
           TellOK(status, heard, <<section, check>>),
           <<section, check>> \in Reread => Len(heard) = Requests(<<section, check>>),
           section = "K" => pool.batch = 0 /\ pool.started = Total,
           section = "K" /\ check = 1 /\ status = "PASS" =>
             /\ pool.batch = 0 /\ Len(pool.results) = Total
             /\ \A k \in DOMAIN pool.results : pool.results[k] \in Serve
    PROVE  HealthInv'
  <1> DEFINE r == [sec |-> section, check |-> check, status |-> status, heard |-> heard]
             n == Len(rows) + 1
  <1>1. section \in Sections /\ check \in 1..Checks(section) /\ check \in Nat
    BY Running, PlanLength DEF HealthInv
  <1>2. r \in Rows /\ r.sec = section /\ r.check = check /\ r.status = status /\ r.heard = heard
    BY <1>1 DEF Rows, HealthInv, TypeOK
  <1>3. /\ rows' = Append(rows, r) /\ heard' = <<>> /\ UNCHANGED <<chosen, todo, pool, exit>>
        /\ IF check = Checks(section)
           THEN section' = None /\ check' = 0
           ELSE section' = section /\ check' = check + 1
    BY DEF Report
  <1> HIDE DEF r
  <1>4. /\ CheckedInOrder' /\ TellInv' /\ ReadInv' /\ PassMeansAnswered'
        /\ DOMAIN rows' = DOMAIN rows \cup {n} /\ n \notin DOMAIN rows
        /\ rows'[n] = r /\ \A i \in DOMAIN rows : rows'[i] = rows[i]
    <2>1. r.check # 0
      BY <1>1, <1>2, PlanLength
    <2> QED BY <1>2, <1>3, <2>1, AddRow
  <1>5. TypeOK'
    BY ReportOK DEF HealthInv
  <1> HIDE DEF n
  <1>6. OrderInv'
    <2>1. section \notin todo /\ chosen # None
      BY DEF HealthInv, TypeOK
    <2>2. \A i \in DOMAIN rows' : rows'[i].sec \notin todo
      BY <1>2, <1>4, <2>1 DEF HealthInv, OrderInv
    <2>3. ASSUME section' # None
          PROVE  /\ \A i \in DOMAIN rows' : rows'[i].sec = section => rows'[i].check \in 1..check
                 /\ \A c \in 1..check :
                       \E i \in DOMAIN rows' : rows'[i].sec = section /\ rows'[i].check = c
      <3>1. check \in 1..check /\ 1..check = (1..(check - 1)) \cup {check}
        BY <1>1
      <3> QED BY <1>2, <1>4, <3>1 DEF HealthInv, OrderInv
    <2>4. section' # None => section' = section /\ (check') - 1 = check
      BY <1>1, <1>3
    <2> QED BY <1>3, <1>4, <2>1, <2>2, <2>3, <2>4 DEF OrderInv
  <1>7. HeardInv'
    <2>1. ASSUME section' # None PROVE Len((Doing.via)') \in Nat
      <3>1. (TypeOK /\ section # None => Len(Doing.via) \in Nat)'
        BY RequestsTyped, PTL
      <3> QED BY <1>5, <2>1, <3>1
    <2>2. heard' = <<>> /\ Len(<<>>) = 0 BY <1>3
    <2> QED BY <2>1, <2>2 DEF HeardInv
  <1>8. LoadInv'
    BY <1>2, <1>3, <1>4 DEF HealthInv, LoadInv
  <1> QED BY <1>4, <1>5, <1>6, <1>7, <1>8 DEF HealthInv

\* A step of the pool's threads, the endpoint or the exit code.
LEMMA StepPool ==
    ASSUME HealthInv, TypeOK', LoadInv',
           UNCHANGED <<chosen, todo, section, check, heard, rows>>,
           \/ UNCHANGED pool
           \/ \A i \in DOMAIN rows : ~(rows[i].sec = "K" /\ rows[i].check # 0)
           \/ /\ pool'.results = pool.results /\ pool'.started = pool.started
              /\ pool.batch = 0 => pool'.batch = 0
    PROVE  HealthInv'
  <1>1. OrderInv' BY RowsKept DEF HealthInv, OrderInv
  <1>2. HeardInv' BY DEF HealthInv, HeardInv, Doing
  <1> QED BY <1>1, <1>2, RowsKept DEF HealthInv

\* None of the rows is of a section the loop comes to.
LEMMA StepEnter ==
    ASSUME HealthInv, TypeOK', NEW s \in todo, Enter(s) PROVE HealthInv'
  <1>1. /\ section = None /\ section' = s /\ check' = 1 /\ todo' = todo \ {s}
        /\ UNCHANGED <<chosen, heard, rows, pool>>
    BY DEF Enter
  <1>2. OrderInv'
    <2>1. \A i \in DOMAIN rows : rows[i].sec \notin todo
      BY DEF HealthInv, OrderInv
    <2>2. chosen' = None => rows' = <<>>
      BY <1>1 DEF HealthInv, OrderInv
    <2>3. (check') - 1 = 0 /\ 1..0 = {}
      BY <1>1
    <2> QED BY <1>1, <2>1, <2>2, <2>3, RowsKept DEF OrderInv
  <1>3. HeardInv'
    <2>1. heard' = <<>> /\ Len(<<>>) = 0
      BY <1>1 DEF HealthInv, HeardInv
    <2>2. (TypeOK /\ section # None => Len(Doing.via) \in Nat)'
      BY RequestsTyped, PTL
    <2> QED BY <2>1, <2>2 DEF HeardInv
  <1>4. LoadInv'
    BY <1>1 DEF HealthInv, LoadInv
  <1> QED BY <1>1, <1>2, <1>3, <1>4, RowsKept DEF HealthInv

\* A check asks only as often as it has requests; the second turn is asked
\* for after a good first one.
LEMMA StepAsk ==
    ASSUME HealthInv, TypeOK', Ask PROVE HealthInv'
  <1>1. /\ section # None /\ ~Asked /\ heard' = Got
        /\ UNCHANGED <<chosen, todo, section, check, rows, pool>>
    BY DEF Ask, report
  <1>2. /\ heard \in Seq(Replies) /\ Len(heard) \in Nat /\ Len(Doing.via) \in Nat
        /\ Len(heard) <= Len(Doing.via) /\ Len(heard) # Len(Doing.via)
        /\ Doing.how = "turns" /\ heard # <<>> => heard[1] = "good"
    BY <1>1, RequestsTyped DEF HealthInv, TypeOK, HeardInv, Asked
  <1>3. /\ Len(Got) = Len(heard) + 1
        /\ heard # <<>> => Got[1] = heard[1]
        /\ heard = <<>> => Len(heard) = 0
    <2>1. \A x : /\ Len(Append(heard, x)) = Len(heard) + 1
                 /\ heard # <<>> => Append(heard, x)[1] = heard[1]
      BY <1>2
    <2> QED BY <2>1 DEF Got
  <1>4. HeardInv'
    <2>1. Doing' = Doing BY <1>1 DEF Doing
    <2>2. Len(heard') <= Len(Doing.via) BY <1>1, <1>2, <1>3
    <2>3. Doing.how = "turns" /\ Len(heard') = 2 => heard'[1] = "good"
      <3> SUFFICES ASSUME Doing.how = "turns", Len(Got) = 2 PROVE Got[1] = "good"
        BY <1>1
      <3>1. heard # <<>> BY <1>3
      <3> QED BY <1>2, <1>3, <3>1
    <2> QED BY <1>1, <2>1, <2>2, <2>3 DEF HeardInv
  <1>5. OrderInv'
    BY <1>1, RowsKept DEF HealthInv, OrderInv
  <1>6. LoadInv'
    BY <1>1 DEF HealthInv, LoadInv
  <1> QED BY <1>1, <1>4, <1>5, <1>6, RowsKept DEF HealthInv

\* A crash row is a FAIL and says nothing of a check.
LEMMA StepCrash ==
    ASSUME HealthInv, TypeOK', Crash PROVE HealthInv'
  <1> DEFINE r == [sec |-> section, check |-> 0, status |-> "FAIL", heard |-> Got]
             n == Len(rows) + 1
  <1>1. section # None /\ section \in Sections
    BY Running DEF Crash, HealthInv
  <1>2. /\ r \in Rows /\ r.sec = section /\ r.check = 0 /\ r.status = "FAIL"
    BY <1>1, GotOK DEF Rows, Statuses, HealthInv
  <1>3. /\ rows' = Append(rows, r) /\ heard' = <<>> /\ section' = None
        /\ UNCHANGED <<chosen, todo, pool>>
    BY DEF Crash
  <1> HIDE DEF r
  <1>4. /\ TellOK(r.status, r.heard, <<r.sec, r.check>>)
        /\ <<r.sec, r.check>> \notin Reread
    BY <1>2 DEF TellOK, Reread
  <1>5. /\ CheckedInOrder' /\ TellInv' /\ ReadInv' /\ PassMeansAnswered'
        /\ DOMAIN rows' = DOMAIN rows \cup {n} /\ n \notin DOMAIN rows
        /\ rows'[n] = r /\ \A i \in DOMAIN rows : rows'[i] = rows[i]
    BY <1>1, <1>2, <1>3, <1>4, AddRow
  <1> HIDE DEF n
  <1>6. OrderInv'
    <2>1. section \notin todo /\ chosen # None
      BY <1>1 DEF HealthInv, TypeOK
    <2>2. \A i \in DOMAIN rows' : rows'[i].sec \notin todo
      BY <1>2, <1>5, <2>1 DEF HealthInv, OrderInv
    <2> QED BY <1>3, <1>5, <2>1, <2>2 DEF OrderInv
  <1>7. HeardInv'
    BY <1>3 DEF HeardInv
  <1>8. LoadInv'
    BY <1>2, <1>3, <1>5 DEF HealthInv, LoadInv
  <1> QED BY <1>5, <1>6, <1>7, <1>8 DEF HealthInv

\* No check of the load has been reported while batches are still started.
LEMMA StepStartBatch ==
    ASSUME HealthInv, TypeOK', StartBatch PROVE HealthInv'
  <1> DEFINE n == LeastOf(Concurrency, Total - pool.started)
  <1>1. /\ section = "K" /\ check = 1
        /\ pool' = [pool EXCEPT !.started = @ + n, !.batch = n, !.alive = n]
        /\ UNCHANGED <<chosen, todo, section, check, heard, rows>>
    BY DEF StartBatch, report
  <1>2. /\ pool.started \in Nat /\ pool.alive \in Nat /\ Len(pool.results) \in Nat
        /\ n \in Nat
    <2>1. /\ pool.started \in Nat /\ pool.alive \in Nat /\ Len(pool.results) \in Nat
      BY LoadAssumption DEF HealthInv, TypeOK
    <2>2. Total - pool.started \in Nat /\ Concurrency \in Nat
      BY <2>1, LoadAssumption DEF StartBatch
    <2>3. \A a, b \in Nat : LeastOf(a, b) \in Nat
      BY DEF LeastOf
    <2> QED BY <2>1, <2>2, <2>3
  <1> HIDE DEF n
  <1>3. /\ pool'.started = pool.started + n /\ pool'.batch = n /\ pool'.alive = n
        /\ pool'.results = pool.results
    BY <1>1 DEF HealthInv, TypeOK
  <1>4. \A i \in DOMAIN rows : rows[i].sec # "K"
    <2>1. section # None BY <1>1, SelectionsAssumption DEF Sections
    <2>2. \A i \in DOMAIN rows : rows[i].sec = "K" => rows[i].check \in 1..0
      BY <1>1, <2>1 DEF HealthInv, OrderInv
    <2> QED BY <2>2
  <1>5. LoadInv'
    BY <1>1, <1>2, <1>3, <1>4 DEF HealthInv, LoadInv
  <1> QED BY <1>1, <1>4, <1>5, StepPool

\* No thread ends after the load check has passed.
LEMMA StepWorker ==
    ASSUME HealthInv, TypeOK', WorkerAnswers \/ WorkerDies PROVE HealthInv'
  <1>1. /\ pool.alive > 0
        /\ UNCHANGED <<chosen, todo, section, check, heard, rows>>
    BY DEF WorkerAnswers, WorkerDies, report
  <1>2. /\ pool.started \in Nat /\ pool.alive \in Nat /\ Len(pool.results) \in Nat
        /\ pool.batch \in Nat
    BY LoadAssumption DEF HealthInv, TypeOK
  <1>3. \A i \in DOMAIN rows : ~(rows[i].sec = "K" /\ rows[i].check # 0)
    <2>1. pool.batch # 0 BY <1>1, <1>2 DEF HealthInv, LoadInv
    <2> QED BY <2>1 DEF HealthInv, ReadInv
  <1>4. /\ pool'.started = pool.started /\ pool'.batch = pool.batch
        /\ pool'.alive = pool.alive - 1
    BY DEF WorkerAnswers, WorkerDies, HealthInv, TypeOK
  <1>5. Len(pool'.results) \in {Len(pool.results), Len(pool.results) + 1}
    <2>1. pool.results \in Seq(Replies)
      BY DEF HealthInv, TypeOK
    <2>2. \A x : Len(Append(pool.results, x)) = Len(pool.results) + 1
      BY <2>1
    <2>3. \/ pool'.results = pool.results
          \/ \E x : pool'.results = Append(pool.results, x)
      BY DEF WorkerAnswers, WorkerDies, HealthInv, TypeOK
    <2> QED BY <2>2, <2>3
  <1>6. LoadInv'
    <2>1. pool'.alive <= pool'.batch
      BY <1>2, <1>4 DEF HealthInv, LoadInv
    <2>2. Len(pool'.results) + pool'.alive <= pool'.started
      BY <1>2, <1>4, <1>5 DEF HealthInv, LoadInv
    <2> QED BY <1>1, <1>3, <2>1, <2>2 DEF LoadInv
  <1> QED BY <1>1, <1>3, <1>6, StepPool

\* Joining a batch whose threads have ended counts no reply.
LEMMA StepJoinBatch ==
    ASSUME HealthInv, TypeOK', JoinBatch PROVE HealthInv'
  <1>1. /\ pool.alive = 0
        /\ UNCHANGED <<chosen, todo, section, check, heard, rows>>
    BY DEF JoinBatch, report
  <1>2. /\ pool'.started = pool.started /\ pool'.batch = 0
        /\ pool'.alive = pool.alive /\ pool'.results = pool.results
    BY DEF JoinBatch, HealthInv, TypeOK
  <1>3. LoadInv'
    BY <1>1, <1>2 DEF HealthInv, LoadInv
  <1> QED BY <1>1, <1>2, <1>3, StepPool

\* A verdict says of its replies what it may.
LEMMA StepJudge ==
    ASSUME HealthInv, Judge PROVE HealthInv'
  <1>1. /\ section # None /\ Asked /\ Report(Verdict) /\ TypeOK /\ HeardInv /\ LoadInv
        /\ section = "K" => LoadDone
    BY DEF Judge, HealthInv
  <1>2. Verdict \in Statuses
    BY <1>1, RunningCheck, VerdictOK
  <1>3. section = "K" /\ check = 1 /\ Verdict = "PASS" =>
           /\ pool.batch = 0 /\ Len(pool.results) = Total
           /\ \A k \in DOMAIN pool.results : pool.results[k] \in Serve
    BY <1>1, VerdictLoad
  <1>4. /\ PassOK(Verdict, Grounds(heard), <<section, check>>)
        /\ TellOK(Verdict, heard, <<section, check>>)
        /\ <<section, check>> \in Reread => Len(heard) = Requests(<<section, check>>)
    BY <1>1, <1>3, VerdictPass, VerdictTell, VerdictRead DEF HealthInv
  <1> QED BY <1>1, <1>2, <1>3, <1>4, StepReport DEF LoadDone

\* A skipped check says nothing of the endpoint.
LEMMA StepLeftOut ==
    ASSUME HealthInv, LeftOut PROVE HealthInv'
  <1>0. Report("SKIP") /\ <<section, check>> \in {<<"S", 10>>, <<"L", 4>>}
    BY DEF LeftOut
  <1>1. section # None /\ section \in {"S", "L"}
    BY <1>0, SelectionsAssumption DEF Sections
  <1>2. PassOK("SKIP", Grounds(heard), <<section, check>>)
    BY DEF PassOK
  <1>3. TellOK("SKIP", heard, <<section, check>>) /\ <<section, check>> \notin Reread
    BY <1>0 DEF TellOK, Telltale, Reread
  <1>4. "SKIP" \in Statuses /\ section # "K"
    BY <1>1 DEF Statuses
  <1> QED BY <1>0, <1>1, <1>2, <1>3, <1>4, StepReport

\* Every step of the program and of the endpoint keeps the invariant.
THEOREM StepHealthInv == HealthInv /\ [Next]_vars => HealthInv'
  <1> SUFFICES ASSUME HealthInv, [Next]_vars PROVE HealthInv'
    OBVIOUS
  <1>0. TypeOK'
    BY StepTypeOK DEF HealthInv
  <1>1. CASE Start
    <2>1. rows = <<>> /\ section = None /\ heard = <<>>
      BY <1>1 DEF Start, HealthInv, OrderInv, HeardInv, TypeOK
    <2>2. UNCHANGED <<section, check, heard, rows, pool>>
      BY <1>1 DEF Start
    <2>3. DOMAIN rows' = {} BY <2>1, <2>2
    <2>4. OrderInv' BY <2>1, <2>2, <2>3, RowsKept DEF OrderInv
    <2>5. HeardInv' BY <2>1, <2>2 DEF HeardInv
    <2>6. LoadInv' BY <2>2 DEF HealthInv, LoadInv
    <2> QED BY <1>0, <2>2, <2>4, <2>5, <2>6, RowsKept DEF HealthInv
  <1>2. ASSUME NEW s \in todo, Enter(s) PROVE HealthInv'
    BY <1>0, <1>2, StepEnter
  <1>3. CASE Ask BY <1>0, <1>3, StepAsk
  <1>4. CASE Crash BY <1>0, <1>4, StepCrash
  <1>5. CASE Judge BY <1>5, StepJudge
  <1>6. CASE LeftOut BY <1>6, StepLeftOut
  <1>7. CASE StartBatch BY <1>0, <1>7, StepStartBatch
  <1>8. CASE WorkerAnswers \/ WorkerDies BY <1>0, <1>8, StepWorker
  <1>9. CASE JoinBatch BY <1>0, <1>9, StepJoinBatch
  <1>10. CASE NoKeys \/ Finish \/ CannotWrite \/ Change \/ UNCHANGED vars
    <2>1. UNCHANGED <<chosen, todo, section, check, heard, rows, pool>>
      BY <1>10 DEF NoKeys, Finish, CannotWrite, Change, vars, report
    <2>2. LoadInv' BY <2>1 DEF HealthInv, LoadInv
    <2> QED BY <1>0, <2>1, <2>2, StepPool
  <1> QED BY <1>1, <1>2, <1>3, <1>4, <1>5, <1>6, <1>7, <1>8, <1>9, <1>10
          DEF Next, Program

\* So it holds throughout every run.
LEMMA HealthInvCorrect == Spec => []HealthInv
  <1>1. Init => HealthInv
    <2> SUFFICES ASSUME Init PROVE HealthInv
      OBVIOUS
    <2>1. TypeOK
      BY LoadAssumption, SelectionsAssumption DEF Init, TypeOK, NoLoad
    <2>2. rows = <<>> /\ DOMAIN rows = {} /\ section = None /\ heard = <<>>
      BY DEF Init
    <2>3. OrderInv /\ HeardInv /\ TellInv /\ ReadInv /\ PassMeansAnswered
      BY <2>2 DEF OrderInv, HeardInv, TellInv, ReadInv, PassMeansAnswered, CheckedInOrder
    <2>4. LoadInv
      BY <2>2 DEF Init, NoLoad, LoadInv
    <2> QED BY <2>1, <2>3, <2>4 DEF HealthInv
  <1> QED BY <1>1, StepHealthInv, PTL DEF Spec

\* No check passes when a reply its verdict rests on was an outage, but twelve
\* that compare replies, leave the failed ones out or never look at the code,
\* and on pure silence only four (kvv_health.py:358, 674-680, 821-824, 975-979,
\* 1034-1039).
THEOREM PassMeansAnsweredCorrect == Spec => []PassMeansAnswered
  <1>1. HealthInv => PassMeansAnswered BY DEF HealthInv
  <1> QED BY <1>1, HealthInvCorrect, PTL

\* The rows of a section are its checks in order, up to the section's end or
\* the crash that cut it short (kvv_health.py:1311-1324).
THEOREM CheckedInOrderCorrect == Spec => []CheckedInOrder
  <1>1. HealthInv => CheckedInOrder BY DEF HealthInv, OrderInv
  <1> QED BY <1>1, HealthInvCorrect, PTL

\* No more threads than asked for, and the load check passes only when each
\* of its requests came back with a 2xx (kvv_health.py:994-1031).
THEOREM LoadHonestCorrect == Spec => []LoadHonest
  <1>1. HealthInv => LoadHonest
    <2> SUFFICES ASSUME HealthInv PROVE LoadHonest
      OBVIOUS
    <2>1. pool.alive \in Nat /\ pool.alive <= Concurrency
      BY LoadAssumption DEF HealthInv, TypeOK
    <2>2. pool.batch = 0 => pool.alive = 0
      BY <2>1 DEF HealthInv, LoadInv
    <2> QED BY <2>1, <2>2 DEF HealthInv, LoadInv, LoadHonest
  <1> QED BY <1>1, HealthInvCorrect, PTL

\* An endpoint that never answers is not reported healthy, unless only checks
\* that warn, or a load of no requests, were chosen
\* (kvv_health.py:1027-1028, 1152-1187, 1357).
THEOREM SilenceFailsCorrect == Spec => []SilenceFails
  <1>1. HealthInv /\ CleanMeansComplete => SilenceFails
    <2> SUFFICES ASSUME HealthInv, CleanMeansComplete, exit = 0,
                        \A i \in DOMAIN rows : \A k \in DOMAIN rows[i].heard :
                            rows[i].heard[k] = "none",
                        \A k \in DOMAIN pool.results : pool.results[k] = "none",
                        NEW s \in chosen, s # "N"
                 PROVE  s = "K" /\ Total = 0
      BY DEF SilenceFails
    <2>1. s \in Full /\ s \in Sections /\ ~Failed
      BY DEF CleanMeansComplete, Promise!CleanMeansComplete, Full
    <2>2. PICK i \in DOMAIN rows : rows[i].sec = s /\ rows[i].check = Checks(s)
      BY <2>1 DEF Full
    <2>3. Checks(s) \in Nat
      BY <2>1, PlanLength
    <2>4. ASSUME NEW c \in 1..Checks(s)
          PROVE  \E j \in DOMAIN rows : rows[j].sec = s /\ rows[j].check = c
      <3>1. CASE c = Checks(s) BY <2>2, <3>1
      <3>2. CASE c # Checks(s)
        <4>1. c \in 1..(rows[i].check - 1) BY <2>2, <2>3, <3>2
        <4> QED BY <2>2, <4>1 DEF HealthInv, OrderInv, CheckedInOrder
      <3> QED BY <3>1, <3>2
    <2>5. ASSUME NEW c \in 1..Checks(s), <<s, c>> \in Telltale PROVE FALSE
      <3>1. PICK j \in DOMAIN rows : rows[j].sec = s /\ rows[j].check = c
        BY <2>4
      <3>2. rows[j].status = "FAIL" BY <2>5, <3>1 DEF HealthInv, TellInv
      <3> QED BY <2>1, <3>2 DEF Failed
    <2>6. s = "K"
      <3>1. Checks(s) >= 1 BY <2>1, PlanLength
      <3>2. Checks("G") >= 2 /\ Checks("L") >= 2
        BY DEF Checks, Plan, PlanG, PlanL
      <3>3. s \in {"A", "B", "C", "D", "E", "F", "H", "I", "J", "M", "S"} =>
               1 \in 1..Checks(s) /\ <<s, 1>> \in Telltale
        BY <2>3, <3>1 DEF Telltale
      <3>4. s \in {"G", "L"} => 2 \in 1..Checks(s) /\ <<s, 2>> \in Telltale
        BY <2>3, <3>2 DEF Telltale
      <3> QED BY <2>1, <2>5, <3>3, <3>4 DEF Sections
    <2>7. PICK j \in DOMAIN rows : rows[j].sec = "K" /\ rows[j].check = 1
      BY <2>1, <2>3, <2>4, <2>6, PlanLength
    <2>8. rows[j].status = "PASS"
      BY <2>1, <2>7 DEF HealthInv, TellInv, Failed
    <2>9. /\ Len(pool.results) = Total
          /\ \A k \in DOMAIN pool.results : pool.results[k] \in Serve
      BY <2>7, <2>8 DEF HealthInv, LoadInv
    <2>10. DOMAIN pool.results = {}
      BY <2>9 DEF Serve
    <2>11. Total = 0
      <3>1. pool.results \in Seq(Replies) BY DEF HealthInv, TypeOK
      <3> DEFINE q == pool.results
      <3>2. Len(q) \in Nat /\ DOMAIN q = 1..Len(q) BY <3>1
      <3>3. DOMAIN q = {} BY <2>10
      <3> DEFINE n == Len(q)
      <3>4. n \in Nat /\ 1..n = {} BY <3>2, <3>3
      <3> HIDE DEF n
      <3>5. n = 0 BY <3>4
      <3> QED BY <2>9, <3>5 DEF n
    <2> QED BY <2>6, <2>11
  <1> QED BY <1>1, HealthInvCorrect, CleanIsComplete, PTL
=============================================================================
