---------------------------- MODULE HealthCheck ----------------------------
(***************************************************************************)
(* eval/harness/kvv_health.py: the API health check run against the public *)
(* endpoint.  Fifteen sections of numbered checks are gone through in      *)
(* order; a check sends one or more requests, and its verdict is a row of  *)
(* the report.  A section ends early if one of its checks raises.  The     *)
(* endpoint is external: between two requests it may start answering in    *)
(* another way, MaxChanges times.  The contents of prompts and answers are *)
(* left out: a reply is what the check that gets it would make of it.      *)
(***************************************************************************)
EXTENDS Integers, Sequences, FiniteSets

CONSTANTS
    Selections,  \* what --only and --skip may leave, as sets of sections
    NumKeys,     \* the customers of customers.tsv
    Concurrency, \* --concurrency
    Total,       \* --concurrent-total
    MaxChanges,  \* bound: changes of the endpoint's behaviour during a run
    None

ASSUME LoadAssumption ==
    /\ NumKeys \in Nat \ {0}
    /\ Concurrency \in Nat \ {0}
    /\ Total \in Nat
    /\ MaxChanges \in Nat

(***************************************************************************)
(* Replies, as http() and stream() return them:                            *)
(*   good     what the check hopes for (of a request it wants refused, the *)
(*            right 4xx)                                                   *)
(*   poor     2xx with a full body that says something else                *)
(*   bare     2xx, a JSON object without its optional fields               *)
(*   reject   400 and a JSON error                                         *)
(*   throttle 429 and a JSON error                                         *)
(*   fault    500 and a JSON error                                         *)
(*   gateway  502 or 504 and the proxy's HTML page: the payload is text    *)
(*   none     code 0 and no payload: no connection, a timeout, a body cut  *)
(*   severed  a stream that breaks off between its last frame and [DONE]:  *)
(*            code 0, the frames are kept                                  *)
(*   torn     an error status whose body cannot be read: e.read() raises   *)
(*            inside the except clause and the exception leaves http()     *)
(***************************************************************************)
Replies == {"good", "poor", "bare", "reject", "throttle", "fault", "gateway",
            "none", "severed", "torn"}

\* What the endpoint's present behaviour makes of one request.
Returned(mode, via) ==
    IF mode = "severed" /\ via # "stream" THEN "none" ELSE mode

Answer  == {"good"}
Serve   == {"good", "poor", "bare"}                    \* ok2xx
Content == {"good", "poor"}                            \* content, usage
Absence == {"good", "bare"}                            \* 2xx and nothing there
Refuse_Below500 == Replies \ {"fault", "gateway", "torn"}
Refuse  == {"good", "reject", "throttle"}              \* 400 <= code < 500
Either  == Serve \cup {"reject", "throttle"}
Closed  == {"good", "reject", "fault"}                 \* 400, 403, 404 or 500
Exact   == {"good", "reject"}                          \* 400
Framed  == {"good", "severed"}                         \* frames, code not read

\* The text or the number a check extracts from a reply to compare it with
\* another's: "" and None are alike.
Said(r) ==
    CASE r \in Framed -> "good"
      [] r = "poor"   -> "poor"
      [] OTHER        -> "nothing"

(***************************************************************************)
(* A check: how it judges, and how each of its requests goes out.          *)
(*   plain    its payload is only read under a test of its type            *)
(*   payload  its payload is read as an object as soon as it is there      *)
(*   late     the same, but after the check's last request                 *)
(*   stream   server-sent events                                           *)
(***************************************************************************)
Once(pass, bad) ==
    [how |-> "once", via |-> <<"plain">>, pass |-> pass, bad |-> bad]
Read(pass, bad)   == [Once(pass, bad) EXCEPT !.via = <<"payload">>]
Stream(pass, bad) == [Once(pass, bad) EXCEPT !.via = <<"stream">>]
Multi(how, via, pass, bad) ==
    [how |-> how, via |-> via, pass |-> pass, bad |-> bad]
Times(n, via) == [i \in 1..n |-> via]

PlanA == <<Once(Answer, "FAIL"), Once(Answer, "FAIL"), Stream(Answer, "FAIL"),
           Once(Answer, "WARN"), Once(Serve, "WARN"), Once(Refuse, "WARN"),
           Once(Closed, "WARN"), Once(Refuse, "WARN")>>

Params == <<"2xx", "2xx", "4xx", "4xx", "2xx", "4xx", "2xx", "4xx", "2xx",
            "4xx", "2xx">>
PlanB == [i \in 1..11 |->
            Once(IF Params[i] = "2xx" THEN Serve ELSE Refuse, "FAIL")] \o
         <<Read(Answer, "WARN"), Once(Refuse, "FAIL"), Once(Absence, "WARN"),
           Multi("alike", Times(2, "plain"), {}, "WARN"),
           Once(Answer, "WARN"), Once(Refuse, "WARN"), Once(Answer, "WARN")>>

PlanC == <<Once(Answer, "FAIL"), Once(Absence, "FAIL"), Once(Answer, "FAIL"),
           Multi("every", Times(5, "plain"), Answer, "FAIL"),
           Once(Answer, "FAIL"), Once(Answer, "FAIL"), Once(Answer, "WARN"),
           Multi("turns", Times(2, "plain"), Answer, "WARN"),
           Stream(Framed, "WARN"), Once(Answer, "FAIL")>>

PlanD == <<Once(Answer, "FAIL"), Once(Answer, "FAIL"), Once(Serve, "WARN")>>

\* E0 is the first check of its section.
PlanE == <<Read(Serve, "FAIL")>> \o Times(8, Read(Serve, "WARN")) \o
         <<Multi("graded", <<>>, {}, "WARN")>> \o
         Times(4, Read(Absence, "WARN")) \o <<Once(Either, "FAIL")>>

PlanF == <<Stream(Framed, "FAIL"), Multi("frames", <<>>, {}, "FAIL"),
           Multi("agree", <<"stream", "plain">>, {}, "WARN"),
           Stream(Answer, "WARN")>>

PlanG == <<Multi("linear", Times(3, "payload"), {}, "WARN"),
           Read(Answer, "FAIL"),
           Multi("last", <<"plain", "payload">>, Answer, "WARN"),
           Multi("alike", <<"late", "stream">>, {}, "WARN"),
           Read(Answer, "WARN")>>

PlanH == <<Multi("seen", <<"plain">>, {}, "FAIL"),
           Multi("seen", <<"plain">>, {}, "FAIL"),
           Once(Content, "WARN"), Once(Serve, "WARN"), Once(Serve, "WARN")>>

PlanI == <<Read(Answer, "FAIL"), Read(Serve, "WARN"), Once(Exact, "WARN"),
           Once(Serve, "FAIL")>>

PlanJ_Warns ==
    [i \in 1..5 |-> Once(IF i = 5 THEN Serve ELSE Answer, "WARN")]
PlanJ == <<Once(Answer, "FAIL"), Once(Answer, "WARN"), Once(Either, "WARN"),
           Multi("surfaces", Times(2, "plain"), {}, "WARN"),
           Once(Serve, "WARN")>>

PlanK == <<Multi("load", <<>>, {}, "FAIL"), Multi("spread", <<>>, {}, "WARN")>>

PlanL == <<Multi("steady", Times(6, "plain"), {}, "WARN"),
           Multi("billing", Times(NumKeys, "payload"), {}, "FAIL"),
           Once(Answer, "WARN"),
           Multi("alias", <<"plain">>, Serve, "FAIL")>>

PlanM == <<Once(Serve, "FAIL"), Once(Serve, "FAIL"), Once(Refuse, "WARN"),
           Once(Serve, "WARN"), Once(Serve, "FAIL"), Once(Serve, "WARN"),
           Once(Serve, "WARN"), Once(Refuse, "WARN")>>

PlanN == <<Multi("every", Times(3, "payload"), Content, "WARN"),
           Multi("correct", <<>>, {}, "WARN"),
           Read(Content, "WARN"), Read(Content, "WARN")>>

PlanS == Times(9, Once(Answer, "FAIL")) \o
         <<Once(Answer, "FAIL"), Once(Serve, "WARN")>>

Plan == [A |-> PlanA, B |-> PlanB, C |-> PlanC, D |-> PlanD, E |-> PlanE,
         F |-> PlanF, G |-> PlanG, H |-> PlanH, I |-> PlanI, J |-> PlanJ,
         K |-> PlanK, L |-> PlanL, M |-> PlanM, N |-> PlanN, S |-> PlanS]
Checks(s) == Len(Plan[s])
Sections == {"A", "B", "C", "D", "E", "F", "G", "H", "I", "J", "K", "L", "M",
             "N", "S"}
Order == <<"A", "B", "C", "D", "E", "F", "G", "H", "I", "J", "K", "L", "M",
           "N", "S">>
Statuses == {"PASS", "WARN", "FAIL", "SKIP"}

\* None is none of the values it stands beside.
ASSUME SelectionsAssumption ==
    /\ Selections \subseteq SUBSET Sections
    /\ None \notin Sections /\ None \notin Selections
    /\ None \notin {0, 1, 2}

VARIABLES
    chosen,  \* the sections of this run, None before the arguments are read
    todo,    \* those the loop has not come to
    section, \* the section running, or None
    check,   \* the number of its check
    heard,   \* the replies that check has had
    rows,    \* R.rows; a row with check 0 is "<section>-ERR"
    pool,    \* section K's threads
    exit,    \* the exit code, None while the run lasts
    mode,    \* how the endpoint answers at present (external)
    changes  \* how often that has changed

vars == <<chosen, todo, section, check, heard, rows, pool, exit, mode, changes>>
report == <<chosen, todo, section, check, rows, exit>>
endpoint == <<mode, changes>>

\* started: idx; batch: threads of the batch being started or joined; alive:
\* those of them not yet ended; results: the replies in worker()'s list.
NoLoad == [started |-> 0, batch |-> 0, alive |-> 0, results |-> <<>>]
LeastOf_First(a, b) == a
LeastOf(a, b) == IF a < b THEN a ELSE b
LoadDone == pool.started = Total /\ pool.batch = 0

Doing == Plan[section][check]

\* The replies a check of this section has had, for a later one that reuses them.
HeardBy(c) ==
    rows[CHOOSE i \in 1..Len(rows) :
            rows[i].sec = section /\ rows[i].check = c].heard
Earlier(c) == HeardBy(c)[1]

\* J4 needs /v1/responses to have answered, L4 a model name to ask for, E9 a
\* level that reported its tokens.
Skipped ==
    \/ Doing.how = "surfaces" /\ Earlier(3) \notin Serve
    \/ Doing.how = "alias" /\ Earlier(3) \notin Content
    \/ Doing.how = "graded" /\ \A c \in 2..7 : Earlier(c) \notin Content

\* The multi-turn check stops after a first turn without a tool call.
Asked ==
    \/ Len(heard) = Len(Doing.via)
    \/ Skipped
    \/ Doing.how = "turns" /\ heard # <<>> /\ heard[1] # "good"

(***************************************************************************)
(* The verdict on the replies.                                             *)
(***************************************************************************)
\* E9: the effort levels that reported their tokens, which must not fall.
Graded == {c \in 2..7 : Earlier(c) \in Content}
Rising == \A c, d \in Graded :
              c < d => ~(Earlier(c) = "good" /\ Earlier(d) = "poor")

\* G1: any two points are on a line, three only if none is off it.
Points == {i \in DOMAIN heard : heard[i] \in Content}
OnLine == Cardinality(Points) = 2 \/ \A i, j \in Points : heard[i] = heard[j]

AllSay == \A i, j \in DOMAIN heard : Said(heard[i]) = Said(heard[j])
Said2xx == {heard[i] : i \in DOMAIN heard} \cap Content

\* K1 counts the 2xx replies against the requests it meant to send.
Served == Cardinality({i \in DOMAIN pool.results : pool.results[i] \in Serve})
AllServed_OfResults == Served = Len(pool.results)
AllServed == Served = Total

Tally(good) == IF good THEN "PASS" ELSE Doing.bad

Verdict ==
    IF Skipped THEN "SKIP" ELSE
    CASE Doing.how = "once"  -> Tally(heard[1] \in Doing.pass)
      [] Doing.how = "every" ->
            Tally(\A i \in DOMAIN heard : heard[i] \in Doing.pass)
      [] Doing.how = "last"  -> Tally(heard[2] \in Doing.pass)
      [] Doing.how = "turns" ->
            IF Len(heard) = 1 THEN "FAIL" ELSE Tally(heard[2] \in Doing.pass)
      [] Doing.how = "alias" -> Tally(heard[1] \in Doing.pass)
      [] Doing.how = "seen"  ->
            IF heard[1] \in Serve \ {"good"} THEN "WARN"
            ELSE Tally(heard[1] = "good")
      [] Doing.how = "alike" -> Tally(AllSay)
      [] Doing.how = "agree" -> Tally(AllSay /\ Said(heard[1]) # "nothing")
      [] Doing.how = "surfaces" ->
            Tally((heard[1] \in Serve) = (heard[2] \in Serve))
      [] Doing.how = "graded"  -> Tally(Cardinality(Graded) > 1 /\ Rising)
      [] Doing.how = "frames"  -> Tally(Earlier(1) \in Content)
      [] Doing.how = "linear"  ->
            IF Cardinality(Points) < 2 THEN "FAIL"
            ELSE IF OnLine THEN "PASS" ELSE "WARN"
      [] Doing.how = "steady"  -> Tally(\E r \in Content : Said2xx = {r})
      [] Doing.how = "billing" ->
            IF \E i \in DOMAIN heard : heard[i] \notin Serve THEN "FAIL"
            ELSE IF AllSay THEN "PASS" ELSE "WARN"
      [] Doing.how = "correct" ->
            Tally(\A k \in 1..3 : HeardBy(1)[k] = "good")
      [] Doing.how = "load"    -> Tally(AllServed)
      [] Doing.how = "spread"  ->
            Tally(\A i \in DOMAIN pool.results :
                      pool.results[i] \notin {"throttle", "fault", "gateway"})

(***************************************************************************)
(* The driver.                                                             *)
(***************************************************************************)
Init ==
    /\ chosen = None /\ todo = {}
    /\ section = None /\ check = 0
    /\ heard = <<>> /\ rows = <<>>
    /\ pool = NoLoad
    /\ exit = None
    /\ mode \in Replies
    /\ changes = 0

NoKeys ==
    /\ chosen = None /\ exit = None
    /\ exit' = 2
    /\ UNCHANGED <<chosen, todo, section, check, heard, rows, pool, endpoint>>

Start ==
    /\ chosen = None /\ exit = None
    /\ chosen' \in Selections
    /\ todo' = chosen'
    /\ UNCHANGED <<section, check, heard, rows, pool, exit, endpoint>>

\* The next section of SECTIONS that is in the order.
Enter(s) ==
    /\ section = None
    /\ s \in todo
    /\ \A i, j \in DOMAIN Order : Order[i] = s /\ j < i => Order[j] \notin todo
    /\ section' = s
    /\ todo' = todo \ {s}
    /\ check' = 1
    /\ UNCHANGED <<chosen, heard, rows, pool, exit, endpoint>>

\* A request of the check comes back.  Reading text as an object raises.
Got == Append(heard, Returned(mode, Doing.via[Len(heard) + 1]))
Raises ==
    LET k == Len(Got) IN
    \/ Got[k] = "torn"
    \/ Got[k] = "gateway" /\ Doing.via[k] = "payload"
    \/ /\ k = Len(Doing.via)
       /\ \E i \in 1..k : Got[i] = "gateway" /\ Doing.via[i] = "late"

Ask ==
    /\ section # None
    /\ ~Asked
    /\ ~Raises
    /\ heard' = Got
    /\ UNCHANGED <<report, pool, endpoint>>

\* Mutants: the exception is swallowed, is a warning, or ends only the check.
Crash_Silent ==
    /\ section # None
    /\ ~Asked /\ Raises
    /\ section' = None /\ check' = 0 /\ heard' = <<>>
    /\ UNCHANGED <<chosen, todo, rows, pool, exit, endpoint>>
Crash_Warns ==
    /\ section # None
    /\ ~Asked /\ Raises
    /\ rows' = Append(rows, [sec |-> section, check |-> 0, status |-> "WARN",
                             heard |-> Got])
    /\ section' = None /\ check' = 0 /\ heard' = <<>>
    /\ UNCHANGED <<chosen, todo, pool, exit, endpoint>>
Crash_Continues ==
    /\ section # None
    /\ ~Asked /\ Raises
    /\ rows' = Append(rows, [sec |-> section, check |-> 0, status |-> "FAIL",
                             heard |-> Got])
    /\ check < Checks(section) /\ check' = check + 1 /\ heard' = <<>>
    /\ UNCHANGED <<chosen, todo, section, pool, exit, endpoint>>

\* The driver's except clause: the rest of the section is not run.
Crash ==
    /\ section # None
    /\ ~Asked
    /\ Raises
    /\ rows' = Append(rows, [sec |-> section, check |-> 0, status |-> "FAIL",
                             heard |-> Got])
    /\ section' = None /\ check' = 0 /\ heard' = <<>>
    /\ UNCHANGED <<chosen, todo, pool, exit, endpoint>>

\* R.add, and on to the next check or out of the section.
Report(status) ==
    /\ rows' = Append(rows, [sec |-> section, check |-> check,
                             status |-> status, heard |-> heard])
    /\ heard' = <<>>
    /\ IF check = Checks(section)
       THEN section' = None /\ check' = 0
       ELSE section' = section /\ check' = check + 1
    /\ UNCHANGED <<chosen, todo, pool, exit, endpoint>>

Judge ==
    /\ section # None
    /\ Asked
    /\ section = "K" => LoadDone
    /\ Report(Verdict)

\* S10 is left out when api-key.txt cannot be read, L4 when the one name that
\* L3 found is the model's own.
LeftOut ==
    /\ heard = <<>>
    /\ \/ section = "S" /\ check = 10
       \/ section = "L" /\ check = 4 /\ Earlier(3) = "poor"
    /\ Report("SKIP")

\* Section K: a batch of threads is started, then joined to the last.
StartBatch ==
    /\ section = "K" /\ check = 1
    /\ pool.batch = 0 /\ pool.started < Total
    /\ LET n == LeastOf(Concurrency, Total - pool.started) IN
       pool' = [pool EXCEPT !.started = @ + n, !.batch = n, !.alive = n]
    /\ UNCHANGED <<report, heard, endpoint>>

WorkerAnswers ==
    /\ pool.alive > 0
    /\ mode # "torn"
    /\ pool' = [pool EXCEPT !.alive = @ - 1,
                            !.results = Append(@, Returned(mode, "plain"))]
    /\ UNCHANGED <<report, heard, endpoint>>

\* An exception that leaves http() ends the thread; nobody is told.
WorkerDies ==
    /\ pool.alive > 0
    /\ mode = "torn"
    /\ pool' = [pool EXCEPT !.alive = @ - 1]
    /\ UNCHANGED <<report, heard, endpoint>>

\* Mutant: the batch is waited for until its replies are in.
JoinBatch_Counts ==
    /\ pool.batch > 0 /\ Len(pool.results) = pool.started
    /\ pool' = [pool EXCEPT !.batch = 0]
    /\ UNCHANGED <<report, heard, endpoint>>
JoinBatch ==
    /\ pool.batch > 0 /\ pool.alive = 0
    /\ pool' = [pool EXCEPT !.batch = 0]
    /\ UNCHANGED <<report, heard, endpoint>>

\* health_results.json is written and the FAILs are counted.
Finish ==
    /\ chosen # None /\ exit = None
    /\ todo = {} /\ section = None
    /\ exit' = IF \E i \in DOMAIN rows : rows[i].status = "FAIL" THEN 1 ELSE 0
    /\ UNCHANGED <<chosen, todo, section, check, heard, rows, pool, endpoint>>

\* The output directory cannot be made, or the file not written: a traceback.
CannotWrite ==
    /\ exit = None
    /\ todo = {} /\ section = None
    /\ exit' = 1
    /\ UNCHANGED <<chosen, todo, section, check, heard, rows, pool, endpoint>>

Program ==
    \/ NoKeys \/ Start \/ (\E s \in todo : Enter(s))
    \/ Ask \/ Crash \/ Judge \/ LeftOut
    \/ StartBatch \/ WorkerAnswers \/ WorkerDies \/ JoinBatch
    \/ Finish \/ CannotWrite

\* The endpoint starts to answer in another way (external).
Change ==
    /\ chosen # None /\ exit = None
    /\ changes < MaxChanges
    /\ changes' = changes + 1
    /\ mode' \in Replies \ {mode}
    /\ UNCHANGED <<report, heard, pool>>

Next == Program \/ Change
Spec == Init /\ [][Next]_vars

\* Every request has a timeout, so the program goes on.
FairSpec == Spec /\ WF_vars(Program)

-----------------------------------------------------------------------------
Rows == [sec : Sections, check : 0..18, status : Statuses, heard : Seq(Replies)]

\* Type invariant; the loop has left the running section out of todo, and a
\* section runs only within a run.
TypeOK ==
    /\ chosen = None \/ chosen \subseteq Sections
    /\ chosen = None => section = None /\ todo = {}
    /\ todo \subseteq Sections
    /\ section \in (Sections \cup {None}) \ todo
    /\ check \in 0..18
    /\ section # None => check \in 1..Checks(section)
    /\ heard \in Seq(Replies)
    /\ rows \in Seq(Rows)
    /\ pool \in [started : 0..Total, batch : 0..Concurrency,
                 alive : 0..Concurrency, results : Seq(Replies)]
    /\ exit \in {None, 0, 1, 2}
    /\ mode \in Replies
    /\ changes \in 0..MaxChanges

Outage == {"none", "gateway", "fault", "severed", "torn"}
Lenient == {<<"A", 7>>, <<"B", 15>>, <<"C", 9>>, <<"E", 10>>, <<"F", 1>>, <<"F", 3>>,
            <<"G", 1>>, <<"G", 3>>, <<"G", 4>>, <<"J", 4>>, <<"K", 2>>, <<"L", 1>>}
Deaf == {<<"B", 15>>, <<"G", 4>>, <<"J", 4>>, <<"K", 2>>}

\* The replies a verdict rests on: those to the check's own requests, to the
\* earlier checks it reads (E9, F2 and N2), or to the threads of the load, where
\* a thread that died of an exception stands for a torn reply.
ReadBy(s, c) ==
    CASE <<s, c>> = <<"E", 10>>                -> 2..7
      [] <<s, c>> \in {<<"F", 2>>, <<"N", 2>>} -> {1}
      [] OTHER                                 -> {c}
RepliesTo(s, c) ==
    IF s = "K"
    THEN {pool.results[k] : k \in DOMAIN pool.results} \cup
         {r \in {"torn"} : Len(pool.results) < Total}
    ELSE {r \in Replies : \E i \in DOMAIN rows :
             /\ rows[i].sec = s /\ rows[i].check \in ReadBy(s, c)
             /\ \E k \in DOMAIN rows[i].heard : rows[i].heard[k] = r}

\* A check does not pass when a reply its verdict rests on was an outage, except
\* twelve that compare replies, leave the failed ones out, or never look at the
\* code; and only four of those pass when nothing at all was answered: B15, G4
\* and J4 compare two answers that are not there, and K2 looks for throttling
\* among codes that are all 0 (kvv_health.py:358, 674-680, 821-824, 975-979,
\* 1034-1039).
PassMeansAnswered ==
    \A i \in DOMAIN rows :
        LET id   == <<rows[i].sec, rows[i].check>>
            said == RepliesTo(rows[i].sec, rows[i].check)
        IN rows[i].status = "PASS" =>
              /\ said \cap Outage # {} => id \in Lenient
              /\ said = {"none"} => id \in Deaf

\* An endpoint that never answers anything is not reported healthy by the exit
\* code, unless nothing is chosen but section N, all of whose checks only warn,
\* and section K with no request to make, whose load check then passes with
\* 0 of 0 (kvv_health.py:1027-1028, 1152-1187, 1357).
SilenceFails ==
    /\ exit = 0
    /\ \A i \in DOMAIN rows : \A k \in DOMAIN rows[i].heard :
            rows[i].heard[k] = "none"
    /\ \A k \in DOMAIN pool.results : pool.results[k] = "none"
    => chosen \subseteq IF Total = 0 THEN {"K", "N"} ELSE {"N"}

\* No more workers run than were asked for, and the load check passes only when
\* every thread came back with a 2xx: a thread that died of an exception, which
\* nothing reports, is missed in the count (kvv_health.py:994-1031).
LoadHonest ==
    /\ pool.alive <= Concurrency
    /\ \A i \in DOMAIN rows :
          rows[i].sec = "K" /\ rows[i].check = 1 /\ rows[i].status = "PASS" =>
             /\ pool.alive = 0
             /\ Len(pool.results) = Total
             /\ \A k \in DOMAIN pool.results : pool.results[k] \in Serve

\* The rows of a section are its checks in order, none twice and none left out,
\* up to the section's end or the crash row (kvv_health.py:1311-1324).
CheckedInOrder ==
    \A i \in DOMAIN rows :
        /\ \A c \in 1..(rows[i].check - 1) :
              \E j \in DOMAIN rows : j < i /\ rows[j].sec = rows[i].sec /\ rows[j].check = c
        /\ \A j \in DOMAIN rows : j < i /\ rows[j].sec = rows[i].sec =>
              /\ rows[j].check # 0
              /\ rows[i].check = 0 \/ rows[j].check < rows[i].check

-----------------------------------------------------------------------------
\* The refinement: what the rows say of each section.
Full == {s \in Sections : \E i \in DOMAIN rows :
            rows[i].sec = s /\ rows[i].check = Checks(s)}
Cut == {s \in Sections : \E i \in DOMAIN rows :
            rows[i].sec = s /\ rows[i].check = 0}
Failed == \E i \in DOMAIN rows : rows[i].status = "FAIL"
Left == IF section = None THEN todo ELSE todo \cup {section}

Promise == INSTANCE HealthReport
               WITH todo <- Left, full <- Full, cut <- Cut, failed <- Failed

\* Whatever the endpoint does, the run behaves as HealthReport says
\* (kvv_health.py:1274-1357).
ImplementsReport == Promise!Spec

\* Exit code 0 means every chosen section reported to its last check and no
\* FAIL anywhere: a crashed section cannot be missed (kvv_health.py:1311-1324).
CleanMeansComplete == Promise!CleanMeansComplete

\* Every run comes to an end and returns a code: the batches of threads are
\* joined even when threads died (kvv_health.py:994-1020).
Ends == <>(exit # None)
=============================================================================
