--------------------------- MODULE GenKeysProofs ---------------------------
(***************************************************************************)
(* What GenKeys promises, for any number of invocations of gen-keys.sh and *)
(* any customers, whatever their names match.                              *)
(*                                                                         *)
(* None of it is inductive.  What all of it rests on is that a run outside *)
(* crossed is alone while it is active (Alone): so what it has read is     *)
(* still the table, and what it has written is still in the file.          *)
(***************************************************************************)
EXTENDS GenKeys, TLAPS

\* Two runs active at once have both been recorded in crossed.
Alone == \A p, q \in Active : p # q => p \in crossed

\* A run that has not begun has no command yet; it is at append only for an
\* add, at sed and rename only for a revoke.
CommandInv ==
    \A p \in Runs :
        /\ run[p].pc = "new" => run[p].cmd = "gen"
        /\ run[p].pc = "check" => run[p].cmd # "gen"
        /\ run[p].pc = "append" => run[p].cmd = "add"
        /\ run[p].pc \in {"sed", "rename"} => run[p].cmd = "revoke"

\* Where a run that meets no other one is, what it read and wrote still holds.
SoloInv ==
    \A p \in Runs \ crossed :
        /\ run[p].pc = "append" => \A r \in tsv : r.name # run[p].name
        /\ run[p].pc = "rename" => run[p].read = Survivors(p)
        /\ run[p].pc \in {"fill", "write"} => ~run[p].mixed
        /\ run[p].pc = "write" => run[p].read = tsv
        /\ run[p].pc \in {"limits", "swap", "test", "reload"} =>
              out = [torn |-> FALSE, rows |-> tsv]
        /\ run[p].pc \in {"test", "reload"} => limits

\* After a good run, and until one goes past its check, all four agree.
HealedInv ==
    last = "good" /\ (\A p \in Active : run[p].pc = "check") =>
        /\ out = [torn |-> FALSE, rows |-> tsv] /\ limits
        /\ nginx = [up |-> TRUE, map |-> tsv, limits |-> TRUE]

IInv == TypeOK /\ Alone /\ CommandInv /\ SoloInv /\ HealedInv

-----------------------------------------------------------------------------
(* Types.                                                                  *)

\* However a run goes to its next point, it keeps its type.
LEMMA MovedType ==
    ASSUME run \in [Runs -> Run], NEW p \in Runs, NEW l \in Points, NEW m \in Maps,
           Goto(p, l) \/ ReadAs(p, l, m) \/ Done(p, l)
    PROVE  run' \in [Runs -> Run]
<1>1. CASE Goto(p, l)
  <2>1. [run[p] EXCEPT !.pc = l] \in Run
    BY DEF Run
  <2> QED BY <1>1, <2>1 DEF Goto
<1>2. CASE ReadAs(p, l, m)
  <2>1. [run[p] EXCEPT !.pc = l, !.read = m] \in Run
    BY DEF Run
  <2> QED BY <1>2, <2>1 DEF ReadAs
<1>3. CASE Done(p, l)
  <2>1. {} \in Maps
    BY DEF Maps
  <2>2. [run[p] EXCEPT !.pc = l, !.read = {}, !.mixed = FALSE] \in Run
    BY <2>1 DEF Run
  <2> QED BY <1>3, <2>2 DEF Done
<1> QED BY <1>1, <1>2, <1>3

USE DEF Maps, Out, Run, Points, Ended, Active

\* A run never leaves the commands, names and points of the script.
LEMMA TypeStep == TypeOK /\ [Next]_vars => TypeOK'
<1> SUFFICES ASSUME TypeOK, [Next]_vars PROVE TypeOK'
  OBVIOUS
<1> USE DEF TypeOK
<1>1. CASE UNCHANGED vars
  BY <1>1 DEF vars
<1>2. CASE RestartNginx
  <2>1. nginx' \in [up : BOOLEAN, map : Maps, limits : BOOLEAN]
    BY <1>2 DEF RestartNginx, Down, OnDisk
  <2> QED BY <1>2, <2>1 DEF RestartNginx
<1>3. ASSUME NEW p \in Runs, Start(p) PROVE TypeOK'
  <2>1. run' \in [Runs -> Run]
    <3>1. CASE Goto(p, "emit")
      BY <3>1, MovedType
    <3>2. ASSUME NEW c \in {"add", "revoke"}, NEW n \in Names,
                 run' = [run EXCEPT ![p].cmd = c, ![p].name = n, ![p].pc = "check"]
          PROVE  run' \in [Runs -> Run]
      <4>1. [run[p] EXCEPT !.cmd = c, !.name = n, !.pc = "check"] \in Run
        BY DEF Commands
      <4> QED BY <3>2, <4>1
    <3> QED BY <1>3, <3>1, <3>2 DEF Start
  <2>2. crossed' \subseteq Runs
    BY <1>3 DEF Start
  <2> QED BY <1>3, <2>1, <2>2 DEF Start
<1>4. ASSUME NEW p \in Runs, Kill(p) PROVE TypeOK'
  <2>1. run' \in [Runs -> Run]
    BY <1>4, MovedType DEF Kill
  <2> QED BY <1>4, <2>1 DEF Kill
<1>5. ASSUME NEW p \in Runs, Step(p) PROVE TypeOK'
  <2>1. CASE Check(p) \/ Refuse(p)
    <3>1. run' \in [Runs -> Run]
      BY <2>1, MovedType DEF Check, Refuse
    <3> QED BY <2>1, <3>1 DEF Check, Refuse
  <2>2. CASE AppendKey(p)
    <3>1. NewRow(p) \in Rows
      BY DEF NewRow, Rows
    <3>2. run' \in [Runs -> Run]
      BY <2>2, MovedType DEF AppendKey
    <3> QED BY <2>2, <3>1, <3>2 DEF AppendKey
  <2>3. CASE SedRead(p)
    <3>1. Survivors(p) \in Maps
      BY DEF Survivors
    <3>2. run' \in [Runs -> Run]
      BY <2>3, <3>1, MovedType DEF SedRead
    <3> QED BY <2>3, <3>2 DEF SedRead
  <2>4. CASE SedRename(p)
    <3>1. run' \in [Runs -> Run]
      BY <2>4, MovedType DEF SedRename
    <3>2. run[p].read \in Maps
      OBVIOUS
    <3> QED BY <2>4, <3>1, <3>2 DEF SedRename
  <2>5. CASE EmitBegin(p)
    <3>1. ASSUME NEW q \in Runs, q # p
          PROVE  run'[q] \in Run
      <4>1. run'[q] = [run[q] EXCEPT !.mixed = run[q].mixed \/ q \in Writing]
        BY <2>5, <3>1 DEF EmitBegin
      <4>2. (run[q].mixed \/ q \in Writing) \in BOOLEAN
        OBVIOUS
      <4> QED BY <4>1, <4>2
    <3>2. run'[p] \in Run
      <4>1. run'[p] = [run[p] EXCEPT !.pc = "fill", !.mixed = Writing # {}]
        BY <2>5 DEF EmitBegin
      <4>2. (Writing # {}) \in BOOLEAN
        OBVIOUS
      <4> QED BY <4>1, <4>2
    <3>3. run' \in [Runs -> Run]
      BY <2>5, <3>1, <3>2 DEF EmitBegin
    <3> QED BY <2>5, <3>3 DEF EmitBegin
  <2>6. CASE EmitRead(p)
    <3>1. run' \in [Runs -> Run]
      BY <2>6, MovedType DEF EmitRead
    <3> QED BY <2>6, <3>1 DEF EmitRead
  <2>7. CASE EmitWrite(p)
    <3>1. EmitEnd(p) \subseteq Out
      <4>1. run[p].read \in Maps /\ {} \in Maps
        OBVIOUS
      <4>2. [torn |-> FALSE, rows |-> run[p].read] \in Out
        BY <4>1
      <4>3. [torn |-> TRUE, rows |-> {}] \in Out
        BY <4>1
      <4> QED BY <4>2, <4>3 DEF EmitEnd
    <3>2. run' \in [Runs -> Run]
      BY <2>7, MovedType DEF EmitWrite
    <3> QED BY <2>7, <3>1, <3>2 DEF EmitWrite
  <2>8. CASE TestOk(p) \/ TestFails(p)
    <3>1. run' \in [Runs -> Run]
      BY <2>8, MovedType DEF TestOk, TestFails
    <3> QED BY <2>8, <3>1 DEF TestOk, TestFails
  <2>9. CASE Reload(p) \/ ReloadFails(p)
    <3>1. Loaded \in [up : BOOLEAN, map : Maps, limits : BOOLEAN]
      BY DEF Loaded, OnDisk
    <3>2. run' \in [Runs -> Run]
      BY <2>9, MovedType DEF Reload, ReloadFails
    <3> QED BY <2>9, <3>1, <3>2 DEF Reload, ReloadFails
  <2>10. CASE LimitsBegin(p) \/ LimitsWrite(p)
    <3>1. run' \in [Runs -> Run]
      BY <2>10, MovedType DEF LimitsBegin, LimitsWrite
    <3> QED BY <2>10, <3>1 DEF LimitsBegin, LimitsWrite
  <2> QED BY <1>5, <2>1, <2>2, <2>3, <2>4, <2>5, <2>6, <2>7, <2>8, <2>9, <2>10 DEF Step
<1> QED BY <1>1, <1>2, <1>3, <1>4, <1>5 DEF Next

-----------------------------------------------------------------------------
(* A run that meets no other one.                                          *)

\* Init establishes the inductive invariant.
LEMMA InitIInv == Init => IInv
<1> SUFFICES ASSUME Init PROVE IInv
  OBVIOUS
<1> USE DEF Init
<1>1. tsv \in Maps /\ out \in Out
  <2>1. PICK N \in SUBSET Names : tsv = [name : N, key : {First}]
    OBVIOUS
  <2>2. tsv \subseteq Rows
    BY <2>1 DEF Rows
  <2> QED BY <2>2
<1>2. TypeOK
  <2>1. (CHOOSE n \in Names : TRUE) \in Names
    BY NamesAssumption
  <2>2. run \in [Runs -> Run]
    BY <2>1 DEF Commands
  <2>3. limits \in BOOLEAN /\ nginx \in [up : BOOLEAN, map : Maps, limits : BOOLEAN]
    BY <1>1
  <2> QED BY <1>1, <2>2, <2>3 DEF TypeOK
<1>3. Active = {}
  OBVIOUS
<1>4. Alone /\ HealedInv
  BY <1>3 DEF Alone, HealedInv
<1>5. CommandInv /\ SoloInv
  BY DEF CommandInv, SoloInv
<1> QED BY <1>2, <1>4, <1>5 DEF IInv

\* What the start of run p changes.
LEMMA StartFrame ==
    ASSUME TypeOK, NEW p \in Runs, Start(p)
    PROVE  /\ run[p].pc = "new" /\ run'[p].read = run[p].read
           /\ \/ run'[p].pc = "emit" /\ run'[p].cmd = run[p].cmd
              \/ run'[p].pc = "check" /\ run'[p].cmd \in {"add", "revoke"}
           /\ \A q \in Runs \ {p} : run'[q] = run[q]
           /\ UNCHANGED <<tsv, out, limits, nginx, last>>
<1> USE DEF TypeOK
<1>1. CASE Goto(p, "emit")
  BY <1>1 DEF Start, Goto
<1>2. ASSUME NEW c \in {"add", "revoke"}, NEW n \in Names,
             run' = [run EXCEPT ![p].cmd = c, ![p].name = n, ![p].pc = "check"]
      PROVE  /\ run'[p].pc = "check" /\ run'[p].cmd = c
             /\ run'[p].read = run[p].read
             /\ \A q \in Runs \ {p} : run'[q] = run[q]
  <2>1. run'[p] = [run[p] EXCEPT !.cmd = c, !.name = n, !.pc = "check"]
    BY <1>2
  <2> QED BY <1>2, <2>1
<1> QED BY <1>1, <1>2 DEF Start

\* A step of an active run p leaves crossed alone, and of the other runs all
\* but the mark that their output was mixed.
LEMMA StepFrame ==
    ASSUME TypeOK, NEW p \in Runs, Step(p) \/ Kill(p)
    PROVE  /\ p \in Active
           /\ crossed' = crossed
           /\ run'[p].cmd = run[p].cmd /\ run'[p].name = run[p].name
           /\ run'[p].pc # "new"
           /\ \A q \in Runs \ {p} :
                 /\ run'[q].pc = run[q].pc /\ run'[q].read = run[q].read
                 /\ run'[q].cmd = run[q].cmd /\ run'[q].name = run[q].name
<1> USE DEF TypeOK
<1>1. CASE Kill(p)
  BY <1>1 DEF Kill, Done
<1>2. CASE Check(p) \/ Refuse(p)
  BY <1>2 DEF Check, Refuse, Goto
<1>3. CASE AppendKey(p) \/ SedRename(p)
  BY <1>3 DEF AppendKey, SedRename, Goto, Done
<1>4. CASE SedRead(p) \/ EmitRead(p)
  BY <1>4 DEF SedRead, EmitRead, ReadAs
<1>5. CASE EmitBegin(p)
  BY <1>5 DEF EmitBegin
<1>6. CASE EmitWrite(p)
  BY <1>6 DEF EmitWrite, Done
<1>7. CASE TestOk(p) \/ TestFails(p)
  BY <1>7 DEF TestOk, TestFails, Goto
<1>8. CASE Reload(p) \/ ReloadFails(p)
  BY <1>8 DEF Reload, ReloadFails, Goto
<1>9. CASE LimitsBegin(p) \/ LimitsWrite(p)
  BY <1>9 DEF LimitsBegin, LimitsWrite, Goto
<1> QED BY <1>1, <1>2, <1>3, <1>4, <1>5, <1>6, <1>7, <1>8, <1>9 DEF Step

\* So a run that is not in crossed is the only active one before its step and
\* after it.
LEMMA StepAlone ==
    ASSUME TypeOK, Alone, NEW p \in Runs, Step(p) \/ Kill(p)
    PROVE  /\ Alone'
           /\ Active' \subseteq Active
           /\ p \notin crossed => Active = {p}
           /\ \A q \in Runs \ {p} : q \notin crossed => q \notin Active'
<1>1. /\ p \in Active
      /\ crossed' = crossed
      /\ \A q \in Runs \ {p} : run'[q].pc = run[q].pc
  BY StepFrame
<1>2. Active' \subseteq Active
  BY <1>1
<1> QED BY <1>1, <1>2 DEF Alone

\* A step of an active run keeps the invariant.
LEMMA StepIInv ==
    ASSUME IInv, NEW p \in Runs, Step(p) \/ Kill(p)
    PROVE  CommandInv' /\ SoloInv' /\ HealedInv'
<1> USE DEF IInv, TypeOK
<1> DEFINE Cmd(q) == /\ run[q].pc = "new" => run[q].cmd = "gen"
                     /\ run[q].pc = "check" => run[q].cmd # "gen"
                     /\ run[q].pc = "append" => run[q].cmd = "add"
                     /\ run[q].pc \in {"sed", "rename"} => run[q].cmd = "revoke"
           Solo(q) == /\ run[q].pc = "append" => \A r \in tsv : r.name # run[q].name
                      /\ run[q].pc = "rename" => run[q].read = Survivors(q)
                      /\ run[q].pc \in {"fill", "write"} => ~run[q].mixed
                      /\ run[q].pc = "write" => run[q].read = tsv
                      /\ run[q].pc \in {"limits", "swap", "test", "reload"} =>
                            out = [torn |-> FALSE, rows |-> tsv]
                      /\ run[q].pc \in {"test", "reload"} => limits
           Agree == /\ out = [torn |-> FALSE, rows |-> tsv] /\ limits
                    /\ nginx = [up |-> TRUE, map |-> tsv, limits |-> TRUE]
           Past == run'[p].pc \notin Ended \cup {"check"}
<1>1. /\ p \in Active
      /\ crossed' = crossed
      /\ run'[p].cmd = run[p].cmd /\ run'[p].name = run[p].name
      /\ \A q \in Runs \ {p} :
            /\ run'[q].pc = run[q].pc /\ run'[q].read = run[q].read
            /\ run'[q].cmd = run[q].cmd /\ run'[q].name = run[q].name
  BY StepFrame
<1>2. /\ p \notin crossed => Active = {p}
      /\ \A q \in Runs \ {p} : q \notin crossed => q \notin Active'
  BY StepAlone
<1>3. Cmd(p) /\ (p \notin crossed => Solo(p))
  BY DEF CommandInv, SoloInv
<1>4. /\ Cmd(p)'
      /\ p \notin crossed => Solo(p)'
      /\ \/ Past \/ last' = "bad" \/ Agree'
         \/ (run[p].pc = "check" /\ UNCHANGED <<tsv, out, limits, nginx, last>>)
  <2>1. CASE Kill(p)
    BY <2>1 DEF Kill, Done
  <2>2. CASE Check(p)
    <3>1. /\ run[p].pc = "check" /\ (Known(p) <=> run[p].cmd = "revoke")
          /\ run'[p].pc = IF run[p].cmd = "add" THEN "append" ELSE "sed"
          /\ tsv' = tsv
      BY <2>2 DEF Check, MayGoOn, Goto
    <3>2. ~Known(p) => \A r \in tsv : r.name # run[p].name
      BY MatchesAssumption DEF Known
    <3> QED BY <1>1, <1>3, <3>1, <3>2 DEF Commands
  <2>3. CASE Refuse(p)
    BY <2>3 DEF Refuse, Goto
  <2>4. CASE AppendKey(p)
    BY <2>4 DEF AppendKey, Goto
  <2>5. CASE SedRead(p)
    <3>1. /\ run[p].pc = "sed"
          /\ run'[p].pc = "rename" /\ run'[p].read = Survivors(p)
      BY <2>5 DEF SedRead, ReadAs
    <3>2. Survivors(p)' = Survivors(p)
      BY <1>1, <2>5 DEF SedRead, Survivors
    <3> QED BY <1>1, <1>3, <3>1, <3>2
  <2>6. CASE SedRename(p)
    BY <2>6 DEF SedRename, Done
  <2>7. CASE EmitBegin(p)
    <3>1. run'[p].pc = "fill" /\ run'[p].mixed = (Writing # {})
      BY <2>7 DEF EmitBegin
    <3>2. p \notin crossed => Writing = {}
      BY <1>2, <2>7 DEF EmitBegin, Writing
    <3> QED BY <3>1, <3>2
  <2>8. CASE EmitRead(p)
    BY <1>3, <2>8 DEF EmitRead, ReadAs
  <2>9. CASE EmitWrite(p)
    BY <1>3, <2>9 DEF EmitWrite, EmitEnd, Done
  <2>10. CASE TestOk(p) \/ TestFails(p)
    BY <1>3, <2>10 DEF TestOk, TestFails, Goto
  <2>11. CASE Reload(p) \/ ReloadFails(p)
    BY <1>3, <2>11 DEF Reload, ReloadFails, Loaded, OnDisk, Goto
  <2>12. CASE LimitsBegin(p) \/ LimitsWrite(p)
    BY <1>3, <2>12 DEF LimitsBegin, LimitsWrite, Goto
  <2> QED BY <2>1, <2>2, <2>3, <2>4, <2>5, <2>6, <2>7, <2>8, <2>9, <2>10, <2>11, <2>12
          DEF Step
<1>5. CommandInv'
  BY <1>1, <1>4 DEF CommandInv
<1>6. SoloInv'
  BY <1>1, <1>2, <1>4 DEF SoloInv
<1>7. HealedInv'
  <2>1. SUFFICES ASSUME last' = "good", \A q \in Active' : run'[q].pc = "check"
                 PROVE  Agree'
    BY DEF HealedInv
  <2>2. ~Past
    BY <2>1
  <2>3. CASE run[p].pc = "check" /\ UNCHANGED <<tsv, out, limits, nginx, last>>
    <3>1. \A q \in Active : run[q].pc = "check"
      BY <1>1, <2>1, <2>3
    <3> QED BY <2>1, <2>3, <3>1 DEF HealedInv
  <2> QED BY <1>4, <2>1, <2>2, <2>3
<1> QED BY <1>5, <1>6, <1>7

\* So do the start of a run and of nginx.
LEMMA StartIInv ==
    ASSUME IInv, (\E p \in Runs : Start(p)) \/ RestartNginx
    PROVE  Alone' /\ CommandInv' /\ SoloInv' /\ HealedInv'
<1> USE DEF IInv, TypeOK
<1>1. ASSUME NEW p \in Runs, Start(p)
      PROVE  Alone' /\ CommandInv' /\ SoloInv' /\ HealedInv'
  <2>1. /\ run[p].pc = "new" /\ UNCHANGED <<tsv, out, limits, nginx, last>>
        /\ run'[p].pc \in {"emit", "check"}
        /\ run'[p].pc = "check" => run'[p].cmd # "gen"
        /\ \A q \in Runs \ {p} : run'[q] = run[q]
    BY <1>1, StartFrame
  <2>2. crossed' = IF Active = {} THEN crossed ELSE crossed \cup Active \cup {p}
    BY <1>1 DEF Start
  <2>3. Active' = Active \cup {p}
    BY <2>1
  <2>4. Alone'
    BY <2>2, <2>3 DEF Alone
  <2>5. CommandInv'
    BY <2>1 DEF CommandInv
  <2>6. SoloInv'
    BY <2>1, <2>2 DEF SoloInv, Survivors
  <2>7. HealedInv'
    BY <2>1, <2>3 DEF HealedInv
  <2> QED BY <2>4, <2>5, <2>6, <2>7
<1>2. CASE RestartNginx
  <2>1. Alone' /\ CommandInv' /\ SoloInv'
    BY <1>2 DEF RestartNginx, Alone, CommandInv, SoloInv, Survivors
  <2>2. HealedInv'
    BY <1>2 DEF RestartNginx, OnDisk, HealedInv
  <2> QED BY <2>1, <2>2
<1> QED BY <1>1, <1>2

\* The inductive invariant, and with it the types, hold in every state.
THEOREM IInvCorrect == Spec => []IInv
<1>1. IInv /\ [Next]_vars => IInv'
  <2> SUFFICES ASSUME IInv, [Next]_vars PROVE IInv'
    OBVIOUS
  <2>1. TypeOK'
    BY TypeStep DEF IInv
  <2>2. CASE UNCHANGED vars
    BY <2>1, <2>2 DEF vars, IInv, Alone, CommandInv, SoloInv, HealedInv, Survivors
  <2>3. CASE Next
    BY <2>1, <2>3, StepAlone, StepIInv, StartIInv DEF Next, IInv
  <2> QED BY <2>2, <2>3
<1> QED BY InitIInv, <1>1, PTL DEF Spec

\* The table, the generated map, nginx and every run keep their types.
THEOREM TypeCorrect == Spec => []TypeOK
<1>1. IInv => TypeOK
  BY DEF IInv
<1> QED BY IInvCorrect, <1>1, PTL

\* A run that succeeds without meeting another one leaves the table, the
\* generated file and nginx in agreement, whatever happened before it.
THEOREM SoloRunHealsCorrect == Spec => []SoloRunHeals
<1>1. IInv => SoloRunHeals
  BY DEF IInv, HealedInv, SoloRunHeals
<1> QED BY IInvCorrect, <1>1, PTL

-----------------------------------------------------------------------------
(* What happens to the rows, whatever the overlapping runs do to them.     *)

\* The rows of T keep distinct names, but for an add that met another run.
OneKey(T) ==
    \A r, s \in T :
        r.name = s.name => r = s \/ r.key \in crossed \/ s.key \in crossed

\* So do the table and what a revoke is about to put in its place.
NamesInv == OneKey(tsv) /\ \A q \in Runs : run[q].pc = "rename" => OneKey(run[q].read)

\* Someone revoked the key of p, or overwrote it with an older table.
Lost(p) == \E q \in Runs : /\ run[q].cmd = "revoke" /\ run[q].pc # "new"
                           /\ \/ run[p].name \in Matches[run[q].name]
                              \/ {p, q} \subseteq crossed

\* An add that got past its append is in the table, and in what a revoke is
\* about to put in its place, or its key was lost.
Appended == {"emit", "fill", "write", "limits", "swap", "test", "reload", "ok"}
Kept(p) == /\ NewRow(p) \in tsv
           /\ \A q \in Runs : run[q].pc = "rename" => NewRow(p) \in run[q].read
AddedInv == \A p \in Runs : run[p].cmd = "add" /\ run[p].pc \in Appended => Kept(p) \/ Lost(p)

\* A key is nowhere before its add has appended it.
Seen == tsv \cup out.rows \cup nginx.map \cup UNION {run[q].read : q \in Runs}
Early(p) == run[p].pc \in {"new", "check", "append"}
FreshInv == \A p \in Runs : Early(p) => \A r \in Seen : r.key # p

\* While no two runs have overlapped, a whole file holds every listed customer
\* whom nginx serves.
ServedInv == crossed = {} /\ ~out.torn => nginx.map \cap tsv \subseteq out.rows

KInv == NamesInv /\ AddedInv /\ FreshInv /\ ServedInv

\* Before anything has run, every key is First.
LEMMA InitKInv == Init => KInv
<1> SUFFICES ASSUME Init PROVE KInv
  OBVIOUS
<1>1. PICK N \in SUBSET Names : tsv = [name : N, key : {First}]
  BY DEF Init
<1>2. /\ out = [torn |-> FALSE, rows |-> tsv]
      /\ nginx = [up |-> TRUE, map |-> tsv, limits |-> TRUE]
      /\ \A p \in Runs : run[p].read = {} /\ run[p].pc = "new"
  BY DEF Init
<1>3. NamesInv
  BY <1>1, <1>2 DEF NamesInv, OneKey
<1>4. AddedInv /\ ServedInv
  BY <1>2 DEF AddedInv, ServedInv, Appended
<1>5. FreshInv
  BY <1>1, <1>2, FirstAssumption DEF FreshInv, Seen
<1> QED BY <1>3, <1>4, <1>5 DEF KInv

\* No step brings back a key, or makes one up before its add appends it.
LEMMA StepFresh ==
    ASSUME IInv, FreshInv, [Next]_vars
    PROVE  FreshInv'
<1> USE DEF IInv, TypeOK
<1>1. ASSUME NEW p \in Runs, Step(p) \/ Kill(p) PROVE FreshInv'
  <2>1. /\ p \in Active
        /\ \A q \in Runs \ {p} : run'[q].pc = run[q].pc /\ run'[q].read = run[q].read
    BY <1>1, StepFrame
  <2>2. /\ Early(p)' => Early(p)
        /\ out'.rows \cup nginx'.map \cup run'[p].read \subseteq Seen
        /\ tsv' \subseteq Seen \/ AppendKey(p)
    <3>1. CASE Kill(p)
      BY <3>1 DEF Kill, Done, Early, Seen
    <3>2. CASE Check(p) \/ Refuse(p)
      BY <3>2 DEF Check, Refuse, Goto, Early, Seen
    <3>3. CASE AppendKey(p)
      BY <3>3 DEF AppendKey, Goto, Early, Seen
    <3>4. CASE SedRead(p) \/ EmitRead(p)
      <4>1. /\ run[p].pc \in {"sed", "fill"} /\ run'[p].pc \in {"rename", "write"}
            /\ run'[p].read \in {Survivors(p), tsv}
            /\ UNCHANGED <<tsv, out, nginx>>
        BY <3>4 DEF SedRead, EmitRead, ReadAs
      <4> QED BY <4>1 DEF Survivors, Early, Seen
    <3>5. CASE SedRename(p)
      BY <3>5 DEF SedRename, Done, Early, Seen
    <3>6. CASE EmitBegin(p)
      <4>1. run'[p].pc = "fill" /\ run'[p].read = run[p].read
        BY <3>6 DEF EmitBegin
      <4>2. out'.rows = {} /\ UNCHANGED <<tsv, nginx>>
        BY <3>6 DEF EmitBegin
      <4> QED BY <4>1, <4>2 DEF Early, Seen
    <3>7. CASE EmitWrite(p)
      BY <3>7 DEF EmitWrite, EmitEnd, Done, Early, Seen
    <3>8. CASE TestOk(p) \/ TestFails(p)
      BY <3>8 DEF TestOk, TestFails, Goto, Early, Seen
    <3>9. CASE Reload(p) \/ ReloadFails(p)
      BY <3>9 DEF Reload, ReloadFails, Loaded, OnDisk, Goto, Early, Seen
    <3>10. CASE LimitsBegin(p) \/ LimitsWrite(p)
      BY <3>10 DEF LimitsBegin, LimitsWrite, Goto, Early, Seen
    <3> QED BY <1>1, <3>1, <3>2, <3>3, <3>4, <3>5, <3>6, <3>7, <3>8, <3>9, <3>10 DEF Step
  <2>3. \A q \in Runs : Early(q)' => Early(q)
    BY <2>1, <2>2 DEF Early
  <2>4. UNION {run'[q].read : q \in Runs} \subseteq Seen
    BY <2>1, <2>2 DEF Seen
  <2>5. CASE AppendKey(p)
    <3>1. Seen' \subseteq Seen \cup {NewRow(p)}
      BY <2>2, <2>4, <2>5 DEF AppendKey, Seen
    <3>2. ~Early(p)' /\ NewRow(p).key = p
      BY <2>5 DEF AppendKey, Goto, Early, NewRow
    <3> QED BY <2>3, <3>1, <3>2 DEF FreshInv
  <2>6. CASE ~AppendKey(p)
    <3>1. Seen' \subseteq Seen
      BY <2>2, <2>4, <2>6 DEF Seen
    <3> QED BY <2>3, <3>1 DEF FreshInv
  <2> QED BY <2>5, <2>6
<1>2. CASE UNCHANGED <<tsv, out>> /\ nginx'.map \in {nginx.map, {}, out.rows}
           /\ \A q \in Runs : run'[q].read = run[q].read /\ (Early(q)' => Early(q))
  <2>1. Seen' \subseteq Seen
    BY <1>2 DEF Seen
  <2> QED BY <1>2, <2>1 DEF FreshInv
<1>3. ASSUME NEW p \in Runs, Start(p) PROVE FreshInv'
  <2>1. /\ run[p].pc = "new" /\ UNCHANGED <<tsv, out, nginx>>
        /\ \A q \in Runs \ {p} : run'[q] = run[q]
        /\ run'[p].read = run[p].read
    BY <1>3, StartFrame
  <2> QED BY <1>2, <2>1 DEF Early
<1>4. CASE RestartNginx \/ UNCHANGED vars
  BY <1>2, <1>4 DEF RestartNginx, Down, OnDisk, vars, Early
<1> QED BY <1>1, <1>3, <1>4 DEF Next

\* A step of an active run keeps the names distinct and the added keys.
LEMMA StepRows ==
    ASSUME IInv, KInv, NEW p \in Runs, Step(p) \/ Kill(p)
    PROVE  NamesInv' /\ AddedInv'
<1> USE DEF IInv, TypeOK
<1>1. /\ p \in Active
      /\ crossed' = crossed
      /\ run'[p].cmd = run[p].cmd /\ run'[p].name = run[p].name
      /\ run'[p].pc # "new"
      /\ \A q \in Runs \ {p} :
            /\ run'[q].pc = run[q].pc /\ run'[q].read = run[q].read
            /\ run'[q].cmd = run[q].cmd /\ run'[q].name = run[q].name
  BY StepFrame
<1>2. \A q \in Runs : run'[q].cmd = run[q].cmd /\ run'[q].name = run[q].name
                      /\ (run[q].pc # "new" => run'[q].pc # "new")
  BY <1>1
<1>3. \A q \in Runs : NewRow(q)' = NewRow(q) /\ (Lost(q) => Lost(q)')
  BY <1>1, <1>2 DEF NewRow, Lost
<1>4. /\ run[p].pc = "append" => run[p].cmd = "add"
      /\ run[p].pc \in {"sed", "rename"} => run[p].cmd = "revoke"
  BY DEF CommandInv
<1>5. \A T : OneKey(T)' = OneKey(T)
  BY <1>1 DEF OneKey
<1>6. CASE AppendKey(p)
  <2>1. /\ run[p].pc = "append" /\ run'[p].pc = "emit"
        /\ tsv' = tsv \cup {NewRow(p)}
    BY <1>6 DEF AppendKey, Goto
  <2>2. OneKey(tsv)'
    <3>1. p \in crossed \/ \A r \in tsv : r.name # run[p].name
      BY <2>1 DEF SoloInv
    <3> QED BY <1>1, <2>1, <3>1 DEF KInv, NamesInv, OneKey, NewRow
  <2>3. NamesInv'
    BY <1>1, <1>5, <2>1, <2>2 DEF KInv, NamesInv
  <2>4. Kept(p)' \/ Lost(p)'
    <3>1. ASSUME NEW q \in Runs, run'[q].pc = "rename" PROVE Lost(p)'
      <4>1. q # p /\ q \in Active /\ run[q].pc = "rename"
        BY <1>1, <2>1, <3>1
      <4>2. {p, q} \subseteq crossed /\ run[q].cmd = "revoke"
        BY <1>1, <4>1 DEF Alone, CommandInv
      <4> QED BY <1>1, <1>2, <4>1, <4>2 DEF Lost
    <3>2. NewRow(p)' \in tsv'
      BY <1>3, <2>1
    <3> QED BY <3>1, <3>2 DEF Kept
  <2>5. \A q \in Runs \ {p} : Kept(q) => Kept(q)'
    BY <1>1, <1>3, <2>1 DEF Kept
  <2> QED BY <1>1, <1>3, <2>3, <2>4, <2>5 DEF KInv, AddedInv
<1>7. CASE SedRename(p)
  <2>1. /\ run[p].pc = "rename" /\ run'[p].pc = "emit" /\ tsv' = run[p].read
    BY <1>7 DEF SedRename, Done
  <2>2. NamesInv'
    BY <1>1, <1>5, <2>1 DEF KInv, NamesInv
  <2>3. \A q \in Runs : Kept(q) => Kept(q)'
    BY <1>1, <1>3, <2>1 DEF Kept
  <2> QED BY <1>1, <1>3, <1>4, <2>1, <2>2, <2>3 DEF KInv, AddedInv
<1>8. CASE SedRead(p)
  <2>1. /\ run[p].pc = "sed" /\ run'[p].pc = "rename"
        /\ run'[p].read = Survivors(p) /\ tsv' = tsv
    BY <1>8 DEF SedRead, ReadAs
  <2>2. NamesInv'
    BY <1>1, <1>5, <2>1 DEF KInv, NamesInv, OneKey, Survivors
  <2>3. ASSUME NEW q \in Runs, Kept(q) PROVE Kept(q)' \/ Lost(q)'
    <3>1. CASE run[q].name \in Matches[run[p].name]
      BY <1>1, <1>2, <1>4, <2>1, <3>1 DEF Lost
    <3>2. CASE run[q].name \notin Matches[run[p].name]
      <4>1. NewRow(q) \in Survivors(p)
        BY <2>3, <3>2 DEF Kept, Survivors, NewRow
      <4> QED BY <1>1, <1>3, <2>1, <2>3, <4>1 DEF Kept
    <3> QED BY <3>1, <3>2
  <2> QED BY <1>1, <1>3, <1>4, <2>1, <2>2, <2>3 DEF KInv, AddedInv
<1>9. CASE ~AppendKey(p) /\ ~SedRename(p) /\ ~SedRead(p)
  <2>1. tsv' = tsv
    BY <1>9 DEF Step, Kill, Check, Refuse, EmitBegin, EmitRead, EmitWrite,
                LimitsBegin, LimitsWrite, TestOk, TestFails, Reload, ReloadFails
  <2>2. /\ run'[p].pc # "rename"
        /\ run'[p].pc \in Appended => run[p].pc \in Appended
    <3>1. CASE Kill(p) \/ Check(p) \/ Refuse(p)
      BY <3>1 DEF Kill, Done, Check, Refuse, Goto, Appended
    <3>2. CASE EmitBegin(p) \/ EmitRead(p)
      BY <3>2 DEF EmitBegin, EmitRead, ReadAs, Appended
    <3>3. CASE EmitWrite(p)
      BY <3>3 DEF EmitWrite, Done, Appended
    <3>4. CASE LimitsBegin(p) \/ LimitsWrite(p)
      BY <3>4 DEF LimitsBegin, LimitsWrite, Goto, Appended
    <3>5. CASE TestOk(p) \/ TestFails(p) \/ Reload(p) \/ ReloadFails(p)
      BY <3>5 DEF TestOk, TestFails, Reload, ReloadFails, Goto, Appended
    <3> QED BY <1>9, <3>1, <3>2, <3>3, <3>4, <3>5 DEF Step
  <2>3. NamesInv'
    BY <1>1, <1>5, <2>1, <2>2 DEF KInv, NamesInv
  <2>4. \A q \in Runs : Kept(q) => Kept(q)'
    BY <1>1, <1>3, <2>1, <2>2 DEF Kept
  <2> QED BY <1>1, <1>3, <2>2, <2>3, <2>4 DEF KInv, AddedInv
<1> QED BY <1>6, <1>7, <1>8, <1>9

\* While no two runs have overlapped, it keeps the listed customers served.
LEMMA StepServed ==
    ASSUME IInv, KInv, NEW p \in Runs, Step(p) \/ Kill(p)
    PROVE  ServedInv'
<1> USE DEF IInv, TypeOK
<1>1. crossed' = crossed
  BY StepFrame
<1> SUFFICES ASSUME crossed = {} PROVE ServedInv'
  BY <1>1 DEF ServedInv
<1>2. /\ run[p].pc = "rename" => run[p].read = Survivors(p)
      /\ run[p].pc = "write" => run[p].read = tsv
      /\ run[p].pc \in {"fill", "write"} => ~run[p].mixed
      /\ run[p].pc = "reload" => out = [torn |-> FALSE, rows |-> tsv]
  BY DEF SoloInv
<1>3. ~out.torn => nginx.map \cap tsv \subseteq out.rows
  BY DEF KInv, ServedInv
<1>4. CASE AppendKey(p)
  <2>1. /\ run[p].pc = "append"
        /\ tsv' = tsv \cup {NewRow(p)} /\ UNCHANGED <<out, nginx>>
    BY <1>4 DEF AppendKey
  <2>2. NewRow(p) \notin nginx.map
    BY <2>1 DEF KInv, FreshInv, Early, Seen, NewRow
  <2> QED BY <1>3, <2>1, <2>2 DEF ServedInv
<1>5. CASE SedRename(p)
  BY <1>2, <1>3, <1>5 DEF SedRename, Survivors, ServedInv
<1>6. CASE EmitBegin(p)
  BY <1>6 DEF EmitBegin, ServedInv
<1>7. CASE EmitWrite(p)
  BY <1>2, <1>7 DEF EmitWrite, EmitEnd, ServedInv
<1>8. CASE Reload(p)
  BY <1>2, <1>3, <1>8 DEF Reload, Loaded, OnDisk, ServedInv
<1>9. CASE UNCHANGED <<tsv, out, nginx>>
  BY <1>3, <1>9 DEF ServedInv
<1> QED BY <1>4, <1>5, <1>6, <1>7, <1>8, <1>9
        DEF Step, Kill, Check, Refuse, SedRead, EmitRead, LimitsBegin,
            LimitsWrite, TestOk, TestFails, ReloadFails

\* So do the start of a run and of nginx.
LEMMA StartKInv ==
    ASSUME IInv, KInv, (\E p \in Runs : Start(p)) \/ RestartNginx
    PROVE  NamesInv' /\ AddedInv' /\ ServedInv'
<1> USE DEF IInv, TypeOK
<1>1. ASSUME NEW p \in Runs, Start(p) PROVE NamesInv' /\ AddedInv' /\ ServedInv'
  <2>1. /\ run[p].pc = "new" /\ UNCHANGED <<tsv, out, nginx>>
        /\ crossed \subseteq crossed'
        /\ \A q \in Runs \ {p} : run'[q] = run[q]
    BY <1>1, StartFrame DEF Start
  <2>2. run'[p].pc # "new" /\ (run'[p].pc = "emit" => run'[p].cmd = "gen")
        /\ run'[p].pc \in {"emit", "check"}
    BY <1>1, StartFrame DEF CommandInv
  <2>3. NamesInv' /\ ServedInv'
    BY <2>1, <2>2 DEF KInv, NamesInv, OneKey, ServedInv
  <2>4. \A q \in Runs \ {p} : Lost(q) => Lost(q)'
    BY <2>1, <2>2 DEF Lost
  <2>5. \A q \in Runs \ {p} : Kept(q) => Kept(q)'
    BY <2>1, <2>2 DEF Kept, NewRow
  <2>6. ~(run'[p].cmd = "add" /\ run'[p].pc \in Appended)
    BY <2>2 DEF Appended
  <2>7. AddedInv'
    BY <2>1, <2>4, <2>5, <2>6 DEF KInv, AddedInv
  <2> QED BY <2>3, <2>7
<1>2. CASE RestartNginx
  <2>1. NamesInv' /\ ServedInv'
    BY <1>2 DEF RestartNginx, Down, OnDisk, KInv, NamesInv, OneKey, ServedInv
  <2>2. AddedInv'
    BY <1>2 DEF RestartNginx, KInv, AddedInv, Kept, Lost, NewRow
  <2> QED BY <2>1, <2>2
<1> QED BY <1>1, <1>2

\* All this holds in every state too.
LEMMA KInvCorrect == Spec => []KInv
<1>1. IInv /\ KInv /\ [Next]_vars => KInv'
  <2> SUFFICES ASSUME IInv, KInv, [Next]_vars PROVE KInv'
    OBVIOUS
  <2>1. FreshInv'
    BY StepFresh DEF KInv
  <2>2. CASE UNCHANGED vars
    BY <2>1, <2>2 DEF vars, KInv, NamesInv, OneKey, AddedInv, Kept, Lost, ServedInv, NewRow
  <2>3. CASE Next
    BY <2>1, <2>3, StepRows, StepServed, StartKInv DEF Next, KInv
  <2> QED BY <2>2, <2>3
<1> QED BY InitKInv, IInvCorrect, <1>1, PTL DEF Spec

\* A customer has two keys only when the run that minted one met another run.
THEOREM OneKeyPerCustomerCorrect == Spec => []OneKeyPerCustomer
<1>1. KInv => OneKeyPerCustomer
  BY DEF KInv, NamesInv, OneKey, OneKeyPerCustomer
<1> QED BY KInvCorrect, <1>1, PTL

\* A key that was printed stays until a name that matches is revoked, or a
\* revoke that met other runs puts an older table in the place of a newer one.
THEOREM AddedKeyKeptCorrect == Spec => []AddedKeyKept
<1>1. KInv => AddedKeyKept
  BY DEF KInv, AddedInv, AddedKeyKept, Appended, Kept, Lost
<1> QED BY KInvCorrect, <1>1, PTL

\* Without overlapping runs nothing takes a listed customer's key out of
\* service but a start of nginx on a file that was emptied and not yet filled.
THEOREM KeptWhileListedCorrect == Spec => KeptWhileListed
<1> DEFINE Held == crossed = {} => \/ Served \cap tsv \cap tsv' \subseteq Served'
                                   \/ RestartNginx /\ (out.torn \/ ~limits)
<1>1. IInv /\ KInv /\ [Next]_vars => [Held]_vars
  <2> DEFINE Still == Served \cap tsv \cap tsv' \subseteq Served'
             Excused == RestartNginx /\ (out.torn \/ ~limits)
  <2> SUFFICES ASSUME IInv, KInv, Next, crossed = {}, ~Excused
               PROVE  Still
    OBVIOUS
  <2>1. ~out.torn => nginx.map \cap tsv \subseteq out.rows
    BY DEF KInv, ServedInv
  <2>2. CASE RestartNginx
    BY <2>1, <2>2 DEF RestartNginx, OnDisk, Served
  <2>3. ASSUME NEW p \in Runs, Reload(p) PROVE Still
    <3>1. run[p].pc = "reload" /\ nginx' = Loaded
      BY <2>3 DEF Reload
    <3>2. out = [torn |-> FALSE, rows |-> tsv] /\ limits
      BY <3>1 DEF IInv, SoloInv
    <3> QED BY <2>1, <3>1, <3>2 DEF Loaded, OnDisk, Served
  <2>4. CASE nginx' = nginx
    BY <2>4 DEF Served
  <2> QED BY <2>2, <2>3, <2>4
          DEF Next, Start, Step, Kill, Check, Refuse, AppendKey, SedRead, SedRename,
              EmitBegin, EmitRead, EmitWrite, LimitsBegin, LimitsWrite, TestOk,
              TestFails, ReloadFails
<1> QED BY IInvCorrect, KInvCorrect, <1>1, PTL DEF Spec, KeptWhileListed
=============================================================================
