------------------------------ MODULE GenKeys ------------------------------
(***************************************************************************)
(* gen-keys.sh: the customer table customers.tsv and the two nginx files    *)
(* generated for it, the key map and the limits, which also put the        *)
(* upstream credential in the place of the customer's.  Several runs may   *)
(* overlap (two operators, or an operator and deploy.sh): nothing takes a  *)
(* lock.  A run may be killed at any step, and nginx may be restarted, by  *)
(* a reboot say, at any time.                                              *)
(*                                                                         *)
(* A row is a customer's name and the run that minted its key, which tells *)
(* keys apart as well as the 40 hex digits do.                             *)
(***************************************************************************)
EXTENDS FiniteSets

CONSTANTS
    Runs,      \* invocations of the script
    Names,     \* customer names
    Matches,   \* Matches[n]: the names the regular expression "^n\t" matches
    First      \* the key, minted before the model starts, of every customer

\* A name is a pattern for itself; one with a dot is a pattern for others.
ASSUME MatchesAssumption ==
    Matches \in [Names -> SUBSET Names] /\ \A n \in Names : n \in Matches[n]
ASSUME NamesAssumption == Names # {}
ASSUME FirstAssumption == First \notin Runs

VARIABLES
    run,     \* what each run was asked for, where it is, what it has read
    tsv,     \* customers.tsv
    out,     \* 00-k3-keys.conf: a whole map, or torn
    limits,  \* k3-limits.inc: filled, or emptied
    nginx,   \* the running server: up, and what it has loaded of both
    crossed, \* history: the runs that ever had another one in progress
    last     \* history: "good" when the last run to change anything succeeded
             \* and met no other, "bad" in every other case

vars == <<run, tsv, out, limits, nginx, crossed, last>>

Rows == [name : Names, key : Runs \cup {First}]
Maps == SUBSET Rows
Commands == {"gen", "add", "revoke"}
Out == [torn : BOOLEAN, rows : Maps]
Points == {"new", "check", "append", "sed", "rename", "emit", "fill", "write",
           "limits", "swap", "test", "reload", "ok", "failed"}
Run == [cmd : Commands, name : Names, read : Maps, mixed : BOOLEAN, pc : Points]

TypeOK ==
    /\ run \in [Runs -> Run]
    /\ tsv \in Maps
    /\ out \in Out
    /\ limits \in BOOLEAN
    /\ nginx \in [up : BOOLEAN, map : Maps, limits : BOOLEAN]
    /\ crossed \subseteq Runs
    /\ last \in {"good", "bad"}

Ended == {"new", "ok", "failed"}
Active == {p \in Runs : run[p].pc \notin Ended}

Goto(p, l) == run' = [run EXCEPT ![p].pc = l]
ReadAs(p, l, rows) == run' = [run EXCEPT ![p].pc = l, ![p].read = rows]
\* What it had in memory and its place in the file are gone.
Done(p, l) ==
    run' = [run EXCEPT ![p].pc = l, ![p].read = {}, ![p].mixed = FALSE]

-----------------------------------------------------------------------------
(* One run, in the order of the script.                                    *)

Start(p) ==
    /\ run[p].pc = "new"
    /\ \/ Goto(p, "emit")
       \/ \E c \in {"add", "revoke"}, n \in Names :
             run' = [run EXCEPT ![p].cmd = c, ![p].name = n, ![p].pc = "check"]
    /\ crossed' = IF Active = {} THEN crossed ELSE crossed \cup Active \cup {p}
    /\ UNCHANGED <<tsv, out, limits, nginx, last>>

\* grep -qP "^name\t": is any customer of the table matched?
Known(p) == \E r \in tsv : r.name \in Matches[run[p].name]

\* An add goes on when nobody is matched, a revoke when somebody is.
MayGoOn_Unchecked(p) == TRUE
MayGoOn(p) == Known(p) <=> run[p].cmd = "revoke"

Check(p) ==
    /\ run[p].pc = "check"
    /\ MayGoOn(p)
    /\ Goto(p, IF run[p].cmd = "add" THEN "append" ELSE "sed")
    /\ UNCHANGED <<tsv, out, limits, nginx, crossed, last>>

Refuse(p) ==
    /\ run[p].pc = "check"
    /\ ~MayGoOn(p)
    /\ Goto(p, "failed")
    /\ UNCHANGED <<tsv, out, limits, nginx, crossed, last>>

\* printf >> customers.tsv
NewRow_NameTwice(p) == [name |-> run[p].name, key |-> run[p].name]
NewRow(p) == [name |-> run[p].name, key |-> p]

AppendKey(p) ==
    /\ run[p].pc = "append"
    /\ tsv' = tsv \cup {NewRow(p)}
    /\ Goto(p, "emit")
    /\ UNCHANGED <<out, limits, nginx, crossed, last>>

\* sed -i reads the table into a temporary file ...
Survivors_Inverted(p) == {r \in tsv : r.name \in Matches[run[p].name]}
Survivors(p) == {r \in tsv : r.name \notin Matches[run[p].name]}

SedRead(p) ==
    /\ run[p].pc = "sed"
    /\ ReadAs(p, "rename", Survivors(p))
    /\ UNCHANGED <<tsv, out, limits, nginx, crossed, last>>

\* ... and renames that over it.
SedRename(p) ==
    /\ run[p].pc = "rename"
    /\ tsv' = run[p].read
    /\ Done(p, "emit")
    /\ UNCHANGED <<out, limits, nginx, crossed, last>>

\* "} > $OUT" empties the map before the first line is written.  Two runs in
\* here at once write over each other, each at its own offset.
Writing == {q \in Runs : run[q].pc \in {"fill", "write"}}

EmitBegin(p) ==
    /\ run[p].pc = "emit"
    /\ out' = [torn |-> TRUE, rows |-> {}]
    /\ run' = [q \in Runs |->
                  IF q = p THEN [run[p] EXCEPT !.pc = "fill",
                                               !.mixed = Writing # {}]
                  ELSE [run[q] EXCEPT !.mixed = @ \/ q \in Writing]]
    /\ UNCHANGED <<tsv, limits, nginx, crossed, last>>

EmitRead(p) ==
    /\ run[p].pc = "fill"
    /\ ReadAs(p, "write", tsv)
    /\ UNCHANGED <<tsv, out, limits, nginx, crossed, last>>

\* A mixed file may end as the last writer's map or as neither.
EmitEnd_Appended(p) == {[torn |-> FALSE, rows |-> run[p].read \cup nginx.map]}
EmitEnd_LastLineLost(p) ==
    {[torn |-> FALSE, rows |-> run[p].read \ {r}] : r \in run[p].read}
EmitEnd(p) ==
    {[torn |-> FALSE, rows |-> run[p].read]}
        \cup IF run[p].mixed THEN {[torn |-> TRUE, rows |-> {}]} ELSE {}

EmitWrite(p) ==
    /\ run[p].pc = "write"
    /\ out' \in EmitEnd(p)
    /\ Done(p, "limits")
    /\ UNCHANGED <<tsv, limits, nginx, crossed, last>>

\* "cat > k3-limits.inc" empties the file before cat fills it; every run
\* writes the same.
LimitsBegin(p) ==
    /\ run[p].pc = "limits"
    /\ limits' = FALSE
    /\ Goto(p, "swap")
    /\ UNCHANGED <<tsv, out, nginx, crossed, last>>

LimitsWrite(p) ==
    /\ run[p].pc = "swap"
    /\ limits' = TRUE
    /\ Goto(p, "test")
    /\ UNCHANGED <<tsv, out, nginx, crossed, last>>

\* nginx -t, on the files as they are now.  An empty include is no error.
TestOk(p) ==
    /\ run[p].pc = "test"
    /\ ~out.torn
    /\ Goto(p, "reload")
    /\ UNCHANGED <<tsv, out, limits, nginx, crossed, last>>

TestFails(p) ==
    /\ run[p].pc = "test"
    /\ out.torn
    /\ Goto(p, "failed")
    /\ last' = "bad"
    /\ UNCHANGED <<tsv, out, limits, nginx, crossed>>

\* systemctl reload: nginx reads the files again and keeps what it has if they
\* have become invalid meanwhile; the command succeeds all the same.
OnDisk == [up |-> TRUE, map |-> out.rows, limits |-> limits]
Loaded == IF out.torn THEN nginx ELSE OnDisk

Reload(p) ==
    /\ run[p].pc = "reload"
    /\ nginx.up
    /\ nginx' = Loaded
    /\ Goto(p, "ok")
    /\ last' = IF p \in crossed THEN "bad" ELSE "good"
    /\ UNCHANGED <<tsv, out, limits, crossed>>

\* A stopped unit cannot be reloaded, and the script does not start it.
ReloadFails(p) ==
    /\ run[p].pc = "reload"
    /\ ~nginx.up
    /\ Goto(p, "failed")
    /\ last' = "bad"
    /\ UNCHANGED <<tsv, out, limits, nginx, crossed>>

-----------------------------------------------------------------------------
(* What happens to it.                                                     *)

Kill(p) ==
    /\ p \in Active
    /\ Done(p, "failed")
    /\ last' = "bad"
    /\ UNCHANGED <<tsv, out, limits, nginx, crossed>>

\* A start, unlike a reload, has no old configuration to fall back on.
Down == [up |-> FALSE, map |-> {}, limits |-> FALSE]
RestartNginx ==
    /\ nginx' = IF out.torn THEN Down ELSE OnDisk
    /\ nginx' # nginx
    /\ UNCHANGED <<run, tsv, out, limits, crossed, last>>

Init ==
    /\ run = [p \in Runs |-> [cmd |-> "gen", name |-> CHOOSE n \in Names : TRUE,
                              read |-> {}, mixed |-> FALSE, pc |-> "new"]]
    /\ tsv \in {[name : N, key : {First}] : N \in SUBSET Names}
    /\ out = [torn |-> FALSE, rows |-> tsv]
    /\ limits = TRUE
    /\ nginx = [up |-> TRUE, map |-> tsv, limits |-> TRUE]
    /\ crossed = {}
    /\ last = "good"

Step(p) ==
    \/ Check(p) \/ Refuse(p) \/ AppendKey(p) \/ SedRead(p) \/ SedRename(p)
    \/ EmitBegin(p) \/ EmitRead(p) \/ EmitWrite(p)
    \/ LimitsBegin(p) \/ LimitsWrite(p)
    \/ TestOk(p) \/ TestFails(p) \/ Reload(p) \/ ReloadFails(p)

Next ==
    \/ \E p \in Runs : Start(p) \/ Step(p) \/ Kill(p)
    \/ RestartNginx

Spec == Init /\ [][Next]_vars

-----------------------------------------------------------------------------
(* What is checked.                                                        *)

\* A run that succeeds without meeting another one leaves the table, both
\* generated files and the serving nginx in agreement, whatever overlapping
\* runs, kills and restarts had done to them before.
SoloRunHeals ==
    Active = {} /\ last = "good" =>
        /\ out = [torn |-> FALSE, rows |-> tsv] /\ limits
        /\ nginx = [up |-> TRUE, map |-> tsv, limits |-> TRUE]

\* A customer has two keys in the table only when the run that minted one of
\* them had another run beside it, however many adds were asked for, refused or
\* killed and whatever the overlapping runs wrote over each other.
OneKeyPerCustomer ==
    \A r, s \in tsv :
        r.name = s.name => r = s \/ r.key \in crossed \/ s.key \in crossed

\* The key that an add printed stays in the table until somebody revokes a name
\* that matches it; the only other way to lose it is a revoke, when both had
\* another run beside them: it renames the table it read over the new one.
AddedKeyKept ==
    \A p \in Runs :
        run[p].cmd = "add" /\ run[p].pc = "ok" =>
            \/ NewRow(p) \in tsv
            \/ \E q \in Runs : /\ run[q].cmd = "revoke" /\ run[q].pc # "new"
                               /\ \/ run[p].name \in Matches[run[q].name]
                                  \/ {p, q} \subseteq crossed

\* The keys whose requests reach the engine: without the limits file nginx
\* passes the customer's own key on, which the engine refuses
\* (gen-keys.sh:105-109).
Served == IF nginx.limits THEN nginx.map ELSE {}

\* Without overlapping runs nothing takes a listed customer's key out of
\* service, a run killed anywhere and a failing reload included, but a start of
\* nginx while the map or the limits file has been emptied and not yet filled.
KeptWhileListed ==
    [][crossed = {} => \/ Served \cap tsv \cap tsv' \subseteq Served'
                       \/ RestartNginx /\ (out.torn \/ ~limits)]_vars

\* gen-keys.sh:59, "revoked '$name' - takes effect on reload below", and
\* docs/DEPLOY.md:575: once the run that says so has reloaded nginx, the old
\* key is out.  Not so when another run had read the table before the revoke
\* and writes or reloads after it.
RevokeEffective ==
    \A p \in Runs :
        run[p].cmd = "revoke" /\ run[p].pc = "ok" =>
            \A r \in nginx.map : r.key = First => r.name \notin Matches[run[p].name]
=============================================================================
