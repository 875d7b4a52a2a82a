------------------------------ MODULE UsageLog -----------------------------
(***************************************************************************)
(* /var/log/k3/usage.log, the per-customer access log and billing record:  *)
(* nginx appends a line per request through a descriptor it keeps open,    *)
(* and logrotate (nginx/k3-usage.logrotate) renames the file once a day,   *)
(* creates a fresh one and tells nginx to reopen.  The modules of its      *)
(* readers extend this one.                                                *)
(*                                                                         *)
(* Lines are numbered in the order they are written, and the number also   *)
(* stands for the timestamp.  An inode is named by the rotation that       *)
(* created it.  Paths are numbered in the order of their names: 0 is the   *)
(* live usage.log, 1 is usage.log.1, and k + 1 is usage.log.k.gz.  With    *)
(* delaycompress a rotation first compresses usage.log.1 beside itself, so *)
(* two names lead to the same lines for a while; a compressed copy never   *)
(* changes, and neither does a file nginx has left, so the copy shares the *)
(* inode.                                                                  *)
(***************************************************************************)
EXTENDS Integers, Sequences, FiniteSets

CONSTANTS MaxLines, MaxRotations,  \* bounds of the model
          None

ASSUME LogBounds == MaxLines \in Nat /\ MaxRotations \in Nat
ASSUME NoneAssumption == None \notin Nat /\ None # <<>>

VARIABLES
    files,     \* the lines of each inode
    name,      \* which inode each path names, None when it does not exist
    fd,        \* the inode nginx has open
    written,   \* lines written so far
    rotations, \* rotations started
    rotating   \* where logrotate is

logVars == <<files, name, fd, written, rotations, rotating>>

Inodes == 0..MaxRotations
Paths == 0..(MaxRotations + 1)
Lines == 1..MaxLines

LogTypeOK ==
    /\ files \in [Inodes -> Seq(Lines)]
    /\ name \in [Paths -> Inodes \cup {None}]
    /\ fd \in Inodes
    /\ written \in 0..MaxLines
    /\ rotations \in 0..MaxRotations
    /\ rotating \in {"no", "compressing", "compressed", "shifted", "renamed",
                    "created"}

\* A request ends: one write of one line, to whatever nginx has open.
WriteLine ==
    /\ written < MaxLines
    /\ written' = written + 1
    /\ files' = [files EXCEPT ![fd] = Append(@, written + 1)]
    /\ UNCHANGED <<name, fd, rotations, rotating>>

\* logrotate's daily run, for a log that is not empty (notifempty): gzip
\* begins to write usage.log.1.gz, when there is a usage.log.1.
BeginRotation ==
    /\ rotating = "no"
    /\ rotations < MaxRotations
    /\ name[0] # None /\ files[name[0]] # <<>>
    /\ rotations' = rotations + 1
    /\ name' = IF name[1] = None THEN name ELSE [name EXCEPT ![2] = name[1]]
    /\ rotating' = IF name[1] = None THEN "shifted" ELSE "compressing"
    /\ UNCHANGED <<files, fd, written>>

CompressEnd ==
    /\ rotating = "compressing"
    /\ rotating' = "compressed"
    /\ UNCHANGED <<files, name, fd, written, rotations>>

\* usage.log.1 is unlinked, and the compressed files move one suffix up.
Shift ==
    /\ rotating = "compressed"
    /\ rotating' = "shifted"
    /\ name' = [k \in Paths |-> IF k = 0 THEN name[0]
                               ELSE IF k \in {1, 2} THEN None ELSE name[k - 1]]
    /\ UNCHANGED <<files, fd, written, rotations>>

\* Then usage.log becomes usage.log.1; nginx keeps writing to it.
Rename ==
    /\ rotating = "shifted"
    /\ rotating' = "renamed"
    /\ name' = [name EXCEPT ![0] = None, ![1] = name[0]]
    /\ UNCHANGED <<files, fd, written, rotations>>

\* create 0640 root adm
Create ==
    /\ rotating = "renamed"
    /\ rotating' = "created"
    /\ name' = [name EXCEPT ![0] = rotations]
    /\ UNCHANGED <<files, fd, written, rotations>>

\* postrotate: nginx reopens usage.log; a failed signal is ignored.
Reopen ==
    /\ rotating = "created"
    /\ rotating' = "no"
    /\ fd' \in {fd, name[0]}
    /\ UNCHANGED <<files, name, written, rotations>>

LogInit ==
    /\ files = [i \in Inodes |-> <<>>]
    /\ name = [k \in Paths |-> IF k = 0 THEN 0 ELSE None]
    /\ fd = 0
    /\ written = 0
    /\ rotations = 0
    /\ rotating = "no"

\* The entries of a sequence that are in S, in their order.  Readers keep the
\* lines of a window with it, and list the files that exist: SelectSeq, but
\* with its test a set, which can be reasoned about.
Select(s, S) ==
    LET kept[i \in 0..Len(s)] ==
            IF i = 0 THEN <<>>
            ELSE IF s[i] \in S THEN Append(kept[i - 1], s[i]) ELSE kept[i - 1]
    IN  kept[Len(s)]

\* The paths that exist.
Existing == {k \in Paths : name[k] # None}

Rotate == BeginRotation \/ CompressEnd \/ Shift \/ Rename \/ Create \/ Reopen
LogNext == WriteLine \/ Rotate
=============================================================================
