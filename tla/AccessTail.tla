----------------------------- MODULE AccessTail ----------------------------
(***************************************************************************)
(* The dashboard's incremental reader of the usage log, dashboard/server.py *)
(* class AccessTail.  poll() stats the path, decides from the inode and the *)
(* size where to read from, and then opens the path again: a rotation or a  *)
(* truncation can fall between the two.                                     *)
(***************************************************************************)
EXTENDS UsageLog

CONSTANTS MaxRows,    \* ACCESS_MAX_ROWS
          PrimeTail   \* the 4 MB of old log the first poll looks back, in lines

ASSUME TailAssumption == MaxRows \in Nat \ {0} /\ PrimeTail \in Nat

VARIABLES
    pc,      \* "stat" or "read"
    pos,     \* self.pos
    inode,   \* self.inode
    primed,  \* self._primed
    turns,   \* self.rotations
    rows,    \* self.rows, the deque of parsed lines
    error,   \* self.error is set
    parsed,  \* history: every line ever parsed
    skipped, \* history: the lines a poll stepped over: those before the first
             \* read, and those the file regrew behind pos after a truncation
    torn,    \* history: a read opened another inode than the one it stat'ed
    shrunk   \* history: the live file was truncated since the last stat

tailVars == <<pc, pos, inode, primed, turns, rows, error, parsed, skipped,
              torn, shrunk>>
vars == <<logVars, tailVars>>

TypeOK ==
    /\ LogTypeOK
    /\ pc \in {"stat", "read"}
    /\ pos \in 0..MaxLines
    /\ inode \in Inodes \cup {None}
    /\ primed \in BOOLEAN /\ error \in BOOLEAN
    /\ turns \in 0..MaxRotations
    /\ rows \in Seq(Lines) /\ Len(rows) <= MaxRows
    /\ parsed \subseteq Lines /\ skipped \subseteq Lines
    /\ torn \in BOOLEAN /\ shrunk \in BOOLEAN

Live == files[name[0]]

\* The two conditions under which a poll starts again from the beginning.
Rotated_FirstPollToo == name[0] # inode
Rotated == inode # None /\ name[0] # inode
StartOver_IgnoreInode == Len(Live) < pos
StartOver_NothingNew == Rotated \/ Len(Live) <= pos
StartOver == Rotated \/ Len(Live) < pos

\* The first poll instead starts at most PrimeTail lines before the end.
PrimedPos == IF Len(Live) > PrimeTail THEN Len(Live) - PrimeTail ELSE 0

Stat ==
    /\ pc = "stat"
    /\ name[0] # None
    /\ turns' = IF Rotated THEN turns + 1 ELSE turns
    /\ inode' = name[0]
    /\ primed' = TRUE
    /\ pos' = IF ~primed THEN PrimedPos ELSE IF StartOver THEN 0 ELSE pos
    /\ skipped' = IF ~primed THEN {Live[i] : i \in 1..PrimedPos}
                  ELSE IF shrunk /\ ~StartOver
                  THEN skipped \cup {Live[i] : i \in 1..pos}
                  ELSE skipped
    /\ shrunk' = FALSE
    /\ pc' = "read"
    /\ UNCHANGED <<logVars, rows, error, parsed, torn>>

\* os.stat fails: the path does not exist between rename and create.
StatError ==
    /\ pc = "stat"
    /\ name[0] = None
    /\ error' = TRUE
    /\ UNCHANGED <<logVars, pc, pos, inode, primed, turns, rows, parsed,
                   skipped, torn, shrunk>>

\* deque(maxlen): the oldest rows fall off.
Extend_Unbounded(s, t) == s \o t
Extend(s, t) ==
    LET all == s \o t
    IN  IF Len(all) <= MaxRows THEN all
        ELSE SubSeq(all, Len(all) - MaxRows + 1, Len(all))

\* A seek past the end reads nothing and tell() stays there.
ReadPos_Kept == pos
ReadPos_OneTooFar == IF Len(Live) > pos THEN Len(Live) + 1 ELSE pos
ReadPos == IF Len(Live) > pos THEN Len(Live) ELSE pos

Read ==
    /\ pc = "read"
    /\ name[0] # None
    /\ LET chunk == SubSeq(Live, pos + 1, Len(Live)) IN
       /\ rows' = Extend(rows, chunk)
       /\ parsed' = parsed \cup {chunk[i] : i \in 1..Len(chunk)}
    /\ pos' = ReadPos
    /\ error' = FALSE
    /\ torn' = (torn \/ name[0] # inode)
    /\ pc' = "stat"
    /\ UNCHANGED <<logVars, inode, primed, turns, skipped, shrunk>>

OpenError ==
    /\ pc = "read"
    /\ name[0] = None
    /\ error' = TRUE
    /\ pc' = "stat"
    /\ UNCHANGED <<logVars, pos, inode, primed, turns, rows, parsed, skipped,
                   torn, shrunk>>

\* Someone empties the live log in place; nginx goes on appending to it.
Truncate ==
    /\ name[0] # None /\ Live # <<>> /\ ~shrunk
    /\ files' = [files EXCEPT ![name[0]] = <<>>]
    /\ shrunk' = TRUE
    /\ UNCHANGED <<name, fd, written, rotations, rotating, pc, pos, inode,
                   primed, turns, rows, error, parsed, skipped, torn>>

Init ==
    /\ LogInit
    /\ pc = "stat" /\ pos = 0 /\ inode = None /\ primed = FALSE
    /\ turns = 0 /\ rows = <<>> /\ error = FALSE
    /\ parsed = {} /\ skipped = {} /\ torn = FALSE /\ shrunk = FALSE

Poll == Stat \/ StatError \/ Read \/ OpenError
Next == \/ LogNext /\ UNCHANGED tailVars
        \/ Poll
        \/ Truncate

\* poll() runs every two seconds for ever, logrotate's run always completes;
\* nothing obliges a request to arrive or a day to end.
Fairness == WF_vars(Poll) /\ WF_vars(rotating # "no" /\ Rotate /\ UNCHANGED tailVars)
Spec == Init /\ [][Next]_vars /\ Fairness

-----------------------------------------------------------------------------
(* What is checked.                                                        *)

\* Between polls, everything before self.pos in the file the tail believes
\* it is reading has been parsed or stepped over.
TailContiguous ==
    /\ name[0] # None /\ inode = name[0] /\ ~shrunk
    => \A i \in 1..Len(Live) : i <= pos => Live[i] \in parsed \cup skipped

\* Every request is counted once and the rows are in the order of the log, so
\* that "recent errors" are the last ones, unless some poll opened a file
\* other than the one it had looked at.
CountedOnceInOrder ==
    ~torn => \A i, j \in 1..Len(rows) : i < j => rows[i] < rows[j]

\* A line that such a poll reads at the old offset of the new file is read once
\* more from the start of it, and never a third time, whatever logrotate and
\* truncations do next (server.py:319-342).
CountedAtMostTwice ==
    \A l \in Lines : Cardinality({i \in DOMAIN rows : rows[i] = l}) <= 2

\* The rotations the page reports are rotations that happened.
RotationsReal == turns <= rotations

\* A request is attributed sooner or later, unless the tail stepped over it,
\* or its file was rotated or emptied before the tail reached it.
Attributed ==
    \A l \in Lines :
        written >= l ~> \/ l \in parsed \cup skipped
                        \/ name[0] # None /\ \A i \in 1..Len(Live) : Live[i] # l
=============================================================================
