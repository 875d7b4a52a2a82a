CONSTANTS
    Runs = {p1, p2}
    plain = plain
    dotted = dotted
    Names <- MCNames
    Matches <- MCMatches
    First = First
SPECIFICATION Spec
CHECK_DEADLOCK FALSE
INVARIANT RevokeEffective
