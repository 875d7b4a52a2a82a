CONSTANTS
    Runs = {p1, p2, p3}
    plain = plain
    dotted = dotted
    Names <- MCNames
    Matches <- MCMatches
    First = First
SYMMETRY RunSymmetry
SPECIFICATION Spec
CHECK_DEADLOCK FALSE
INVARIANTS
    TypeOK
    SoloRunHeals
    OneKeyPerCustomer
    AddedKeyKept
PROPERTY KeptWhileListed
