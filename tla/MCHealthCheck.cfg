SPECIFICATION FairSpec
CONSTANTS
    Selections <- MCSelections
    NumKeys = 2
    Concurrency = 2
    Total = 3
    MaxChanges = 1
    None = None
INVARIANTS
    TypeOK
    PassMeansAnswered
    SilenceFails
    LoadHonest
    CheckedInOrder
PROPERTIES
    ImplementsReport
    Ends
CHECK_DEADLOCK FALSE
