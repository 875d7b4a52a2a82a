CONSTANTS
    MaxLines = 5
    MaxRotations = 2
    None = None
    Windows = {1, 3}
    MaxBytes = 4
    Clock <- MCClock
    Customers = {"acme", "evalbot", "idle"}
    Cust <- MCCust
    Status <- MCStatus
SPECIFICATION MCSpec
INVARIANTS
    TypeOK
    NeverDoubleCounts
    CompleteWhenQuiet
    ExactWhenQuiet
    CopiesBounded
