CONSTANTS
    MaxLines = 5
    MaxRotations = 2
    None = None
    Windows = {1, 3}
    MaxBytes = 6
    Clock <- MCClock
SPECIFICATION Spec
INVARIANTS
    PartialMeansShort
